------------------------- MODULE Replication_proofs -------------------------
(***************************************************************************)
(* Theorems about replication: the types of its state, that no finished    *)
(* request is lost, and that the secondary is in step with the primary,    *)
(* for any number of workers, requests, restarts and merged messages.      *)
(***************************************************************************)
EXTENDS Replication, FiniteSetTheorems, TLAPS

(***************************************************************************)
(* A nonempty set of naturals has a least element: the intervals 0..n for  *)
(* n in T have one that strictly includes no other.                        *)
(***************************************************************************)
LEMMA Minimum ==
  ASSUME NEW T, T \subseteq Nat, T # {}
  PROVE  \E x \in T : \A y \in T : x <= y
<1> DEFINE F == {0 .. n : n \in T}
<1>1. F # {} /\ F \subseteq FiniteSubsetsOf(Nat)
  <2>1. \A n \in Nat : IsFiniteSet(0 .. n) /\ 0 .. n \subseteq Nat
    BY FS_Interval
  <2> QED BY <2>1 DEF FiniteSubsetsOf
<1>2. \E X \in F : \A Y \in F : <<Y, X>> \notin StrictSubsetOrdering(Nat)
  <2> HIDE DEF F
  <2> QED BY <1>1, FS_StrictSubsetOrderingWellFounded, WFMin, Zenon
<1>3. PICK x \in T : \A y \in T : <<0 .. y, 0 .. x>> \notin StrictSubsetOrdering(Nat)
  BY <1>2
<1>4. ASSUME NEW y \in T, y < x PROVE FALSE
  <2>1. 0 .. y \subseteq 0 .. x /\ 0 .. x \subseteq Nat /\ x \in 0 .. x /\ x \notin 0 .. y
    BY <1>4, SMT
  <2> QED BY <1>3, <2>1 DEF StrictSubsetOrdering
<1> QED BY <1>4

(***************************************************************************)
(* A set that holds 0 and with n also n+1 holds every natural.             *)
(***************************************************************************)
LEMMA NatInduct ==
  ASSUME NEW G, 0 \in G, \A n \in Nat : n \in G => n + 1 \in G
  PROVE  Nat \subseteq G
<1> SUFFICES ASSUME Nat \ G # {} PROVE FALSE
  OBVIOUS
<1>1. PICK m \in Nat \ G : \A y \in Nat \ G : m <= y
  <2> DEFINE T == Nat \ G
  <2>1. T \subseteq Nat
    OBVIOUS
  <2> HIDE DEF T
  <2> QED BY <2>1, Minimum DEF T
<1>2. m - 1 \in Nat /\ m - 1 \notin Nat \ G
  BY <1>1
<1> QED BY <1>1, <1>2

LEMMA SplitLast ==
  ASSUME NEW X, NEW t \in Seq(X), t # << >>
  PROVE  \E u \in Seq(X), x \in X : t = Append(u, x) /\ Len(u) = Len(t) - 1
<1> DEFINE n == Len(t) - 1
           u == [i \in 1 .. n |-> t[i]]
<1>1. n \in Nat /\ n + 1 = Len(t)
  OBVIOUS
<1>2. \A i \in 1 .. n : t[i] \in X
  BY <1>1
<1>3. u \in Seq(X) /\ Len(u) = n
  BY <1>1, <1>2
<1>4. t[n+1] \in X
  BY <1>1
<1>5. t = Append(u, t[n+1])
  BY <1>1, <1>3, <1>4
<1> QED BY <1>3, <1>4, <1>5

(***************************************************************************)
(* A set that holds the empty sequence, and with s also s with one more    *)
(* element, holds every sequence.                                          *)
(***************************************************************************)
LEMMA SeqInduct ==
  ASSUME NEW X, NEW G, << >> \in G,
         \A s \in Seq(X), x \in X : s \in G => Append(s, x) \in G
  PROVE  Seq(X) \subseteq G
<1> DEFINE N == {n \in Nat : \A t \in Seq(X) : Len(t) = n => t \in G}
<1>1. 0 \in N
  <2>1. \A t \in Seq(X) : Len(t) = 0 => t = << >>
    OBVIOUS
  <2> QED BY <2>1
<1>2. ASSUME NEW n \in Nat, n \in N PROVE n + 1 \in N
  <2> SUFFICES ASSUME NEW t \in Seq(X), Len(t) = n + 1 PROVE t \in G
    OBVIOUS
  <2>1. t # << >>
    OBVIOUS
  <2>2. PICK u \in Seq(X), x \in X : t = Append(u, x) /\ Len(u) = n
    <3>1. Len(t) - 1 = n
      OBVIOUS
    <3> QED BY <2>1, <3>1, SplitLast
  <2> QED BY <1>2, <2>2
<1>3. Nat \subseteq N
  <2> HIDE DEF N
  <2> QED BY <1>1, <1>2, NatInduct
<1> QED BY <1>3

(***************************************************************************)
(* Types, and what the stages of a worker say of its request.              *)
(***************************************************************************)
WorkerInv ==
  \A w \in Workers :
    /\ pw[w].at = "idle" => pw[w].op = None
    /\ pw[w].at # "idle" => pw[w].op \in Ops
    /\ pw[w].at \in {"store", "hold", "send"} => pw[w].sq # 0

Types == TypeOK /\ WorkerInv

-----------------------------------------------------------------------------
(***************************************************************************)
(* For NothingLost.  A request has no number until a worker reads one for  *)
(* it, and keeps that one wherever it is in play; a report of a number     *)
(* says that some request of that number has run.                          *)
(***************************************************************************)
Members(s) == {s[i] : i \in DOMAIN s}
AsHeld(r)  == [sq |-> r.sq, op |-> r.op]

InStages(S) == {w \in Workers : pw[w].at \in S}
OpsIn(msgs) == {m \in Members(msgs) : m \in OpMsgs}

InHoldback == Members(holdback)
InResend   == UNION {Members(resend[c]) : c \in Conns}
InChan     == {AsHeld(m) : m \in OpsIn(chan)}
InWork     == {AsHeld(pw[w]) : w \in InStages({"store", "hold", "send"})}

Numbered == InHoldback \cup InResend \cup InChan \cup InWork

Ran(op) == HasRun(op) \/ op \in torn

Reported(n) == \E c \in Conns : Done(n) \in Members(back[c])

Reading(op) == \E w \in InStages({"read"}) : pw[w].op = op

NumbersInv ==
  /\ \A op \in Ops : number[op] = 0 <=> op \in todo \/ Reading(op)
  /\ \A w \in InStages({"read"}) : pw[w].op \notin todo
  /\ \A v, w \in InStages({"read"}) : pw[v].op = pw[w].op => v = w
  /\ \A r \in Numbered : r.sq = number[r.op]
  /\ \A n \in Nat \ {0} : Reported(n) => \E op \in Ops : number[op] = n /\ Ran(op)

Safe(op)   == IsHeld(op) \/ Ran(op)
Secure(op) == Shared(op) \/ Safe(op)
SentInv    == \A w \in InStages({"send"}) : Secure(pw[w].op)

LostInv == pup => NumbersInv /\ SentInv /\ NothingLost

-----------------------------------------------------------------------------
(***************************************************************************)
(* DoAll and Keep go through a sequence step by step; a trace holds the    *)
(* results on the way.  There is one trace of a sequence.                  *)
(***************************************************************************)
Pass(how, S, a, x) ==
  IF how = "do" THEN Do(a, x) ELSE IF x \in S THEN Append(a, x) ELSE a

Trace(tr, how, S, base, s, n) ==
  tr = [i \in 0 .. n |-> IF i = 0 THEN base ELSE Pass(how, S, tr[i-1], s[i])]

LEMMA TraceExists ==
  ASSUME NEW how, NEW S, NEW base, NEW s, NEW n \in Nat
  PROVE  \E tr : Trace(tr, how, S, base, s, n)
<1> DEFINE G == {k \in Nat : \E tr : Trace(tr, how, S, base, s, k)}
<1>1. 0 \in G
  <2> DEFINE tr == [i \in 0 .. 0 |-> base]
  <2>1. tr = [i \in 0 .. 0 |-> IF i = 0 THEN base ELSE Pass(how, S, tr[i-1], s[i])]
    OBVIOUS
  <2> QED BY <2>1 DEF Trace
<1>2. ASSUME NEW m \in Nat, m \in G PROVE m + 1 \in G
  <2>1. PICK p : Trace(p, how, S, base, s, m)
    BY <1>2
  <2> DEFINE tr == [i \in 0 .. m+1 |-> IF i = m+1 THEN Pass(how, S, p[m], s[m+1]) ELSE p[i]]
             F(i) == IF i = 0 THEN base ELSE Pass(how, S, tr[i-1], s[i])
  <2>2. ASSUME NEW i \in 0 .. m+1 PROVE tr[i] = F(i)
    <3>1. CASE i = m+1
      <4>1. i # 0 /\ i-1 = m /\ m \in 0 .. m+1 /\ m # m+1
        BY <3>1
      <4>2. tr[m] = p[m]
        BY <4>1
      <4>3. tr[i] = Pass(how, S, p[m], s[m+1])
        BY <3>1
      <4> HIDE DEF tr
      <4> QED BY <3>1, <4>1, <4>2, <4>3
    <3>2. CASE i # m+1
      <4>1. i \in 0 .. m /\ tr[i] = p[i]
        BY <3>2
      <4>2. p[i] = IF i = 0 THEN base ELSE Pass(how, S, p[i-1], s[i])
        BY <2>1, <4>1 DEF Trace
      <4>3. i # 0 => i-1 \in 0 .. m+1 /\ i-1 # m+1
        BY <4>1
      <4>4. i # 0 => tr[i-1] = p[i-1]
        BY <4>3
      <4> HIDE DEF tr
      <4> QED BY <4>1, <4>2, <4>4
    <3> QED BY <3>1, <3>2
  <2>3. Trace(tr, how, S, base, s, m+1)
    <3>1. [i \in 0 .. m+1 |-> tr[i]] = [i \in 0 .. m+1 |-> F(i)]
      <4> HIDE DEF tr, F
      <4> QED BY <2>2
    <3>2. tr = [i \in 0 .. m+1 |-> tr[i]]
      OBVIOUS
    <3> HIDE DEF tr
    <3> QED BY <3>1, <3>2 DEF Trace
  <2> HIDE DEF tr
  <2> QED BY <2>3
<1>3. Nat \subseteq G
  <2> HIDE DEF G
  <2> QED BY <1>1, <1>2, NatInduct
<1> QED BY <1>3

LEMMA TraceUnique ==
  ASSUME NEW how, NEW S, NEW base, NEW s, NEW n \in Nat, NEW p, NEW q,
         Trace(p, how, S, base, s, n), Trace(q, how, S, base, s, n)
  PROVE  p = q
<1> DEFINE G == {k \in Nat : k <= n => p[k] = q[k]}
<1>1. 0 \in G
  BY DEF Trace
<1>2. ASSUME NEW m \in Nat, m \in G PROVE m + 1 \in G
  <2> SUFFICES ASSUME m + 1 <= n PROVE p[m+1] = q[m+1]
    OBVIOUS
  <2>1. m+1 \in 0 .. n /\ m+1 # 0 /\ (m+1)-1 = m
    OBVIOUS
  <2>2. p[m+1] = Pass(how, S, p[m], s[m+1]) /\ q[m+1] = Pass(how, S, q[m], s[m+1])
    BY <2>1 DEF Trace
  <2>3. p[m] = q[m]
    BY <1>2
  <2> QED BY <2>2, <2>3
<1>3. Nat \subseteq G
  <2> HIDE DEF G
  <2> QED BY <1>1, <1>2, NatInduct
<1>4. \A k \in 0 .. n : p[k] = q[k]
  BY <1>3
<1>5. p = [k \in 0 .. n |-> p[k]] /\ q = [k \in 0 .. n |-> q[k]]
  BY DEF Trace
<1> QED BY <1>4, <1>5

LEMMA DoAllIsTrace ==
  ASSUME NEW file, NEW s, Len(s) \in Nat, NEW tr, Trace(tr, "do", {}, file, s, Len(s))
  PROVE  DoAll(file, s) = tr[Len(s)]
<1> DEFINE T(p) == p = [i \in 0 .. Len(s) |-> IF i = 0 THEN file ELSE Do(p[i-1], s[i])]
           c == CHOOSE p : T(p)
<1>1. ASSUME NEW p PROVE T(p) <=> Trace(p, "do", {}, file, s, Len(s))
  BY Zenon DEF Trace, Pass
<1>2. T(tr)
  BY <1>1
<1>3. T(c)
  BY <1>2, Zenon
<1>4. c = tr
  <2> HIDE DEF T, c
  <2> QED BY <1>1, <1>3, TraceUnique
<1>5. DoAll(file, s) = c[Len(s)]
  BY Zenon DEF DoAll
<1> QED BY <1>4, <1>5

LEMMA KeepIsTrace ==
  ASSUME NEW s, NEW S, Len(s) \in Nat, NEW tr, Trace(tr, "keep", S, << >>, s, Len(s))
  PROVE  Keep(s, S) = tr[Len(s)]
<1> DEFINE T(p) == p = [i \in 0 .. Len(s) |->
                          IF i = 0 THEN << >>
                          ELSE IF s[i] \in S THEN Append(p[i-1], s[i]) ELSE p[i-1]]
           c == CHOOSE p : T(p)
<1>0. "keep" # "do"
  OBVIOUS
<1>1. ASSUME NEW p PROVE T(p) <=> Trace(p, "keep", S, << >>, s, Len(s))
  BY <1>0, Zenon DEF Trace, Pass
<1>2. T(tr)
  BY <1>1
<1>3. T(c)
  BY <1>2, Zenon
<1>4. c = tr
  <2> HIDE DEF T, c
  <2> QED BY <1>1, <1>3, TraceUnique
<1>5. Keep(s, S) = c[Len(s)]
  BY Zenon DEF Keep
<1> QED BY <1>4, <1>5

(***************************************************************************)
(* The trace of a longer sequence starts with that of the shorter one.     *)
(***************************************************************************)
Grows(how, S, base, s, x) ==
  \E p, q : /\ Trace(p, how, S, base, s, Len(s))
            /\ Trace(q, how, S, base, Append(s, x), Len(s) + 1)
            /\ q[Len(s) + 1] = Pass(how, S, p[Len(s)], x)

LEMMA TraceAppend ==
  ASSUME NEW how, NEW S, NEW base, NEW X, NEW s \in Seq(X), NEW x \in X
  PROVE  Grows(how, S, base, s, x)
<1> DEFINE n  == Len(s)
           sx == Append(s, x)
<1>1. n \in Nat /\ n + 1 \in Nat /\ sx[n+1] = x /\ \A i \in 1 .. n : sx[i] = s[i]
  OBVIOUS
<1> HIDE DEF n, sx
<1>2. PICK q : Trace(q, how, S, base, sx, n+1)
  BY <1>1, TraceExists
<1>3. PICK p : Trace(p, how, S, base, s, n)
  BY <1>1, TraceExists
<1> DEFINE G == {k \in Nat : k <= n => p[k] = q[k]}
<1>4. 0 \in G
  BY <1>1, <1>2, <1>3 DEF Trace
<1>5. ASSUME NEW m \in Nat, m \in G PROVE m + 1 \in G
  <2> SUFFICES ASSUME m + 1 <= n PROVE p[m+1] = q[m+1]
    OBVIOUS
  <2>1. m+1 \in 1 .. n /\ m+1 \in 0 .. n /\ m+1 \in 0 .. n+1 /\ m+1 # 0 /\ (m+1)-1 = m
    BY <1>1
  <2>2. p[m+1] = Pass(how, S, p[m], s[m+1]) /\ q[m+1] = Pass(how, S, q[m], sx[m+1])
    BY <1>2, <1>3, <2>1 DEF Trace
  <2>3. p[m] = q[m] /\ sx[m+1] = s[m+1]
    BY <1>1, <1>5, <2>1
  <2> QED BY <2>2, <2>3
<1>6. Nat \subseteq G
  <2> HIDE DEF G
  <2> QED BY <1>4, <1>5, NatInduct
<1>7. p[n] = q[n]
  BY <1>1, <1>6
<1>8. q[n+1] = Pass(how, S, q[n], x)
  <2>1. n+1 \in 0 .. n+1 /\ n+1 # 0 /\ (n+1)-1 = n
    BY <1>1
  <2>2. q[n+1] = Pass(how, S, q[n], sx[n+1])
    BY <1>2, <2>1 DEF Trace
  <2> QED BY <1>1, <2>2
<1> QED BY <1>2, <1>3, <1>7, <1>8 DEF n, sx, Grows

LEMMA DoAllEmpty ==
  ASSUME NEW file
  PROVE  DoAll(file, << >>) = file
<1> DEFINE s == << >>
<1>1. Len(s) = 0 /\ 0 \in Nat
  OBVIOUS
<1>2. PICK tr : Trace(tr, "do", {}, file, s, 0)
  BY <1>1, TraceExists, Zenon
<1>3. tr[0] = file
  BY <1>2 DEF Trace
<1> HIDE DEF s
<1>4. DoAll(file, s) = tr[0]
  BY <1>1, <1>2, DoAllIsTrace
<1> QED BY <1>3, <1>4 DEF s

LEMMA KeepEmpty ==
  ASSUME NEW S
  PROVE  Keep(<< >>, S) = << >>
<1> DEFINE s == << >>
<1>1. Len(s) = 0 /\ 0 \in Nat
  OBVIOUS
<1>2. PICK tr : Trace(tr, "keep", S, << >>, s, 0)
  BY <1>1, TraceExists, Zenon
<1>3. tr[0] = << >>
  BY <1>2 DEF Trace
<1> HIDE DEF s
<1>4. Keep(s, S) = tr[0]
  BY <1>1, <1>2, KeepIsTrace
<1> QED BY <1>3, <1>4 DEF s

LEMMA DoAllAppend ==
  ASSUME NEW file, NEW X, NEW s \in Seq(X), NEW x \in X
  PROVE  DoAll(file, Append(s, x)) = Do(DoAll(file, s), x)
<1> DEFINE sx == Append(s, x)
<1>1. Len(s) \in Nat /\ Len(sx) = Len(s) + 1 /\ Len(sx) \in Nat
  OBVIOUS
<1>2. PICK p, q : /\ Trace(p, "do", {}, file, s, Len(s))
                  /\ Trace(q, "do", {}, file, sx, Len(s) + 1)
                  /\ q[Len(s) + 1] = Pass("do", {}, p[Len(s)], x)
  <2>1. Grows("do", {}, file, s, x)
    BY TraceAppend
  <2> QED BY <2>1 DEF Grows
<1> HIDE DEF sx
<1>3. DoAll(file, s) = p[Len(s)]
  BY <1>1, <1>2, DoAllIsTrace
<1>4. DoAll(file, sx) = q[Len(s) + 1]
  BY <1>1, <1>2, DoAllIsTrace
<1> QED BY <1>2, <1>3, <1>4 DEF Pass, sx

LEMMA KeepAppend ==
  ASSUME NEW S, NEW X, NEW s \in Seq(X), NEW x \in X
  PROVE  Keep(Append(s, x), S) = IF x \in S THEN Append(Keep(s, S), x) ELSE Keep(s, S)
<1> DEFINE sx == Append(s, x)
<1>1. Len(s) \in Nat /\ Len(sx) = Len(s) + 1 /\ Len(sx) \in Nat
  OBVIOUS
<1>2. PICK p, q : /\ Trace(p, "keep", S, << >>, s, Len(s))
                  /\ Trace(q, "keep", S, << >>, sx, Len(s) + 1)
                  /\ q[Len(s) + 1] = Pass("keep", S, p[Len(s)], x)
  <2>1. Grows("keep", S, << >>, s, x)
    BY TraceAppend
  <2> QED BY <2>1 DEF Grows
<1> HIDE DEF sx
<1>3. Keep(s, S) = p[Len(s)]
  BY <1>1, <1>2, KeepIsTrace
<1>4. Keep(sx, S) = q[Len(s) + 1]
  BY <1>1, <1>2, KeepIsTrace
<1> QED BY <1>2, <1>3, <1>4 DEF Pass, sx

LEMMA DoAllCons ==
  ASSUME NEW file, NEW X, NEW x \in X, NEW s \in Seq(X)
  PROVE  DoAll(file, <<x>> \o s) = DoAll(Do(file, x), s)
<1> DEFINE G == {t \in Seq(X) : DoAll(file, <<x>> \o t) = DoAll(Do(file, x), t)}
<1>1. << >> \in G
  <2>1. <<x>> \o << >> = Append(<< >>, x) /\ << >> \in Seq(X)
    OBVIOUS
  <2>2. DoAll(file, Append(<< >>, x)) = Do(DoAll(file, << >>), x)
    BY <2>1, DoAllAppend, Zenon
  <2>3. DoAll(file, << >>) = file /\ DoAll(Do(file, x), << >>) = Do(file, x)
    BY DoAllEmpty
  <2> QED BY <2>1, <2>2, <2>3, Zenon
<1>2. ASSUME NEW t \in Seq(X), NEW y \in X, t \in G PROVE Append(t, y) \in G
  <2>1. <<x>> \o Append(t, y) = Append(<<x>> \o t, y) /\ <<x>> \o t \in Seq(X)
    OBVIOUS
  <2>2. DoAll(file, Append(<<x>> \o t, y)) = Do(DoAll(file, <<x>> \o t), y)
    BY <2>1, DoAllAppend, ZenonT(60)
  <2>3. DoAll(Do(file, x), Append(t, y)) = Do(DoAll(Do(file, x), t), y)
    BY DoAllAppend
  <2>4. DoAll(file, <<x>> \o t) = DoAll(Do(file, x), t)
    BY <1>2, Zenon
  <2>5. DoAll(file, <<x>> \o Append(t, y)) = DoAll(Do(file, x), Append(t, y))
    BY <2>1, <2>2, <2>3, <2>4, Zenon
  <2>6. Append(t, y) \in Seq(X)
    OBVIOUS
  <2> QED BY <2>5, <2>6, Zenon
<1> HIDE DEF G
<1>3. Seq(X) \subseteq G
  BY <1>1, <1>2, SeqInduct
<1>4. s \in G
  BY <1>3
<1> QED BY <1>4, Zenon DEF G

LEMMA KeepConcat ==
  ASSUME NEW S, NEW X, NEW s \in Seq(X), NEW t \in Seq(X)
  PROVE  Keep(s \o t, S) = Keep(s, S) \o Keep(t, S)
         /\ Keep(s, S) \in Seq(X) /\ Keep(t, S) \in Seq(X)
<1>1. ASSUME NEW r \in Seq(X) PROVE Keep(r, S) \in Seq(X)
  <2> DEFINE G == {q \in Seq(X) : Keep(q, S) \in Seq(X)}
  <2>1. << >> \in G
    <3>1. << >> \in Seq(X)
      OBVIOUS
    <3> QED BY <3>1, KeepEmpty, Zenon
  <2>2. ASSUME NEW q \in Seq(X), NEW y \in X, q \in G PROVE Append(q, y) \in G
    <3>1. Keep(q, S) \in Seq(X)
      BY <2>2, Zenon
    <3>2. Append(q, y) \in Seq(X) /\ Append(Keep(q, S), y) \in Seq(X)
      BY <3>1
    <3>3. Keep(Append(q, y), S) \in Seq(X)
      BY <3>1, <3>2, KeepAppend
    <3> QED BY <3>2, <3>3, Zenon
  <2> HIDE DEF G
  <2>3. Seq(X) \subseteq G
    BY <2>1, <2>2, SeqInduct
  <2>4. r \in G
    BY <2>3
  <2> QED BY <2>4, Zenon DEF G
<1> DEFINE G == {q \in Seq(X) : Keep(s \o q, S) = Keep(s, S) \o Keep(q, S)}
<1>2. << >> \in G
  <2>1. s \o << >> = s /\ Keep(s, S) \o << >> = Keep(s, S) /\ << >> \in Seq(X)
    BY <1>1
  <2> QED BY <2>1, KeepEmpty, Zenon
<1>3. ASSUME NEW q \in Seq(X), NEW y \in X, q \in G PROVE Append(q, y) \in G
  <2>1. s \o Append(q, y) = Append(s \o q, y) /\ s \o q \in Seq(X)
    OBVIOUS
  <2>2. Keep(Append(s \o q, y), S) =
          IF y \in S THEN Append(Keep(s \o q, S), y) ELSE Keep(s \o q, S)
    BY <2>1, KeepAppend
  <2>3. Keep(Append(q, y), S) = IF y \in S THEN Append(Keep(q, S), y) ELSE Keep(q, S)
    BY KeepAppend
  <2>4. Keep(s, S) \in Seq(X) /\ Keep(q, S) \in Seq(X)
    BY <1>1
  <2>5. Keep(s, S) \o Append(Keep(q, S), y) = Append(Keep(s, S) \o Keep(q, S), y)
    BY <2>4
  <2>6. Keep(s \o q, S) = Keep(s, S) \o Keep(q, S)
    BY <1>3, Zenon
  <2>7. Keep(s \o Append(q, y), S) = Keep(s, S) \o Keep(Append(q, y), S)
    BY <2>1, <2>2, <2>3, <2>5, <2>6, Zenon
  <2>8. Append(q, y) \in Seq(X)
    OBVIOUS
  <2> QED BY <2>7, <2>8, Zenon
<1> HIDE DEF G
<1>4. Seq(X) \subseteq G
  BY <1>2, <1>3, SeqInduct
<1>5. t \in G
  BY <1>4
<1> QED BY <1>1, <1>5, Zenon DEF G

LEMMA MembersAppend ==
  ASSUME NEW X, NEW s \in Seq(X), NEW x \in X
  PROVE  Members(Append(s, x)) = Members(s) \cup {x}
<1>1. ASSUME NEW y \in Members(Append(s, x)) PROVE y \in Members(s) \cup {x}
  BY DEF Members
<1>2. ASSUME NEW i \in DOMAIN s PROVE s[i] \in Members(Append(s, x))
  <2>1. i \in DOMAIN Append(s, x) /\ Append(s, x)[i] = s[i]
    OBVIOUS
  <2> QED BY <2>1 DEF Members
<1>3. x \in Members(Append(s, x))
  <2>1. Len(s) + 1 \in DOMAIN Append(s, x) /\ Append(s, x)[Len(s) + 1] = x
    OBVIOUS
  <2> QED BY <2>1 DEF Members
<1> QED BY <1>1, <1>2, <1>3 DEF Members

LEMMA KeepMembers ==
  ASSUME NEW S, NEW X, NEW s \in Seq(X)
  PROVE  Members(Keep(s, S)) = Members(s) \cap S
<1> DEFINE G == {q \in Seq(X) : Members(Keep(q, S)) = Members(q) \cap S}
<1>1. << >> \in G
  <2>1. << >> \in Seq(X) /\ Members(<< >>) = {}
    BY DEF Members
  <2> QED BY <2>1, KeepEmpty, Zenon
<1>2. ASSUME NEW q \in Seq(X), NEW y \in X, q \in G PROVE Append(q, y) \in G
  <2>1. Keep(q, S) \in Seq(X)
    BY KeepConcat
  <2>2. Members(Append(q, y)) = Members(q) \cup {y}
    BY MembersAppend
  <2>3. Members(Append(Keep(q, S), y)) = Members(Keep(q, S)) \cup {y}
    BY <2>1, MembersAppend
  <2>4. Members(Keep(q, S)) = Members(q) \cap S
    BY <1>2, Zenon
  <2>5. Keep(Append(q, y), S) = IF y \in S THEN Append(Keep(q, S), y) ELSE Keep(q, S)
    BY KeepAppend
  <2>6. Members(Keep(Append(q, y), S)) = Members(Append(q, y)) \cap S
    BY <2>2, <2>3, <2>4, <2>5
  <2>7. Append(q, y) \in Seq(X)
    OBVIOUS
  <2> QED BY <2>6, <2>7, Zenon
<1> HIDE DEF G
<1>3. Seq(X) \subseteq G
  BY <1>1, <1>2, SeqInduct
<1>4. s \in G
  BY <1>3
<1> QED BY <1>4, Zenon DEF G

LEMMA KeepAll ==
  ASSUME NEW S, NEW X, NEW s \in Seq(X), Members(s) \subseteq S
  PROVE  Keep(s, S) = s
<1> DEFINE G == {q \in Seq(X) : Members(q) \subseteq S => Keep(q, S) = q}
<1>1. << >> \in G
  <2>1. << >> \in Seq(X)
    OBVIOUS
  <2> QED BY <2>1, KeepEmpty, Zenon
<1>2. ASSUME NEW q \in Seq(X), NEW y \in X, q \in G PROVE Append(q, y) \in G
  <2>1. Members(Append(q, y)) = Members(q) \cup {y}
    BY MembersAppend
  <2>2. Keep(Append(q, y), S) = IF y \in S THEN Append(Keep(q, S), y) ELSE Keep(q, S)
    BY KeepAppend
  <2>3. Members(q) \subseteq S => Keep(q, S) = q
    BY <1>2, Zenon
  <2>4. Members(Append(q, y)) \subseteq S => Keep(Append(q, y), S) = Append(q, y)
    BY <2>1, <2>2, <2>3
  <2>5. Append(q, y) \in Seq(X)
    OBVIOUS
  <2> QED BY <2>4, <2>5, Zenon
<1> HIDE DEF G
<1>3. Seq(X) \subseteq G
  BY <1>1, <1>2, SeqInduct
<1>4. s \in G
  BY <1>3
<1> QED BY <1>4, Zenon DEF G

LEMMA KeepNone ==
  ASSUME NEW S, NEW X, NEW s \in Seq(X), Members(s) \cap S = {}
  PROVE  Keep(s, S) = << >>
<1>1. Keep(s, S) \in Seq(X)
  BY KeepConcat
<1>2. Members(Keep(s, S)) = {}
  BY KeepMembers
<1>3. DOMAIN Keep(s, S) = {}
  BY <1>2 DEF Members
<1> QED BY <1>1, <1>3

(***************************************************************************)
(* Taking out the one entry of a rising holdback that has a number, and    *)
(* taking the first request off the channel with the errors before it.     *)
(***************************************************************************)
Rising(s)     == \A i, j \in DOMAIN s : i < j => s[i].sq < s[j].sq
Others(n)     == {h \in Held : h.sq # n}
Dropped(s, j) == [i \in 1 .. Len(s) - 1 |-> s[IF i < j THEN i ELSE i + 1]]

LEMMA SeqFrom ==
  ASSUME NEW X, NEW n \in Nat, NEW u \in [1 .. n -> X]
  PROVE  u \in Seq(X) /\ Len(u) = n
OBVIOUS

Joins(t, u, w) ==
  /\ Len(t) = Len(u) + Len(w)
  /\ \A i \in 1 .. Len(u) : t[i] = u[i]
  /\ \A i \in 1 .. Len(w) : t[Len(u) + i] = w[i]

LEMMA ConcatAt ==
  ASSUME NEW X, NEW u \in Seq(X), NEW w \in Seq(X)
  PROVE  u \o w \in Seq(X) /\ Joins(u \o w, u, w)
BY DEF Joins

LEMMA SeqEqual ==
  ASSUME NEW X, NEW s \in Seq(X), NEW t \in Seq(X), Len(s) = Len(t),
         \A i \in 1 .. Len(s) : s[i] = t[i]
  PROVE  s = t
OBVIOUS

Parts(s, j, u, v) ==
  /\ s = u \o (<<s[j]>> \o v)
  /\ Len(u) = j - 1 /\ \A i \in 1 .. j-1 : u[i] = s[i]
  /\ Len(v) = Len(s) - j /\ \A i \in 1 .. Len(s)-j : v[i] = s[j+i]

LEMMA SplitAt ==
  ASSUME NEW X, NEW s \in Seq(X), NEW j \in DOMAIN s
  PROVE  \E u, v \in Seq(X) : Parts(s, j, u, v)
<1>0. PICK m \in Nat, n \in Nat : j = m + 1 /\ Len(s) = m + 1 + n
  <2> DEFINE l == Len(s)
  <2>1. j \in 1 .. l /\ l \in Nat
    OBVIOUS
  <2> HIDE DEF l
  <2>2. j - 1 \in Nat /\ l - j \in Nat /\ j = (j - 1) + 1 /\ l = (j - 1) + 1 + (l - j)
    BY <2>1
  <2> QED BY <2>2 DEF l
<1> DEFINE u == [i \in 1 .. m |-> s[i]]
           v == [i \in 1 .. n |-> s[j+i]]
<1>1. \A i \in 1 .. Len(s) : s[i] \in X
  OBVIOUS
<1>2. (\A i \in 1 .. m : s[i] \in X) /\ (\A i \in 1 .. n : s[j+i] \in X) /\ s[j] \in X
  <2>1. \A i \in 1 .. m : i \in 1 .. Len(s)
    BY <1>0
  <2>2. \A i \in 1 .. n : j+i \in 1 .. Len(s)
    BY <1>0
  <2> QED BY <1>1, <2>1, <2>2
<1>3. u \in Seq(X) /\ Len(u) = m /\ \A i \in 1 .. m : u[i] = s[i]
  <2>1. u \in [1 .. m -> X]
    BY <1>2
  <2> HIDE DEF u
  <2>2. u \in Seq(X) /\ Len(u) = m
    BY <2>1, SeqFrom
  <2> QED BY <2>2 DEF u
<1>4. v \in Seq(X) /\ Len(v) = n /\ \A i \in 1 .. n : v[i] = s[j+i]
  <2>1. v \in [1 .. n -> X]
    BY <1>2
  <2> HIDE DEF v
  <2>2. v \in Seq(X) /\ Len(v) = n
    BY <2>1, SeqFrom
  <2> QED BY <2>2 DEF v
<1> HIDE DEF u, v
<1> DEFINE x == <<s[j]>>
           w == x \o v
<1>5. x \in Seq(X) /\ Len(x) = 1 /\ x[1] = s[j]
  BY <1>2
<1> HIDE DEF x
<1>6. w \in Seq(X) /\ Len(w) = n+1 /\ w[1] = s[j] /\ \A i \in 1 .. n : w[i+1] = v[i]
  <2>0. w \in Seq(X) /\ Joins(w, x, v)
    BY <1>4, <1>5, ConcatAt
  <2> HIDE DEF w
  <2>1. w \in Seq(X) /\ Len(w) = Len(x) + Len(v)
        /\ (\A i \in 1 .. Len(x) : w[i] = x[i])
        /\ \A i \in 1 .. Len(v) : w[Len(x) + i] = v[i]
    BY <2>0 DEF Joins
  <2>2. w[1] = s[j] /\ Len(w) = n + 1
    BY <1>4, <1>5, <2>1
  <2>3. ASSUME NEW i \in 1 .. n PROVE w[i+1] = v[i]
    BY <1>4, <1>5, <2>1
  <2> QED BY <2>1, <2>2, <2>3
<1> HIDE DEF w
<1>7. s = u \o w
  <2> DEFINE t == u \o w
  <2>0. t \in Seq(X) /\ Joins(t, u, w)
    BY <1>3, <1>6, ConcatAt
  <2> HIDE DEF t
  <2>1. t \in Seq(X) /\ Len(t) = Len(u) + Len(w)
        /\ (\A i \in 1 .. Len(u) : t[i] = u[i])
        /\ \A i \in 1 .. Len(w) : t[Len(u) + i] = w[i]
    BY <2>0 DEF Joins
  <2>2. Len(t) = Len(s)
    BY <1>0, <1>3, <1>6, <2>1
  <2>3. ASSUME NEW i \in 1 .. Len(s) PROVE s[i] = t[i]
    <3>1. CASE i \in 1 .. m
      BY <3>1, <1>3, <2>1
    <3>2. CASE i = j
      <4>1. 1 \in 1 .. Len(w) /\ Len(u) + 1 = i
        BY <3>2, <1>0, <1>3, <1>6
      <4>2. t[i] = w[1]
        BY <2>1, <4>1
      <4> QED BY <3>2, <4>2, <1>6
    <3>3. CASE i \notin 1 .. m /\ i # j
      <4>1. PICK l \in 1 .. n : i = j + l
        <5>1. i-j \in 1 .. n /\ i = j + (i-j)
          BY <3>3, <1>0
        <5> QED BY <5>1
      <4>2. l+1 \in 1 .. Len(w) /\ Len(u) + (l+1) = i
        BY <4>1, <1>0, <1>3, <1>6
      <4>3. t[i] = w[l+1]
        BY <2>1, <4>2
      <4> QED BY <4>1, <4>3, <1>4, <1>6
    <3> QED BY <3>1, <3>2, <3>3
  <2>4. s = t
    BY <2>1, <2>2, <2>3, SeqEqual
  <2> QED BY <2>4 DEF t
<1>8. m = j-1 /\ n = Len(s)-j
  BY <1>0
<1> QED BY <1>3, <1>4, <1>7, <1>8 DEF w, x, Parts

LEMMA KeepOne ==
  ASSUME NEW S, NEW X, NEW x \in X
  PROVE  Keep(<<x>>, S) = IF x \in S THEN <<x>> ELSE << >>
<1>1. << >> \in Seq(X) /\ Append(<< >>, x) = <<x>>
  OBVIOUS
<1>2. Keep(Append(<< >>, x), S) = IF x \in S THEN Append(Keep(<< >>, S), x) ELSE Keep(<< >>, S)
  BY <1>1, KeepAppend
<1> QED BY <1>1, <1>2, KeepEmpty

After(i, j) == IF i < j THEN i ELSE i + 1

LEMMA DroppedAt ==
  ASSUME NEW s \in Seq(Held), NEW j \in DOMAIN s
  PROVE  /\ Dropped(s, j) \in Seq(Held) /\ Len(Dropped(s, j)) = Len(s) - 1
         /\ DOMAIN Dropped(s, j) = 1 .. Len(s) - 1 /\ Len(s) - 1 \in Nat
         /\ \A i \in 1 .. Len(s) - 1 : /\ Dropped(s, j)[i] = s[After(i, j)]
                                       /\ After(i, j) \in DOMAIN s
<1> DEFINE l == Len(s)
           d == Dropped(s, j)
<1>1. l \in Nat /\ j \in 1 .. l /\ l - 1 \in Nat /\ DOMAIN s = 1 .. l
  OBVIOUS
<1>2. ASSUME NEW i \in 1 .. l-1 PROVE After(i, j) \in 1 .. l
  <2> HIDE DEF l
  <2> QED BY <1>1 DEF After
<1>3. \A i \in 1 .. l : s[i] \in Held
  OBVIOUS
<1>4. d \in [1 .. l-1 -> Held] /\ \A i \in 1 .. l-1 : d[i] = s[After(i, j)]
  <2>1. d = [i \in 1 .. l-1 |-> s[After(i, j)]]
    BY DEF Dropped, After
  <2> HIDE DEF d, l
  <2> QED BY <1>2, <1>3, <2>1
<1>5. d \in Seq(Held) /\ Len(d) = l - 1
  <2> HIDE DEF d, l
  <2> QED BY <1>1, <1>4, SeqFrom
<1>6. DOMAIN d = 1 .. l-1
  <2> HIDE DEF d, l
  <2> QED BY <1>4
<1> QED BY <1>1, <1>2, <1>4, <1>5, <1>6

LEMMA WithoutOne ==
  ASSUME NEW s \in Seq(Held), Rising(s), NEW j \in DOMAIN s
  PROVE  Keep(s, Others(s[j].sq)) = Dropped(s, j)
<1> DEFINE S == Others(s[j].sq)
<1>0. PICK u, v \in Seq(Held) : Parts(s, j, u, v)
  BY SplitAt
<1>1. /\ s = u \o (<<s[j]>> \o v)
      /\ Len(u) = j - 1 /\ \A i \in 1 .. j-1 : u[i] = s[i]
      /\ Len(v) = Len(s) - j /\ \A i \in 1 .. Len(s)-j : v[i] = s[j+i]
  BY <1>0 DEF Parts
<1>2. j \in 1 .. Len(s) /\ s[j] \in Held /\ s[j] \notin S
  BY DEF Others
<1>3. Members(u) \subseteq S
  <2> SUFFICES ASSUME NEW i \in DOMAIN u PROVE u[i] \in S
    BY DEF Members
  <2>1. i \in 1 .. j-1 /\ u[i] = s[i] /\ i < j /\ i \in DOMAIN s
    BY <1>1, <1>2
  <2>2. s[i] \in Held /\ s[i].sq < s[j].sq
    BY <2>1 DEF Rising
  <2>3. s[i].sq # s[j].sq
    BY <2>2, <1>2 DEF Held
  <2> QED BY <2>1, <2>2, <2>3 DEF Others
<1>4. Members(v) \subseteq S
  <2> SUFFICES ASSUME NEW i \in DOMAIN v PROVE v[i] \in S
    BY DEF Members
  <2>1. i \in 1 .. Len(s)-j /\ v[i] = s[j+i] /\ j < j+i /\ j+i \in DOMAIN s
    BY <1>1, <1>2
  <2>2. s[j+i] \in Held /\ s[j].sq < s[j+i].sq
    BY <2>1 DEF Rising
  <2>3. s[j+i].sq # s[j].sq
    BY <2>2, <1>2 DEF Held
  <2> QED BY <2>1, <2>2, <2>3 DEF Others
<1>5. Keep(u, S) = u /\ Keep(v, S) = v
  BY <1>3, <1>4, KeepAll
<1>6. Keep(<<s[j]>>, S) = << >>
  BY <1>2, KeepOne
<1>7. <<s[j]>> \in Seq(Held) /\ <<s[j]>> \o v \in Seq(Held) /\ << >> \o v = v
  BY <1>2
<1>8. Keep(<<s[j]>> \o v, S) = Keep(<<s[j]>>, S) \o Keep(v, S)
  BY <1>7, KeepConcat, ZenonT(60)
<1>9. Keep(u \o (<<s[j]>> \o v), S) = Keep(u, S) \o Keep(<<s[j]>> \o v, S)
  BY <1>7, KeepConcat, ZenonT(60)
<1>10. Keep(s, S) = u \o v
  BY <1>1, <1>5, <1>6, <1>7, <1>8, <1>9, Zenon
<1>11. u \o v = Dropped(s, j)
  <2> DEFINE t == u \o v
             d == Dropped(s, j)
             l == Len(s)
  <2>0. t \in Seq(Held) /\ Joins(t, u, v)
    BY ConcatAt
  <2> HIDE DEF t
  <2>1. t \in Seq(Held) /\ Len(t) = Len(u) + Len(v)
        /\ (\A i \in 1 .. Len(u) : t[i] = u[i])
        /\ \A i \in 1 .. Len(v) : t[Len(u) + i] = v[i]
    BY <2>0 DEF Joins
  <2>2. l \in Nat /\ j \in 1 .. l /\ Len(t) = l - 1 /\ l - 1 \in Nat
    BY <1>1, <1>2, <2>1
  <2>3. d \in Seq(Held) /\ Len(d) = l - 1
        /\ \A i \in 1 .. l-1 : d[i] = s[IF i < j THEN i ELSE i + 1]
    BY DroppedAt DEF After
  <2> HIDE DEF d
  <2>4. ASSUME NEW i \in 1 .. l-1 PROVE t[i] = d[i]
    <3>1. CASE i < j
      <4>1. i \in 1 .. Len(u) /\ i \in 1 .. j-1
        BY <1>1, <2>2, <3>1
      <4> QED BY <1>1, <2>1, <2>3, <3>1, <4>1
    <3>2. CASE ~(i < j)
      <4>1. PICK k \in 1 .. Len(v) : i = Len(u) + k
        <5> DEFINE k == i - (j-1)
        <5>1. j \in Int /\ i \in Int /\ l \in Int /\ 1 <= j /\ i <= l-1 /\ j <= i
          <6> HIDE DEF l
          <6> QED BY <2>2, <3>2
        <5>2. Len(u) = j-1 /\ Len(v) = l-j
          BY <1>1 DEF l
        <5>3. k \in 1 .. l-j /\ i = (j-1) + k
          <6> HIDE DEF l
          <6> QED BY <5>1
        <5> HIDE DEF k, l
        <5> QED BY <5>2, <5>3
      <4>2. t[i] = v[k] /\ j+k = i+1
        BY <1>1, <2>1, <2>2, <4>1, SMTT(20)
      <4>3. v[k] = s[j+k]
        BY <1>1
      <4> QED BY <2>3, <3>2, <4>2, <4>3
    <3> QED BY <3>1, <3>2
  <2>5. t = d
    <3> HIDE DEF l
    <3> QED BY <2>1, <2>2, <2>3, <2>4, SeqEqual
  <2> QED BY <2>5 DEF t, d
<1> QED BY <1>10, <1>11

-----------------------------------------------------------------------------
(***************************************************************************)
(* What one recv takes, and what it leaves.                                *)
(***************************************************************************)
LEMMA BatchType ==
  ASSUME NEW X, NEW s \in Seq(X), NEW k \in 0 .. Len(s)
  PROVE  Batch(s, k) \in Seq(X) /\ Len(Batch(s, k)) = k
BY DEF Batch

LEMMA BatchAt ==
  ASSUME NEW X, NEW s \in Seq(X), NEW k \in 0 .. Len(s), NEW i \in 1 .. k
  PROVE  Batch(s, k)[i] = s[i]
BY DEF Batch

LEMMA RestType ==
  ASSUME NEW X, NEW s \in Seq(X), NEW k \in 0 .. Len(s)
  PROVE  Rest(s, k) \in Seq(X) /\ Len(Rest(s, k)) = Len(s) - k
BY DEF Rest

LEMMA RestAt ==
  ASSUME NEW X, NEW s \in Seq(X), NEW k \in 0 .. Len(s), NEW i \in 1 .. Len(s) - k
  PROVE  Rest(s, k)[i] = s[k+i]
BY DEF Rest

LEMMA UptoIs ==
  ASSUME NEW X, NEW s \in Seq(X), NEW k \in Upto(s)
  PROVE  k \in 1 .. Len(s)
BY BoundsAssumption DEF Upto

LEMMA RestMembers ==
  ASSUME NEW X, NEW s \in Seq(X), NEW k \in 0 .. Len(s)
  PROVE  Members(Rest(s, k)) \subseteq Members(s)
<1> SUFFICES ASSUME NEW i \in DOMAIN Rest(s, k) PROVE Rest(s, k)[i] \in Members(s)
  BY DEF Members
<1>1. i \in 1 .. Len(s) - k
  BY RestType
<1>2. Rest(s, k)[i] = s[k+i]
  BY <1>1, RestAt
<1>3. k+i \in DOMAIN s
  BY <1>1
<1> QED BY <1>2, <1>3 DEF Members

LEMMA BatchMembers ==
  ASSUME NEW X, NEW s \in Seq(X), NEW k \in 0 .. Len(s)
  PROVE  Members(Batch(s, k)) \subseteq Members(s)
<1> SUFFICES ASSUME NEW i \in DOMAIN Batch(s, k) PROVE Batch(s, k)[i] \in Members(s)
  BY DEF Members
<1>1. i \in 1 .. k
  BY BatchType
<1>2. Batch(s, k)[i] = s[i]
  BY <1>1, BatchAt
<1>3. i \in DOMAIN s
  BY <1>1
<1> QED BY <1>2, <1>3 DEF Members

LEMMA FirstIs ==
  ASSUME NEW b \in Seq(Message), ~OnlyErrors(b)
  PROVE  /\ First(b) \in DOMAIN b
         /\ b[First(b)] \in OpMsgs
         /\ \A i \in 1 .. First(b) - 1 : b[i] = Err
<1> DEFINE P(i) == b[i] # Err /\ OnlyErrors(SubSeq(b, 1, i-1))
           T == {i \in DOMAIN b : b[i] # Err}
<1>1. PICK m \in T : \A y \in T : m <= y
  <2>1. T \subseteq Nat /\ T # {}
    BY DEF OnlyErrors
  <2> HIDE DEF T
  <2> QED BY <2>1, Minimum
<1>2. m \in 1 .. Len(b) /\ m - 1 \in 0 .. Len(b)
  OBVIOUS
<1>3. P(m)
  <2> SUFFICES ASSUME NEW i \in DOMAIN Batch(b, m-1) PROVE Batch(b, m-1)[i] = Err
    BY DEF OnlyErrors, Batch
  <2>1. i \in 1 .. m-1 /\ Batch(b, m-1)[i] = b[i]
    BY <1>2, BatchType, BatchAt
  <2>2. i \in DOMAIN b /\ i \notin T
    BY <1>1, <1>2, <2>1
  <2> QED BY <2>1, <2>2
<1>4. First(b) \in DOMAIN b /\ P(First(b))
  <2>1. \E i \in DOMAIN b : P(i)
    BY <1>3
  <2> QED BY <2>1, Zenon DEF First
<1> DEFINE f == First(b)
<1> HIDE DEF f
<1>5. f \in 1 .. Len(b) /\ f - 1 \in 0 .. Len(b) /\ b[f] # Err /\ OnlyErrors(Batch(b, f-1))
  BY <1>4 DEF Batch, f
<1>6. ASSUME NEW i \in 1 .. f-1 PROVE b[i] = Err
  <2>1. i \in DOMAIN Batch(b, f-1) /\ Batch(b, f-1)[i] = b[i]
    BY <1>5, BatchType, BatchAt
  <2> QED BY <1>5, <2>1 DEF OnlyErrors
<1>7. b[f] \in OpMsgs
  BY <1>5 DEF Message
<1> QED BY <1>5, <1>6, <1>7 DEF f

-----------------------------------------------------------------------------
(***************************************************************************)
(* What a send does, whatever became of it.                                *)
(***************************************************************************)
SocketStates == {"unused", "open", "closed", "reset"}

LEMMA SendEffect ==
  ASSUME Types, NEW c \in Conns \cup {0}, NEW m \in Message, Send(c, m)
  PROVE  /\ chan' \in Seq(Message) /\ socket' \in [Conns -> SocketStates]
         /\ pup' \in BOOLEAN /\ (pup' => pup)
         /\ chan' = chan \/ (chan' = Append(chan, m) /\ c # 0 /\ socket[c] = "open")
         /\ c # 0 /\ socket[c] = "open" => chan' = Append(chan, m)
         /\ \A d \in Conns : socket'[d] = "open" <=> socket[d] = "open"
<1> USE DEF Types, TypeOK, SocketStates
<1>1. CASE c = 0 /\ UNCHANGED <<pup, socket, chan>>
  BY <1>1
<1>2. CASE c # 0 /\ socket[c] = "open" /\ chan' = Append(chan, m) /\ UNCHANGED <<pup, socket>>
  BY <1>2
<1>3. CASE /\ c # 0 /\ socket[c] = "closed"
           /\ \E s \in {"closed", "reset"} : socket' = [socket EXCEPT ![c] = s]
           /\ UNCHANGED <<pup, chan>>
  <2>1. PICK s \in {"closed", "reset"} : socket' = [socket EXCEPT ![c] = s]
    BY <1>3
  <2>2. socket' \in [Conns -> SocketStates]
    BY <2>1
  <2>3. \A d \in Conns : socket'[d] = "open" <=> socket[d] = "open"
    BY <1>3, <2>1
  <2> QED BY <1>3, <2>2, <2>3
<1>4. CASE c # 0 /\ socket[c] = "reset" /\ pup' = FALSE /\ UNCHANGED <<socket, chan>>
  BY <1>4
<1>5. \/ c = 0 /\ UNCHANGED <<pup, socket, chan>>
      \/ c # 0 /\ socket[c] = "open" /\ chan' = Append(chan, m) /\ UNCHANGED <<pup, socket>>
      \/ /\ c # 0 /\ socket[c] = "closed"
         /\ \E s \in {"closed", "reset"} : socket' = [socket EXCEPT ![c] = s]
         /\ UNCHANGED <<pup, chan>>
      \/ c # 0 /\ socket[c] = "reset" /\ pup' = FALSE /\ UNCHANGED <<socket, chan>>
  BY DEF Send
<1> QED BY <1>1, <1>2, <1>3, <1>4, <1>5, Zenon

LEMMA MsgTypes ==
  /\ Err \in Message /\ Err \in Report /\ Hello \in Report
  /\ \A r : r.sq \in Nat \ {0} /\ r.op \in Ops => Msg(r) \in OpMsgs /\ AsHeld(r) \in Held
  /\ \A n \in Nat : Done(n) \in Report
  /\ OpMsgs \subseteq Message
  /\ Err \notin OpMsgs
  /\ \A n : Done(n) # Hello /\ Done(n) # Err
  /\ Err # Hello
BY DEF Message, OpMsgs, Report, Err, Hello, Done, Msg, AsHeld, Held

LEMMA DoType ==
  ASSUME NEW X, Puts \subseteq X, NEW file \in Seq(X), NEW op \in Ops
  PROVE  Do(file, op) \in Seq(X)
BY DEF Do

LEMMA DoAllType ==
  ASSUME NEW X, Puts \subseteq X, NEW file \in Seq(X), NEW ops \in Seq(Ops)
  PROVE  DoAll(file, ops) \in Seq(X)
<1> DEFINE G == {t \in Seq(Ops) : DoAll(file, t) \in Seq(X)}
<1>1. << >> \in G
  <2>1. << >> \in Seq(Ops)
    OBVIOUS
  <2> QED BY <2>1, DoAllEmpty, Zenon
<1>2. ASSUME NEW t \in Seq(Ops), NEW y \in Ops, t \in G PROVE Append(t, y) \in G
  <2>1. DoAll(file, t) \in Seq(X)
    BY <1>2, Zenon
  <2>2. DoAll(file, Append(t, y)) = Do(DoAll(file, t), y)
    BY DoAllAppend
  <2>3. DoAll(file, Append(t, y)) \in Seq(X)
    BY <2>1, <2>2, DoType
  <2>4. Append(t, y) \in Seq(Ops)
    OBVIOUS
  <2> QED BY <2>3, <2>4, Zenon
<1> HIDE DEF G
<1>3. Seq(Ops) \subseteq G
  BY <1>1, <1>2, SeqInduct
<1>4. ops \in G
  BY <1>3
<1> QED BY <1>4, Zenon DEF G

(***************************************************************************)
(* What receiving k messages does: the first request among them, numbered  *)
(* if nothing precedes it, is applied.                                     *)
(***************************************************************************)
Number(f) == IF f = 1 THEN chan[1].sq ELSE 0

Received(k, f) ==
  /\ f \in 1 .. k /\ k \in 1 .. Len(chan)
  /\ chan[f] \in OpMsgs /\ \A i \in 1 .. f-1 : chan[i] = Err
  /\ pup /\ sup /\ pend = None
  /\ pend' = chan[f].op
  /\ scontent' \in Seq(Puts \cup {Junk})
  /\ f = k => scontent' = Do(scontent, chan[f].op)
  /\ \E r \in {<<Err>>, << >>, <<Done(Number(f))>>} :
       back' = [back EXCEPT ![sconn] = @ \o r]
  /\ astray' = (astray \/ f < k)
  /\ unreported' \in BOOLEAN
  /\ chan' = Rest(chan, k)
  /\ UNCHANGED <<primary, socket, sup, sconn, flipped, slog, torn, number>>

LEMMA ReceiveEffect ==
  ASSUME Types, NEW k \in Upto(chan), Receive(k)
  PROVE  \E f : Received(k, f)
<1> DEFINE b == Batch(chan, k)
           f == First(b)
           op == chan[f].op
           merged == f < k
           fails == op \in Deles /\ (merged \/ scontent = << >>)
           report == IF fails \/ flipped THEN <<Err>>
                     ELSE IF op \in Deles /\ Number(f) = 0 THEN << >> ELSE <<Done(Number(f))>>
<1>1. chan \in Seq(Message) /\ scontent \in Seq(Puts \cup {Junk})
      /\ unreported \in BOOLEAN /\ astray \in BOOLEAN
  BY DEF Types, TypeOK
<1>2. k \in 1 .. Len(chan) /\ k \in 0 .. Len(chan)
  BY <1>1, UptoIs
<1>3. b \in Seq(Message) /\ Len(b) = k /\ \A i \in 1 .. k : b[i] = chan[i]
  BY <1>1, <1>2, BatchType, BatchAt
<1>4. ~OnlyErrors(b)
  BY DEF Receive
<1>5. f \in 1 .. k /\ b[f] \in OpMsgs /\ \A i \in 1 .. f-1 : b[i] = Err
  BY <1>3, <1>4, FirstIs
<1>6. /\ b[f] = chan[f] /\ b[1] = chan[1]
      /\ \A i \in 1 .. f-1 : chan[i] = Err
  BY <1>2, <1>3, <1>5
<1>7. op \in Ops
  BY <1>5, <1>6 DEF OpMsgs
<1>8. /\ pup /\ sup /\ pend = None
      /\ scontent' = IF fails THEN scontent
                     ELSE Do(scontent, op) \o (IF merged THEN <<Junk>> ELSE << >>)
      /\ pend' = op
      /\ back' = [back EXCEPT ![sconn] = @ \o report]
      /\ astray' = (astray \/ merged)
      /\ unreported' = (unreported \/ k > 1)
      /\ chan' = Rest(chan, k)
      /\ UNCHANGED <<primary, socket, sup, sconn, flipped, slog, torn, number>>
  BY <1>6 DEF Receive, Number
<1>9. Do(scontent, op) \in Seq(Puts \cup {Junk})
  BY <1>1, <1>7, DoType
<1>10. scontent' \in Seq(Puts \cup {Junk})
  <2>1. Do(scontent, op) \o (IF merged THEN <<Junk>> ELSE << >>) \in Seq(Puts \cup {Junk})
    <3>1. (IF merged THEN <<Junk>> ELSE << >>) \in Seq(Puts \cup {Junk})
      <4>1. <<Junk>> \in Seq(Puts \cup {Junk}) /\ << >> \in Seq(Puts \cup {Junk})
        OBVIOUS
      <4> QED BY <4>1
    <3> HIDE DEF op, merged
    <3> QED BY <1>9, <3>1
  <2> HIDE DEF op, merged, fails
  <2> QED BY <1>1, <1>8, <2>1
<1>11. f = k => scontent' = Do(scontent, op)
  <2> SUFFICES ASSUME f = k PROVE scontent' = Do(scontent, op)
    OBVIOUS
  <2>1. ~merged
    BY <1>2
  <2>2. CASE fails
    <3>1. scontent = << >> /\ op \notin Puts
      BY <2>1, <2>2, OpsAssumption
    <3> HIDE DEF op, merged, fails
    <3> QED BY <1>8, <2>2, <3>1 DEF Do
  <2>3. CASE ~fails
    <3>1. scontent' = Do(scontent, op) \o << >>
      <4> HIDE DEF op, merged, fails
      <4> QED BY <1>8, <2>1, <2>3
    <3> HIDE DEF op
    <3> QED BY <1>9, <3>1
  <2> QED BY <2>2, <2>3
<1>12. report \in {<<Err>>, << >>, <<Done(Number(f))>>}
  OBVIOUS
<1>13. unreported' \in BOOLEAN
  BY <1>1, <1>8
<1> HIDE DEF op, merged, fails, report, f, b
<1> QED BY <1>2, <1>5, <1>6, <1>8, <1>10, <1>11, <1>12, <1>13 DEF Received, op, merged

(***************************************************************************)
(* What reading reports does to the holdback: nothing, or the first report *)
(* is of a number and that number is taken out.                            *)
(***************************************************************************)
LEMMA ReportsEffect ==
  ASSUME Types, NEW c \in Conns, NEW k \in Upto(back[c]), ReadReports(c, k)
  PROVE  /\ \/ holdback' = holdback
            \/ \E n \in Nat : Reported(n) /\ holdback' = Keep(holdback, Others(n))
         /\ \E q \in Seq(Report) : /\ back' = [back EXCEPT ![c] = q]
                                   /\ Members(q) \subseteq Members(back[c])
                                   /\ \A i \in DOMAIN q : q[i] # Hello \/ \E j \in DOMAIN back[c] :
                                                      j # 1 /\ back[c][j] = Hello
         /\ Send(c, Err) \/ UNCHANGED <<pup, socket, chan>>
         /\ unreported' \in BOOLEAN
<1> DEFINE b == Batch(back[c], k)
<1>1. back \in [Conns -> Seq(Report)] /\ unreported \in BOOLEAN
  BY DEF Types, TypeOK
<1>2. back[c] \in Seq(Report) /\ k \in 1 .. Len(back[c]) /\ k \in 0 .. Len(back[c])
  BY <1>1, UptoIs
<1>3. b \in Seq(Report) /\ Len(b) = k /\ b[1] = back[c][1] /\ 1 \in DOMAIN back[c]
  BY <1>2, BatchType, BatchAt
<1>4. holdback' = Acknowledged(b)
  BY DEF ReadReports
<1>5. holdback' = holdback \/ \E n \in Nat : Reported(n) /\ holdback' = Keep(holdback, Others(n))
  <2>1. CASE b[1].type = "done" /\ Dones(b) = 1
    <3>1. b[1] \in [type : {"done"}, sq : Nat]
      <4>1. b[1] \in Report
        BY <1>2, <1>3
      <4> QED BY <2>1, <4>1 DEF Report, Err, Hello
    <3>2. b[1].sq \in Nat /\ b[1] = Done(b[1].sq)
      BY <3>1 DEF Done
    <3>3. Reported(b[1].sq)
      BY <1>3, <3>2 DEF Reported, Members
    <3>4. holdback' = Keep(holdback, Others(b[1].sq))
      BY <1>4, <2>1 DEF Acknowledged, Without, Others
    <3> QED BY <3>2, <3>3, <3>4
  <2>2. CASE ~(b[1].type = "done" /\ Dones(b) = 1)
    BY <1>4, <2>2 DEF Acknowledged
  <2> QED BY <2>1, <2>2
<1>6. Send(c, Err) \/ UNCHANGED <<pup, socket, chan>>
  BY DEF ReadReports
<1>7. unreported' \in BOOLEAN
  BY <1>1 DEF ReadReports
<1> DEFINE q == IF c = secondary THEN Rest(back[c], k) ELSE << >>
<1>8. back' = [back EXCEPT ![c] = q]
  BY <1>1 DEF ReadReports
<1>9. q \in Seq(Report) /\ Members(q) \subseteq Members(back[c])
  <2>1. Rest(back[c], k) \in Seq(Report) /\ Members(Rest(back[c], k)) \subseteq Members(back[c])
    BY <1>2, RestType, RestMembers
  <2>2. << >> \in Seq(Report) /\ Members(<< >>) = {}
    BY DEF Members
  <2> QED BY <2>1, <2>2
<1>10. ASSUME NEW i \in DOMAIN q, q[i] = Hello
       PROVE  \E j \in DOMAIN back[c] : j # 1 /\ back[c][j] = Hello
  <2>1. c = secondary /\ q = Rest(back[c], k)
    BY <1>10
  <2>2. i \in 1 .. Len(back[c]) - k
    BY <1>2, <2>1, RestType
  <2>3. q[i] = back[c][k+i]
    BY <1>2, <2>1, <2>2, RestAt
  <2>4. k+i \in DOMAIN back[c] /\ k+i # 1
    BY <1>2, <2>2
  <2> QED BY <1>10, <2>3, <2>4
<1> HIDE DEF q
<1> QED BY <1>5, <1>6, <1>7, <1>8, <1>9, <1>10

-----------------------------------------------------------------------------
(***************************************************************************)
(* The types hold of every step.                                           *)
(***************************************************************************)
LEMMA InitTypes == Init => Types
<1> SUFFICES ASSUME Init PROVE Types
  OBVIOUS
<1>1. << >> \in Seq(Held) /\ << >> \in Seq(Puts) /\ << >> \in Seq(Puts \cup {Junk})
      /\ << >> \in Seq(Ops) /\ << >> \in Seq(Message) /\ << >> \in Seq(Report)
  OBVIOUS
<1> QED BY <1>1 DEF Init, Types, TypeOK, WorkerInv, Idle, Stages

LEMMA NextCases ==
  ASSUME [Next]_vars,
         NEW P,
         \A w \in Workers, op \in Ops : Serve(w, op) => P,
         \A w \in Workers : ReadSeq(w) => P,
         \A w \in Workers : StoreSeq(w) => P,
         \A w \in Workers : Hold(w) => P,
         \A w \in Workers : SendOut(w) => P,
         \A c \in Conns : Greet(c) => P,
         \A c \in Conns : Resend(c) => P,
         \A c \in Conns : \A k \in Upto(back[c]) : ReadReports(c, k) => P,
         Start => P,
         pup /\ sup /\ Die => P,
         \A k \in Upto(chan) : Receive(k) => P,
         Log => P,
         Flip => P,
         UNCHANGED vars => P
  PROVE  P
BY DEF Next, Worker, Listener, Secondary, Crash, Abort

\* A step of a worker that moves only its own stage.
LEMMA StageTypes ==
  ASSUME Types, NEW w \in Workers, NEW r,
         r \in [at : Stages, op : Ops \cup {None}, sq : Nat],
         r.at = "idle" => r.op = None,
         r.at # "idle" => r.op \in Ops,
         r.at \in {"store", "hold", "send"} => r.sq # 0,
         pw' = [pw EXCEPT ![w] = r]
  PROVE  /\ pw' \in [Workers -> [at : Stages, op : Ops \cup {None}, sq : Nat]]
         /\ WorkerInv'
BY DEF Types, TypeOK, WorkerInv

LEMMA ServeTypes ==
  ASSUME Types, NEW w \in Workers, NEW op \in Ops, Serve(w, op)
  PROVE  Types'
<1> DEFINE r == [at |-> "read", op |-> op, sq |-> 0]
<1>1. r \in [at : Stages, op : Ops \cup {None}, sq : Nat] /\ r.op \in Ops /\ r.at = "read"
  BY DEF Stages
<1>2. pw' = [pw EXCEPT ![w] = r]
  BY DEF Serve
<1> HIDE DEF r
<1>3. pw' \in [Workers -> [at : Stages, op : Ops \cup {None}, sq : Nat]] /\ WorkerInv'
  BY <1>1, <1>2, StageTypes
<1>4. content' \in Seq(Puts)
  BY DoType DEF Types, TypeOK, Serve
<1> QED BY <1>3, <1>4 DEF Types, TypeOK, Serve, net, second

LEMMA PwRecord ==
  ASSUME Types, NEW w \in Workers
  PROVE  /\ pw[w] \in [at : Stages, op : Ops \cup {None}, sq : Nat]
         /\ pw[w] = [at |-> pw[w].at, op |-> pw[w].op, sq |-> pw[w].sq]
         /\ pw[w].at # "idle" => pw[w].op \in Ops
         /\ pw[w].at = "idle" => pw[w].op = None
         /\ pw[w].at \in {"store", "hold", "send"} => pw[w].sq \in Nat \ {0}
         /\ pw[w].sq \in Nat
BY DEF Types, TypeOK, WorkerInv

Moved(w, stage, n) == pw' = [pw EXCEPT ![w] = [at |-> stage, op |-> pw[w].op, sq |-> n]]

LEMMA WorkerMoves ==
  ASSUME Types, NEW w \in Workers
  PROVE  /\ ReadSeq(w) => Moved(w, "store", seqnum + 1)
         /\ StoreSeq(w) => Moved(w, "hold", pw[w].sq)
         /\ Hold(w) => Moved(w, "send", pw[w].sq)
<1> DEFINE T == [at : Stages, op : Ops \cup {None}, sq : Nat]
<1>1. pw \in [Workers -> T] /\ pw[w] \in T
  BY DEF Types, TypeOK
<1>2. ASSUME NEW stage
      PROVE  [pw[w] EXCEPT !.at = stage] = [at |-> stage, op |-> pw[w].op, sq |-> pw[w].sq]
  BY <1>1
<1>3. ASSUME NEW stage, pw' = [pw EXCEPT ![w].at = stage]
      PROVE  Moved(w, stage, pw[w].sq)
  <2>1. pw' = [pw EXCEPT ![w] = [pw[w] EXCEPT !.at = stage]]
    BY <1>1, <1>3
  <2> QED BY <1>2, <2>1 DEF Moved
<1>4. ASSUME pw' = [pw EXCEPT ![w].at = "store", ![w].sq = seqnum + 1]
      PROVE  Moved(w, "store", seqnum + 1)
  <2> DEFINE v == [at |-> "store", op |-> pw[w].op, sq |-> pw[w].sq]
             n == seqnum + 1
             q == [pw EXCEPT ![w] = v]
  <2>1. [pw EXCEPT ![w].at = "store"] = q
    BY <1>1, <1>2
  <2>2. q[w] = v /\ [v EXCEPT !.sq = n] = [at |-> "store", op |-> pw[w].op, sq |-> n]
    BY <1>1
  <2>3. \A y : [q EXCEPT ![w] = y] = [pw EXCEPT ![w] = y]
    BY <1>1
  <2>4. pw' = [q EXCEPT ![w] = [q[w] EXCEPT !.sq = n]]
    <3> HIDE DEF q, v, n
    <3>1. pw' = [[pw EXCEPT ![w].at = "store"] EXCEPT ![w].sq = n]
      BY <1>4 DEF n
    <3> QED BY <2>1, <3>1
  <2> HIDE DEF q, v, n
  <2> QED BY <2>2, <2>3, <2>4 DEF Moved, n
<1> QED BY <1>3, <1>4 DEF ReadSeq, StoreSeq, Hold

LEMMA ReadSeqTypes ==
  ASSUME Types, NEW w \in Workers, ReadSeq(w)
  PROVE  Types'
<1> DEFINE r == [at |-> "store", op |-> pw[w].op, sq |-> seqnum + 1]
<1>1. seqnum \in Nat /\ seqnum + 1 \in Nat
  BY DEF Types, TypeOK
<1>2. pw[w].op \in Ops
  BY PwRecord DEF ReadSeq
<1>3. /\ r \in [at : Stages, op : Ops \cup {None}, sq : Nat]
      /\ r.op \in Ops /\ r.at = "store" /\ r.sq # 0
  BY <1>1, <1>2 DEF Stages
<1>4. pw' = [pw EXCEPT ![w] = r]
  BY WorkerMoves DEF Moved
<1> HIDE DEF r
<1>5. pw' \in [Workers -> [at : Stages, op : Ops \cup {None}, sq : Nat]] /\ WorkerInv'
  BY <1>3, <1>4, StageTypes
<1>6. number' \in [Ops -> Nat]
  BY <1>1 DEF Types, TypeOK, ReadSeq
<1> QED BY <1>5, <1>6 DEF Types, TypeOK, ReadSeq, net, second

LEMMA StoreSeqTypes ==
  ASSUME Types, NEW w \in Workers, StoreSeq(w)
  PROVE  Types'
<1> DEFINE r == [at |-> "hold", op |-> pw[w].op, sq |-> pw[w].sq]
<1>1. pw[w].op \in Ops /\ pw[w].sq \in Nat /\ pw[w].sq # 0
  BY PwRecord DEF StoreSeq
<1>2. /\ r \in [at : Stages, op : Ops \cup {None}, sq : Nat]
      /\ r.op \in Ops /\ r.at = "hold" /\ r.sq # 0
  BY <1>1 DEF Stages
<1>3. pw' = [pw EXCEPT ![w] = r]
  BY WorkerMoves DEF Moved
<1> HIDE DEF r
<1>4. pw' \in [Workers -> [at : Stages, op : Ops \cup {None}, sq : Nat]] /\ WorkerInv'
  BY <1>2, <1>3, StageTypes
<1> QED BY <1>1, <1>4 DEF Types, TypeOK, StoreSeq, net, second, history

LEMMA HoldTypes ==
  ASSUME Types, NEW w \in Workers, Hold(w)
  PROVE  Types'
<1> DEFINE r == [at |-> "send", op |-> pw[w].op, sq |-> pw[w].sq]
<1>1. pw[w].op \in Ops /\ pw[w].sq \in Nat /\ pw[w].sq # 0
  BY PwRecord DEF Hold
<1>2. /\ r \in [at : Stages, op : Ops \cup {None}, sq : Nat]
      /\ r.op \in Ops /\ r.at = "send" /\ r.sq # 0
  BY <1>1 DEF Stages
<1>3. pw' = [pw EXCEPT ![w] = r]
  BY WorkerMoves DEF Moved
<1> HIDE DEF r
<1>4. pw' \in [Workers -> [at : Stages, op : Ops \cup {None}, sq : Nat]] /\ WorkerInv'
  BY <1>2, <1>3, StageTypes
<1>5. [sq |-> pw[w].sq, op |-> pw[w].op] \in Held
  BY <1>1 DEF Held
<1>6. holdback' \in Seq(Held)
  BY <1>5 DEF Types, TypeOK, Hold
<1> QED BY <1>4, <1>6 DEF Types, TypeOK, Hold, net, second, history

LEMMA SendOutTypes ==
  ASSUME Types, NEW w \in Workers, SendOut(w)
  PROVE  Types'
<1>1. Idle \in [at : Stages, op : Ops \cup {None}, sq : Nat]
      /\ Idle.op = None /\ Idle.at = "idle"
  BY DEF Idle, Stages
<1>2. pw' = [pw EXCEPT ![w] = Idle]
  BY DEF SendOut
<1>3. pw' \in [Workers -> [at : Stages, op : Ops \cup {None}, sq : Nat]] /\ WorkerInv'
  BY <1>1, <1>2, StageTypes
<1>4. Msg(pw[w]) \in Message
  <2>1. pw[w].op \in Ops /\ pw[w].sq \in Nat \ {0}
    BY PwRecord DEF SendOut
  <2> QED BY <2>1, MsgTypes
<1>5. chan' \in Seq(Message) /\ socket' \in [Conns -> SocketStates] /\ pup' \in BOOLEAN
  <2>1. secondary \in Conns \cup {0} /\ Send(secondary, Msg(pw[w]))
    BY DEF SendOut, Types, TypeOK
  <2> QED BY <1>4, <2>1, SendEffect
<1>6. astray' \in BOOLEAN
  BY DEF SendOut, Types, TypeOK, Resending
<1> QED BY <1>3, <1>5, <1>6 DEF Types, TypeOK, SendOut, second, SocketStates

LEMMA HeadTail ==
  ASSUME NEW X, NEW s \in Seq(X), s # << >>
  PROVE  /\ Head(s) \in X /\ Head(s) = s[1] /\ 1 \in DOMAIN s
         /\ Tail(s) \in Seq(X) /\ Len(Tail(s)) = Len(s) - 1
         /\ \A i \in 1 .. Len(s) - 1 : Tail(s)[i] = s[i+1]
OBVIOUS

LEMMA GreetTypes ==
  ASSUME Types, NEW c \in Conns, Greet(c)
  PROVE  Types'
<1>1. back[c] \in Seq(Report) /\ back[c] # << >>
  BY DEF Types, TypeOK, Greet
<1>2. Tail(back[c]) \in Seq(Report)
  BY <1>1, HeadTail
<1>3. back' \in [Conns -> Seq(Report)]
  BY <1>2 DEF Types, TypeOK, Greet
<1>4. resend' \in [Conns -> Seq(Held)]
  BY DEF Types, TypeOK, Greet
<1>5. astray' \in BOOLEAN
  BY DEF Types, TypeOK, Greet, GoesAstray
<1> QED BY <1>3, <1>4, <1>5 DEF Types, TypeOK, WorkerInv, Greet, second

LEMMA ResendTypes ==
  ASSUME Types, NEW c \in Conns, Resend(c)
  PROVE  Types'
<1>1. resend[c] \in Seq(Held) /\ resend[c] # << >>
  BY DEF Types, TypeOK, Resend
<1>2. Tail(resend[c]) \in Seq(Held) /\ Head(resend[c]) \in Held
  BY <1>1, HeadTail
<1>3. resend' \in [Conns -> Seq(Held)]
  BY <1>2 DEF Types, TypeOK, Resend
<1>4. Msg(Head(resend[c])) \in Message
  <2>1. Head(resend[c]).sq \in Nat \ {0} /\ Head(resend[c]).op \in Ops
    BY <1>2 DEF Held
  <2> QED BY <2>1, MsgTypes
<1>5. chan' \in Seq(Message) /\ socket' \in [Conns -> SocketStates] /\ pup' \in BOOLEAN
  <2>1. secondary \in Conns \cup {0} /\ Send(secondary, Msg(Head(resend[c])))
    BY DEF Resend, Types, TypeOK
  <2> QED BY <1>4, <2>1, SendEffect
<1> QED BY <1>3, <1>5 DEF Types, TypeOK, WorkerInv, Resend, second, history, SocketStates

LEMMA ReadReportsTypes ==
  ASSUME Types, NEW c \in Conns, NEW k \in Upto(back[c]), ReadReports(c, k)
  PROVE  Types'
<1>1. holdback' \in Seq(Held)
  <2>1. holdback \in Seq(Held)
    BY DEF Types, TypeOK
  <2>2. \A n \in Nat : Keep(holdback, Others(n)) \in Seq(Held)
    BY <2>1, KeepConcat
  <2>3. \/ holdback' = holdback
        \/ \E n \in Nat : Reported(n) /\ holdback' = Keep(holdback, Others(n))
    BY ReportsEffect
  <2> QED BY <2>1, <2>2, <2>3
<1>2. back' \in [Conns -> Seq(Report)]
  <2>1. PICK q \in Seq(Report) : back' = [back EXCEPT ![c] = q]
    BY ReportsEffect
  <2> QED BY <2>1 DEF Types, TypeOK
<1>3. chan' \in Seq(Message) /\ socket' \in [Conns -> SocketStates] /\ pup' \in BOOLEAN
  <2>1. Send(c, Err) \/ UNCHANGED <<pup, socket, chan>>
    BY ReportsEffect
  <2>2. CASE Send(c, Err)
    BY <2>2, MsgTypes, SendEffect
  <2>3. CASE UNCHANGED <<pup, socket, chan>>
    BY <2>3 DEF Types, TypeOK, SocketStates
  <2> QED BY <2>1, <2>2, <2>3
<1>4. unreported' \in BOOLEAN
  BY ReportsEffect
<1> QED BY <1>1, <1>2, <1>3, <1>4 DEF Types, TypeOK, WorkerInv, ReadReports, second, SocketStates

LEMMA StartTypes ==
  ASSUME Types, Start
  PROVE  Types'
<1>1. sconn + 1 \in Conns
  BY BoundsAssumption DEF Start, Types, TypeOK, Conns
<1>2. scontent' \in Seq(Puts \cup {Junk})
  <2>1. << >> \in Seq(Puts \cup {Junk}) /\ slog \in Seq(Ops)
    BY DEF Types, TypeOK
  <2> QED BY <2>1, DoAllType DEF Start
<1>3. back' \in [Conns -> Seq(Report)]
  <2>1. <<Hello>> \in Seq(Report)
    BY MsgTypes
  <2> QED BY <1>1, <2>1 DEF Start, Types, TypeOK
<1>4. socket' \in [Conns -> SocketStates]
  BY <1>1 DEF Start, Types, TypeOK, SocketStates
<1> QED BY <1>1, <1>2, <1>3, <1>4 DEF Types, TypeOK, WorkerInv, Start, primary, history,
         SocketStates

LEMMA DieTypes ==
  ASSUME Types, pup /\ sup /\ Die
  PROVE  Types'
<1>1. back' \in [Conns -> Seq(Report)]
  <2>1. PICK k \in 0 .. Len(back[sconn]) : back' = [back EXCEPT ![sconn] = Batch(back[sconn], k)]
    BY DEF Die
  <2>2. CASE sconn \in Conns
    <3>1. back[sconn] \in Seq(Report)
      BY <2>2 DEF Types, TypeOK
    <3>2. Batch(back[sconn], k) \in Seq(Report)
      BY <3>1, BatchType
    <3> QED BY <2>1, <3>2 DEF Types, TypeOK
  <2>3. CASE sconn \notin Conns
    BY <2>1, <2>3 DEF Types, TypeOK
  <2> QED BY <2>2, <2>3
<1>2. socket' \in [Conns -> SocketStates]
  <2>1. PICK s \in {"closed", "reset"} : socket' = [socket EXCEPT ![sconn] = s]
    BY DEF Die
  <2> QED BY <2>1 DEF Types, TypeOK, SocketStates
<1>3. torn' \subseteq Ops /\ astray' \in BOOLEAN
  BY DEF Types, TypeOK, Die
<1>4. chan' \in Seq(Message) /\ scontent' \in Seq(Puts \cup {Junk})
  BY DEF Die
<1> QED BY <1>1, <1>2, <1>3, <1>4 DEF Types, TypeOK, WorkerInv, Die, primary, SocketStates

LEMMA ReceiveTypes ==
  ASSUME Types, NEW k \in Upto(chan), Receive(k)
  PROVE  Types'
<1>1. PICK f : Received(k, f)
  BY ReceiveEffect
<1>2. chan' \in Seq(Message)
  <2>1. chan \in Seq(Message) /\ k \in 0 .. Len(chan) /\ chan' = Rest(chan, k)
    BY <1>1 DEF Received, Types, TypeOK
  <2> QED BY <2>1, RestType
<1>3. pend' \in Ops
  <2>1. chan[f] \in OpMsgs /\ pend' = chan[f].op
    BY <1>1 DEF Received
  <2> QED BY <2>1 DEF OpMsgs
<1>4. back' \in [Conns -> Seq(Report)]
  <2>1. PICK r \in {<<Err>>, << >>, <<Done(Number(f))>>} : back' = [back EXCEPT ![sconn] = @ \o r]
    BY <1>1 DEF Received
  <2>2. Number(f) \in Nat
    <3>1. f = 1 => chan[1] \in OpMsgs
      BY <1>1 DEF Received
    <3> QED BY <3>1 DEF OpMsgs, Number
  <2>3. r \in Seq(Report)
    <3>1. <<Err>> \in Seq(Report) /\ << >> \in Seq(Report) /\ <<Done(Number(f))>> \in Seq(Report)
      BY <2>2, MsgTypes
    <3> QED BY <3>1
  <2>4. \A c \in Conns : back[c] \o r \in Seq(Report)
    BY <2>3 DEF Types, TypeOK
  <2> QED BY <2>1, <2>4 DEF Types, TypeOK
<1>5. /\ scontent' \in Seq(Puts \cup {Junk}) /\ unreported' \in BOOLEAN
      /\ astray' = (astray \/ f < k)
      /\ UNCHANGED <<primary, socket, sup, sconn, flipped, slog, torn, number>>
  BY <1>1 DEF Received
<1>6. astray' \in BOOLEAN
  BY <1>5 DEF Types, TypeOK
<1> QED BY <1>2, <1>3, <1>4, <1>5, <1>6 DEF Types, TypeOK, WorkerInv, primary

LEMMA LogTypes ==
  ASSUME Types, Log
  PROVE  Types'
<1>1. slog' \in Seq(Ops)
  BY DEF Types, TypeOK, Log
<1> QED BY <1>1 DEF Types, TypeOK, WorkerInv, Log, primary, net, history

LEMMA FlipTypes ==
  ASSUME Types, Flip
  PROVE  Types'
BY DEF Types, TypeOK, WorkerInv, Flip, primary, net, history

LEMMA SameTypes ==
  ASSUME Types, UNCHANGED vars
  PROVE  Types'
BY DEF Types, TypeOK, WorkerInv, vars, primary, net, second, history

LEMMA NextTypes == Types /\ [Next]_vars => Types'
<1> SUFFICES ASSUME Types, [Next]_vars PROVE Types'
  OBVIOUS
<1> DEFINE P == Types'
<1>1. \A w \in Workers, op \in Ops : Serve(w, op) => P
  BY ServeTypes
<1>2. \A w \in Workers : ReadSeq(w) => P
  BY ReadSeqTypes
<1>3. \A w \in Workers : StoreSeq(w) => P
  BY StoreSeqTypes
<1>4. \A w \in Workers : Hold(w) => P
  BY HoldTypes
<1>5. \A w \in Workers : SendOut(w) => P
  BY SendOutTypes
<1>6. \A c \in Conns : Greet(c) => P
  BY GreetTypes
<1>7. \A c \in Conns : Resend(c) => P
  BY ResendTypes
<1>8. \A c \in Conns : \A k \in Upto(back[c]) : ReadReports(c, k) => P
  BY ReadReportsTypes
<1>9. Start => P
  BY StartTypes
<1>10. pup /\ sup /\ Die => P
  BY DieTypes
<1>11. \A k \in Upto(chan) : Receive(k) => P
  BY ReceiveTypes
<1>12. Log => P
  BY LogTypes
<1>13. Flip => P
  BY FlipTypes
<1>14. UNCHANGED vars => P
  BY SameTypes
<1> HIDE DEF P
<1>15. P
  BY <1>1, <1>2, <1>3, <1>4, <1>5, <1>6, <1>7, <1>8, <1>9, <1>10, <1>11, <1>12, <1>13, <1>14,
     NextCases
<1> QED BY <1>15 DEF P

(***************************************************************************)
(* The state of the two nodes, of the sockets and of the messages keeps    *)
(* its types, for any workers, requests and bounds: every entry of the     *)
(* holdback and every request sent has a number of its own and is a        *)
(* request of a client (send_to_secondary).                                *)
(***************************************************************************)
THEOREM ReplicationTypes == Spec => []TypeOK
<1>1. Spec => []Types
  BY InitTypes, NextTypes, PTL DEF Spec
<1>2. Types => TypeOK
  BY DEF Types
<1> QED BY <1>1, <1>2, PTL

-----------------------------------------------------------------------------
(***************************************************************************)
(* Nothing is lost.                                                        *)
(***************************************************************************)
LEMMA NumberedType ==
  ASSUME Types, NEW r \in Numbered
  PROVE  r.op \in Ops /\ r.sq \in Nat \ {0}
<1>1. CASE r \in InHoldback
  <2>1. holdback \in Seq(Held)
    BY DEF Types, TypeOK
  <2>2. r \in Held
    BY <1>1, <2>1 DEF InHoldback, Members
  <2> QED BY <2>2 DEF Held
<1>2. CASE r \in InResend
  <2>1. PICK c \in Conns : r \in Members(resend[c])
    BY <1>2 DEF InResend
  <2>2. resend[c] \in Seq(Held)
    BY DEF Types, TypeOK
  <2>3. r \in Held
    BY <2>1, <2>2 DEF Members
  <2> QED BY <2>3 DEF Held
<1>3. CASE r \in InChan
  <2>1. PICK m \in OpMsgs : r = AsHeld(m)
    BY <1>3 DEF InChan, OpsIn
  <2> QED BY <2>1 DEF OpMsgs, AsHeld
<1>4. CASE r \in InWork
  <2>1. PICK w \in Workers : pw[w].at \in {"store", "hold", "send"} /\ r = AsHeld(pw[w])
    BY <1>4 DEF InWork, InStages
  <2>2. pw[w].op \in Ops /\ pw[w].sq \in Nat \ {0}
    BY <2>1, PwRecord
  <2> QED BY <2>1, <2>2 DEF AsHeld
<1> QED BY <1>1, <1>2, <1>3, <1>4 DEF Numbered

Counts(n) == \E op \in Ops : number[op] = n /\ Ran(op)

\* A step that numbers no request, and reports only what has run.
LEMMA NumbersKept ==
  ASSUME Types, NumbersInv, Numbered' \subseteq Numbered, number' = number,
         \A op \in Ops : op \in todo' \/ Reading(op)' <=> op \in todo \/ Reading(op),
         \A w \in Workers : pw'[w].at = "read" => pw'[w].op \notin todo',
         \A v, w \in Workers : pw'[v].at = "read" /\ pw'[w].at = "read"
                               /\ pw'[v].op = pw'[w].op => v = w,
         \A op \in Ops : Ran(op) => Ran(op)',
         \A n \in Nat \ {0} : Reported(n)' => Reported(n) \/ Counts(n)'
  PROVE  NumbersInv'
<1>1. (\A op \in Ops : number[op] = 0 <=> op \in todo \/ Reading(op))'
  BY DEF NumbersInv
<1>2. (\A w \in InStages({"read"}) : pw[w].op \notin todo)'
  BY DEF InStages
<1>3. (\A v, w \in InStages({"read"}) : pw[v].op = pw[w].op => v = w)'
  BY DEF InStages
<1>4. (\A r \in Numbered : r.sq = number[r.op])'
  BY DEF NumbersInv
<1>5. ASSUME NEW n \in Nat \ {0}, Reported(n)' PROVE Counts(n)'
  <2>1. CASE Reported(n)
    <3>1. PICK op \in Ops : number[op] = n /\ Ran(op)
      BY <2>1 DEF NumbersInv
    <3>2. Ran(op)'
      BY <3>1
    <3> QED BY <3>1, <3>2 DEF Counts
  <2> QED BY <1>5, <2>1
<1> QED BY <1>1, <1>2, <1>3, <1>4, <1>5 DEF NumbersInv, Counts

\* What the secondary has run stays run.
LEMMA RanKept ==
  ASSUME Types, NEW op \in Ops, Ran(op),
         \/ UNCHANGED <<pend, slog, torn>>
         \/ pend = None /\ UNCHANGED <<slog, torn>>
         \/ pend # None /\ slog' = Append(slog, pend) /\ UNCHANGED torn
         \/ pend # None /\ slog' = slog /\ torn' = torn \cup {pend}
  PROVE  Ran(op)'
<1>1. slog \in Seq(Ops) /\ op # None
  BY OpsAssumption DEF Types, TypeOK
<1>2. CASE \E i \in DOMAIN slog : slog[i] = op
  <2>1. PICK i \in DOMAIN slog : slog[i] = op
    BY <1>2
  <2>2. slog' = slog \/ slog' = Append(slog, pend)
    OBVIOUS
  <2>3. i \in DOMAIN slog' /\ slog'[i] = op
    BY <1>1, <2>1, <2>2
  <2> QED BY <2>3 DEF Ran, HasRun
<1>3. CASE op = pend
  <2>1. pend # None
    BY <1>1, <1>3
  <2>2. CASE slog' = Append(slog, pend)
    <3>1. Len(slog) + 1 \in DOMAIN slog' /\ slog'[Len(slog) + 1] = op
      BY <1>1, <1>3, <2>2
    <3> QED BY <3>1 DEF Ran, HasRun
  <2>3. CASE torn' = torn \cup {pend}
    BY <1>3, <2>3 DEF Ran
  <2>4. CASE pend' = pend
    BY <1>3, <2>4 DEF Ran, HasRun
  <2> QED BY <2>1, <2>2, <2>3, <2>4
<1>4. CASE op \in torn
  BY <1>4 DEF Ran
<1> QED BY <1>2, <1>3, <1>4 DEF Ran, HasRun

\* Numbered requests stay safe, and a worker lets go of its request when it is.
LEMMA LostKept ==
  ASSUME Types, Types', NumbersInv, SentInv, NothingLost, pup, pup',
         \A op \in Ops : number[op] # 0 /\ Secure(op) => Secure(op)',
         \A w \in Workers : pw'[w].at = "send" =>
             /\ pw[w].op = pw'[w].op
             /\ (pw[w].at = "send" \/ \A op \in Ops : op = pw[w].op => Secure(op)'),
         \A w \in Workers : pw'[w].op # pw[w].op /\ pw[w].op # None => pw[w].at = "send",
         \A op \in todo : op \in todo' \/ AtWork(op)'
  PROVE  SentInv' /\ NothingLost'
<1>0. ASSUME NEW w \in Workers, NEW op \in Ops, op = pw[w].op, pw[w].at = "send"
      PROVE  Secure(op)'
  <2>1. Secure(op)
    BY <1>0 DEF SentInv, InStages
  <2>2. AsHeld(pw[w]) \in Numbered
    BY <1>0 DEF Numbered, InWork, InStages
  <2>3. AsHeld(pw[w]).sq # 0 /\ AsHeld(pw[w]).op = op
    BY <1>0, <2>2, NumberedType DEF AsHeld
  <2>4. number[op] # 0
    BY <2>2, <2>3 DEF NumbersInv
  <2> QED BY <2>1, <2>4
<1>1. SentInv'
  <2> SUFFICES ASSUME NEW w \in Workers, pw'[w].at = "send" PROVE (Secure(pw[w].op))'
    BY DEF SentInv, InStages
  <2>1. PICK op \in Ops : op = pw'[w].op
    BY DEF Types, WorkerInv
  <2>2. Secure(op)'
    BY <1>0, <2>1
  <2> QED BY <2>1, <2>2 DEF Secure, Shared, Safe, IsHeld, Ran, HasRun
<1>2. NothingLost'
  <2> SUFFICES ASSUME NEW op \in Ops, op \notin todo'
               PROVE  AtWork(op)' \/ Secure(op)'
    BY DEF NothingLost, Secure, Safe, Ran
  <2>1. CASE op \in todo
    BY <2>1
  <2>2. CASE op \notin todo /\ AtWork(op)
    <3>1. PICK w \in Workers : pw[w].op = op
      BY <2>2 DEF AtWork
    <3>2. CASE pw'[w].op = op
      BY <3>2 DEF AtWork
    <3>3. CASE pw'[w].op # op
      <4>1. op # None
        BY OpsAssumption
      <4>2. pw[w].at = "send"
        BY <3>1, <3>3, <4>1
      <4> QED BY <1>0, <3>1, <4>2
    <3> QED BY <3>2, <3>3
  <2>3. CASE op \notin todo /\ ~AtWork(op)
    <3>1. Secure(op)
      BY <2>3 DEF NothingLost, Secure, Safe, Ran
    <3>2. ~Reading(op)
      BY <2>3 DEF AtWork, Reading, InStages
    <3>3. number[op] # 0
      BY <2>3, <3>2 DEF NumbersInv
    <3> QED BY <3>1, <3>3
  <2> QED BY <2>1, <2>2, <2>3
<1> QED BY <1>1, <1>2

Lossless == NumbersInv /\ SentInv /\ NothingLost

\* Whatever the step leaves alone keeps its part of Numbered, and its reports.
LEMMA SameParts ==
  /\ holdback' = holdback => InHoldback' = InHoldback /\ \A op : IsHeld(op)' <=> IsHeld(op)
  /\ resend' = resend => InResend' = InResend
  /\ chan' = chan => InChan' = InChan
  /\ pw' = pw => InWork' = InWork
  /\ back' = back => \A n : Reported(n)' <=> Reported(n)
BY DEF InHoldback, InResend, InChan, OpsIn, InWork, InStages, Reported, Members, IsHeld

LEMMA SafeIfSame ==
  ASSUME Types, UNCHANGED <<holdback, pend, slog, torn>>
  PROVE  \A op \in Ops : (Ran(op) => Ran(op)') /\ (Safe(op) => Safe(op)')
BY DEF Safe, Ran, HasRun, IsHeld

LEMMA SecureIfSafe ==
  ASSUME number' = number, \A op \in Ops : Safe(op) => Safe(op)'
  PROVE  \A op \in Ops : Secure(op) => Secure(op)'
BY DEF Secure, Shared

LEMMA ReadingSame ==
  ASSUME Types, NumbersInv, todo' = todo,
         \A w \in Workers : pw[w].at = "read" \/ pw'[w].at = "read" => pw'[w] = pw[w]
  PROVE  /\ \A op \in Ops : op \in todo' \/ Reading(op)' <=> op \in todo \/ Reading(op)
         /\ \A w \in Workers : pw'[w].at = "read" => pw'[w].op \notin todo'
         /\ \A v, w \in Workers : pw'[v].at = "read" /\ pw'[w].at = "read"
                                  /\ pw'[v].op = pw'[w].op => v = w
<1>1. \A op \in Ops : Reading(op)' <=> Reading(op)
  BY DEF Reading, InStages
<1>2. \A w \in Workers : pw'[w].at = "read" => pw[w].at = "read" /\ pw'[w] = pw[w]
  BY Zenon
<1>3. \A w \in Workers : pw'[w].at = "read" => pw'[w].op \notin todo'
  BY <1>2 DEF NumbersInv, InStages
<1>4. \A v, w \in Workers : pw'[v].at = "read" /\ pw'[w].at = "read"
                            /\ pw'[v].op = pw'[w].op => v = w
  BY <1>2 DEF NumbersInv, InStages
<1> QED BY <1>1, <1>3, <1>4

LEMMA ServeLost ==
  ASSUME Types, Types', Lossless, pup, pup', NEW w \in Workers, NEW op \in Ops, Serve(w, op)
  PROVE  Lossless'
<1>1. /\ pw[w].at = "idle" /\ op \in todo /\ todo' = todo \ {op}
      /\ pw' = [pw EXCEPT ![w] = [at |-> "read", op |-> op, sq |-> 0]]
      /\ UNCHANGED <<holdback, resend, chan, back, pend, slog, torn, number>>
  BY DEF Serve, net, second
<1>2. \A v \in Workers : v # w => pw'[v] = pw[v]
  BY <1>1 DEF Types, TypeOK
<1>3. pw'[w] = [at |-> "read", op |-> op, sq |-> 0]
  BY <1>1 DEF Types, TypeOK
<1>4. InWork' = InWork
  BY <1>1, <1>2, <1>3 DEF InWork, InStages
<1>5. Numbered' = Numbered
  BY <1>1, <1>4, SameParts DEF Numbered
<1>6. NumbersInv'
  <2>1. \A o : Reading(o)' <=> Reading(o) \/ o = op
    BY <1>1, <1>2, <1>3 DEF Reading, InStages
  <2>2. \A o \in Ops : o \in todo' \/ Reading(o)' <=> o \in todo \/ Reading(o)
    BY <1>1, <2>1
  <2>3. \A v \in Workers : pw[v].at = "read" => pw[v].op \notin todo
    BY DEF Lossless, NumbersInv, InStages
  <2>4. \A v \in Workers : pw'[v].at = "read" => pw'[v].op \notin todo'
    BY <1>1, <1>2, <1>3, <2>3
  <2>5. \A u, v \in Workers : pw'[u].at = "read" /\ pw'[v].at = "read"
                              /\ pw'[u].op = pw'[v].op => u = v
    <3>1. \A u, v \in Workers : pw[u].at = "read" /\ pw[v].at = "read"
                              /\ pw[u].op = pw[v].op => u = v
      BY DEF Lossless, NumbersInv, InStages
    <3> QED BY <1>1, <1>2, <1>3, <2>3, <3>1
  <2> QED BY <1>1, <1>5, <2>2, <2>4, <2>5, NumbersKept, SafeIfSame, SameParts DEF Lossless
<1>7. SentInv' /\ NothingLost'
  <2>1. \A v \in Workers : pw'[v].at = "send" => pw[v].at = "send" /\ pw[v].op = pw'[v].op
    BY <1>2, <1>3
  <2>2. \A v \in Workers : pw'[v].op # pw[v].op /\ pw[v].op # None => pw[v].at = "send"
    BY <1>1, <1>2, PwRecord
  <2>3. \A o \in todo : o \in todo' \/ AtWork(o)'
    BY <1>1, <1>3 DEF AtWork
  <2>4. \A o \in Ops : Secure(o) => Secure(o)'
    BY <1>1, SafeIfSame, SecureIfSafe
  <2> QED BY <2>1, <2>2, <2>3, <2>4, LostKept DEF Lossless
<1> QED BY <1>6, <1>7 DEF Lossless

\* A worker that moves on with its request.
LEMMA MovedFacts ==
  ASSUME Types, NEW w \in Workers, NEW stage, NEW n, Moved(w, stage, n)
  PROVE  /\ pw'[w] = [at |-> stage, op |-> pw[w].op, sq |-> n]
         /\ pw'[w].at = stage /\ pw'[w].op = pw[w].op /\ pw'[w].sq = n
         /\ \A v \in Workers : v # w => pw'[v] = pw[v]
BY DEF Moved, Types, TypeOK

LEMMA ReadSeqLost ==
  ASSUME Types, Types', Lossless, pup, pup', NEW w \in Workers, ReadSeq(w)
  PROVE  Lossless'
<1> DEFINE op == pw[w].op
           new == [sq |-> seqnum + 1, op |-> op]
<1>1. /\ pw[w].at = "read" /\ Moved(w, "store", seqnum + 1)
      /\ number' = [number EXCEPT ![op] = seqnum + 1]
      /\ UNCHANGED <<todo, holdback, resend, chan, back, pend, slog, torn>>
  BY WorkerMoves DEF ReadSeq, net, second
<1>2. /\ pw'[w].at = "store" /\ pw'[w].op = op /\ pw'[w].sq = seqnum + 1
      /\ \A v \in Workers : v # w => pw'[v] = pw[v]
  BY <1>1, MovedFacts
<1>3. op \in Ops /\ seqnum + 1 # 0
  BY <1>1, PwRecord DEF Types, TypeOK
<1>4. number[op] = 0 /\ op \notin todo
  BY <1>1, <1>3 DEF Lossless, NumbersInv, InStages, Reading
<1>5. \A o \in Ops : number'[o] = IF o = op THEN seqnum + 1 ELSE number[o]
  BY <1>1 DEF Types, TypeOK
<1>6. InWork' \subseteq InWork \cup {new}
  BY <1>1, <1>2 DEF InWork, InStages, AsHeld
<1>7. Numbered' \subseteq Numbered \cup {new}
  BY <1>1, <1>6, SameParts DEF Numbered
<1>8. \A o \in Ops : (Ran(o) => Ran(o)') /\ (Safe(o) => Safe(o)')
  BY <1>1, SafeIfSame
<1>9. NumbersInv'
  <2>1. \A v \in Workers : pw'[v].at = "read" => v # w /\ pw[v].at = "read" /\ pw'[v] = pw[v]
    BY <1>2
  <2>2. (\A o \in Ops : number[o] = 0 <=> o \in todo \/ Reading(o))'
    <3> SUFFICES ASSUME NEW o \in Ops
                 PROVE  number'[o] = 0 <=> o \in todo \/ Reading(o)'
      BY <1>1
    <3>1. number[o] = 0 <=> o \in todo \/ Reading(o)
      BY DEF Lossless, NumbersInv
    <3>2. \A v \in Workers : pw[v].at = "read" /\ pw[v].op = op => v = w
      BY <1>1 DEF Lossless, NumbersInv, InStages
    <3>3. Reading(o)' <=> Reading(o) /\ o # op
      BY <1>1, <1>2, <2>1, <3>2 DEF Reading, InStages
    <3> HIDE DEF op
    <3> QED BY <1>3, <1>4, <1>5, <3>1, <3>3
  <2>3. (\A v \in InStages({"read"}) : pw[v].op \notin todo)'
    BY <1>1, <2>1 DEF InStages, Lossless, NumbersInv
  <2>4. (\A u, v \in InStages({"read"}) : pw[u].op = pw[v].op => u = v)'
    BY <2>1 DEF InStages, Lossless, NumbersInv
  <2>5. ASSUME NEW r \in Numbered' PROVE r.sq = number'[r.op]
    <3>1. CASE r \in Numbered
      <4>1. r.sq = number[r.op] /\ r.sq # 0 /\ r.op \in Ops
        BY <3>1, NumberedType DEF Lossless, NumbersInv
      <4> HIDE DEF op
      <4> QED BY <1>4, <1>5, <4>1
    <3>2. CASE r = new
      BY <1>3, <1>5, <3>2
    <3> QED BY <1>7, <3>1, <3>2
  <2>6. ASSUME NEW n \in Nat \ {0}, Reported(n)'
        PROVE  Counts(n)'
    <3>1. PICK o \in Ops : number[o] = n /\ Ran(o)
      BY <1>1, <2>6, SameParts DEF NumbersInv, Lossless
    <3>2. number'[o] = n
      <4> HIDE DEF op
      <4> QED BY <1>4, <1>5, <3>1
    <3> QED BY <1>8, <3>1, <3>2 DEF Counts
  <2> QED BY <2>2, <2>3, <2>4, <2>5, <2>6 DEF NumbersInv, Counts
<1>10. \A o \in Ops : number[o] # 0 /\ Secure(o) => Secure(o)'
  <2> SUFFICES ASSUME NEW o \in Ops, number[o] # 0, Secure(o) PROVE Secure(o)'
    OBVIOUS
  <2>1. CASE Safe(o)
    BY <1>8, <2>1 DEF Secure
  <2>2. CASE Shared(o)
    <3>1. PICK other \in Ops \ {o} : number[other] = number[o]
      BY <2>2 DEF Shared
    <3>2. number'[other] = number'[o]
      <4> HIDE DEF op
      <4> QED BY <1>4, <1>5, <3>1
    <3> QED BY <3>2 DEF Secure, Shared
  <2> QED BY <2>1, <2>2 DEF Secure
<1>11. SentInv' /\ NothingLost'
  <2>1. \A v \in Workers : pw'[v].at = "send" => pw[v].at = "send" /\ pw[v].op = pw'[v].op
    BY <1>2
  <2>2. \A v \in Workers : pw'[v].op # pw[v].op /\ pw[v].op # None => pw[v].at = "send"
    BY <1>2
  <2>3. \A o \in todo : o \in todo' \/ AtWork(o)'
    BY <1>1
  <2> HIDE DEF op
  <2> QED BY <1>10, <2>1, <2>2, <2>3, LostKept DEF Lossless
<1> QED BY <1>9, <1>11 DEF Lossless

LEMMA StoreSeqLost ==
  ASSUME Types, Types', Lossless, pup, pup', NEW w \in Workers, StoreSeq(w)
  PROVE  Lossless'
<1>1. /\ pw[w].at = "store" /\ Moved(w, "hold", pw[w].sq)
      /\ UNCHANGED <<todo, holdback, resend, chan, back, pend, slog, torn, number>>
  BY WorkerMoves DEF StoreSeq, net, second, history
<1>2. /\ pw'[w].at = "hold" /\ pw'[w].op = pw[w].op /\ pw'[w].sq = pw[w].sq
      /\ \A v \in Workers : v # w => pw'[v] = pw[v]
  BY <1>1, MovedFacts, ZenonT(60)
<1>3. InWork' \subseteq InWork
  BY <1>1, <1>2 DEF InWork, InStages, AsHeld
<1>4. Numbered' \subseteq Numbered
  BY <1>1, <1>3, SameParts DEF Numbered
<1>5. NumbersInv'
  <2>1. \A v \in Workers : pw[v].at = "read" \/ pw'[v].at = "read" => pw'[v] = pw[v]
    BY <1>1, <1>2
  <2> QED BY <1>1, <1>4, <2>1, ReadingSame, NumbersKept, SafeIfSame, SameParts DEF Lossless
<1>6. SentInv' /\ NothingLost'
  <2>1. \A v \in Workers : pw'[v].at = "send" => pw[v].at = "send" /\ pw[v].op = pw'[v].op
    BY <1>2
  <2>2. \A v \in Workers : pw'[v].op # pw[v].op /\ pw[v].op # None => pw[v].at = "send"
    BY <1>2
  <2>3. \A o \in todo : o \in todo' \/ AtWork(o)'
    BY <1>1
  <2>4. \A o \in Ops : Secure(o) => Secure(o)'
    BY <1>1, SafeIfSame, SecureIfSafe
  <2> QED BY <2>1, <2>2, <2>3, <2>4, LostKept DEF Lossless
<1> QED BY <1>5, <1>6 DEF Lossless

LEMMA HoldLost ==
  ASSUME Types, Types', Lossless, pup, pup', NEW w \in Workers, Hold(w)
  PROVE  Lossless'
<1> DEFINE new == AsHeld(pw[w])
<1>1. /\ pw[w].at = "hold" /\ Moved(w, "send", pw[w].sq) /\ holdback' = Append(holdback, new)
      /\ UNCHANGED <<todo, resend, chan, back, pend, slog, torn, number>>
  BY WorkerMoves DEF Hold, net, second, history, AsHeld
<1>2. /\ pw'[w].at = "send" /\ pw'[w].op = pw[w].op /\ pw'[w].sq = pw[w].sq
      /\ \A v \in Workers : v # w => pw'[v] = pw[v]
  BY <1>1, MovedFacts, ZenonT(60)
<1>3. holdback \in Seq(Held) /\ new \in Held /\ new.op = pw[w].op
  <2>1. pw[w].op \in Ops /\ pw[w].sq \in Nat \ {0}
    BY <1>1, PwRecord
  <2> QED BY <2>1, MsgTypes DEF Types, TypeOK, AsHeld
<1>4. new \in InWork
  BY <1>1 DEF InWork, InStages
<1> HIDE DEF new
<1>5. InHoldback' = InHoldback \cup {new}
  BY <1>1, <1>3, MembersAppend DEF InHoldback
<1>6. InWork' \subseteq InWork
  BY <1>1, <1>2 DEF InWork, InStages, AsHeld
<1>7. Numbered' \subseteq Numbered
  BY <1>1, <1>4, <1>5, <1>6, SameParts DEF Numbered
<1>8. \A op \in Ops : Ran(op) => Ran(op)'
  BY <1>1 DEF Ran, HasRun
<1>9. \A op \in Ops : IsHeld(op) => IsHeld(op)'
  <2> SUFFICES ASSUME NEW i \in DOMAIN holdback
               PROVE  i \in DOMAIN holdback' /\ holdback'[i] = holdback[i]
    BY DEF IsHeld
  <2> QED BY <1>1, <1>3
<1>10. \A op \in Ops : op = pw[w].op => IsHeld(op)'
  <2>1. Len(holdback) + 1 \in DOMAIN holdback' /\ holdback'[Len(holdback) + 1] = new
    BY <1>1, <1>3
  <2> QED BY <1>3, <2>1 DEF IsHeld
<1>11. NumbersInv'
  <2>1. \A v \in Workers : pw[v].at = "read" \/ pw'[v].at = "read" => pw'[v] = pw[v]
    BY <1>1, <1>2
  <2> QED BY <1>1, <1>7, <1>8, <2>1, ReadingSame, NumbersKept, SameParts DEF Lossless
<1>12. SentInv' /\ NothingLost'
  <2>1. \A v \in Workers : pw'[v].at = "send" =>
           /\ pw[v].op = pw'[v].op
           /\ (pw[v].at = "send" \/ \A op \in Ops : op = pw[v].op => Secure(op)')
    BY <1>2, <1>10 DEF Safe, Secure
  <2>2. \A v \in Workers : pw'[v].op # pw[v].op /\ pw[v].op # None => pw[v].at = "send"
    BY <1>2
  <2>3. \A o \in todo : o \in todo' \/ AtWork(o)'
    BY <1>1
  <2>4. \A o \in Ops : Secure(o) => Secure(o)'
    <3>1. \A o \in Ops : Safe(o) => Safe(o)'
      BY <1>8, <1>9 DEF Safe
    <3> QED BY <1>1, <3>1, SecureIfSafe
  <2> QED BY <2>1, <2>2, <2>3, <2>4, LostKept DEF Lossless
<1> QED BY <1>11, <1>12 DEF Lossless

\* A message that reached the channel, if it is a request, is the one sent.
LEMMA ChanGains ==
  ASSUME NEW c, NEW m, NEW r, chan \in Seq(Message), m \in Message,
         chan' = chan \/ chan' = Append(chan, m),
         m \in OpMsgs => AsHeld(m) = r
  PROVE  InChan' \subseteq InChan \cup (IF m \in OpMsgs THEN {r} ELSE {})
<1>1. Members(chan') \subseteq Members(chan) \cup {m}
  BY MembersAppend
<1>2. OpsIn(chan') \subseteq OpsIn(chan) \cup {x \in {m} : x \in OpMsgs}
  BY <1>1 DEF OpsIn
<1> QED BY <1>2 DEF InChan

LEMMA MsgHeld ==
  ASSUME NEW r
  PROVE  AsHeld(Msg(r)) = AsHeld(r)
BY DEF AsHeld, Msg

LEMMA SendOutLost ==
  ASSUME Types, Types', Lossless, pup, pup', NEW w \in Workers, SendOut(w)
  PROVE  Lossless'
<1>1. /\ pw[w].at = "send" /\ pw' = [pw EXCEPT ![w] = Idle]
      /\ Send(secondary, Msg(pw[w]))
      /\ UNCHANGED <<todo, holdback, resend, back, pend, slog, torn, number>>
  BY DEF SendOut, second
<1>2. pw'[w] = Idle /\ \A v \in Workers : v # w => pw'[v] = pw[v]
  BY <1>1 DEF Types, TypeOK
<1>3. Msg(pw[w]) \in OpMsgs /\ Msg(pw[w]) \in Message
  BY <1>1, PwRecord, MsgTypes
<1>4. chan' = chan \/ chan' = Append(chan, Msg(pw[w]))
  <2>1. secondary \in Conns \cup {0}
    BY DEF Types, TypeOK
  <2> QED BY <1>1, <1>3, <2>1, SendEffect
<1>5. AsHeld(pw[w]) \in InWork
  BY <1>1 DEF InWork, InStages
<1>6. InChan' \subseteq InChan \cup {AsHeld(pw[w])}
  <2>1. chan \in Seq(Message)
    BY DEF Types, TypeOK
  <2> QED BY <1>3, <1>4, <2>1, ChanGains, MsgHeld
<1>7. InWork' \subseteq InWork
  BY <1>2 DEF InWork, InStages, Idle
<1>8. Numbered' \subseteq Numbered
  BY <1>1, <1>5, <1>6, <1>7, SameParts DEF Numbered
<1>9. NumbersInv'
  <2>1. \A v \in Workers : pw[v].at = "read" \/ pw'[v].at = "read" => pw'[v] = pw[v]
    BY <1>1, <1>2 DEF Idle
  <2> QED BY <1>1, <1>8, <2>1, ReadingSame, NumbersKept, SafeIfSame, SameParts DEF Lossless
<1>10. SentInv' /\ NothingLost'
  <2>1. \A v \in Workers : pw'[v].at = "send" => pw[v].at = "send" /\ pw[v].op = pw'[v].op
    BY <1>2 DEF Idle
  <2>2. \A v \in Workers : pw'[v].op # pw[v].op /\ pw[v].op # None => pw[v].at = "send"
    BY <1>1, <1>2
  <2>3. \A o \in todo : o \in todo' \/ AtWork(o)'
    BY <1>1
  <2>4. \A o \in Ops : Secure(o) => Secure(o)'
    BY <1>1, SafeIfSame, SecureIfSafe
  <2> QED BY <2>1, <2>2, <2>3, <2>4, LostKept DEF Lossless
<1> QED BY <1>9, <1>10 DEF Lossless

\* The same for a step that moves no worker.
LEMMA OthersLost ==
  ASSUME Types, Types', Lossless, pup, pup',
         UNCHANGED <<todo, number, pw>>,
         Numbered' \subseteq Numbered,
         \A op \in Ops : (Ran(op) => Ran(op)') /\ (Secure(op) => Secure(op)'),
         \A n \in Nat \ {0} : Reported(n)' => Reported(n) \/ Counts(n)'
  PROVE  Lossless'
<1>1. NumbersInv'
  BY ReadingSame, NumbersKept DEF Lossless
<1>2. SentInv' /\ NothingLost'
  BY LostKept DEF Lossless
<1> QED BY <1>1, <1>2 DEF Lossless

LEMMA GreetLost ==
  ASSUME Types, Types', Lossless, pup, pup', NEW c \in Conns, Greet(c)
  PROVE  Lossless'
<1>1. /\ back' = [back EXCEPT ![c] = Tail(@)] /\ back[c] # << >>
      /\ resend' = [resend EXCEPT ![c] = holdback]
      /\ UNCHANGED <<todo, pw, number, holdback, chan, pend, slog, torn>>
  BY DEF Greet, second
<1>2. InResend' \subseteq InResend \cup InHoldback
  <2> SUFFICES ASSUME NEW d \in Conns
               PROVE  Members(resend'[d]) \subseteq InResend \cup InHoldback
    BY DEF InResend
  <2>1. CASE d = c
    <3>1. resend'[d] = holdback
      BY <1>1, <2>1 DEF Types, TypeOK
    <3> QED BY <3>1 DEF InHoldback
  <2>2. CASE d # c
    <3>1. resend'[d] = resend[d]
      BY <1>1, <2>2 DEF Types, TypeOK
    <3> QED BY <3>1 DEF InResend
  <2> QED BY <2>1, <2>2
<1>3. Numbered' \subseteq Numbered
  BY <1>1, <1>2, SameParts DEF Numbered
<1>4. \A n \in Nat : Reported(n)' => Reported(n)
  <2> SUFFICES ASSUME NEW n \in Nat, NEW d \in Conns, NEW i \in DOMAIN back'[d],
                      back'[d][i] = Done(n)
               PROVE  Done(n) \in Members(back[d])
    BY DEF Reported, Members
  <2>1. CASE d # c
    <3>1. back'[d] = back[d]
      BY <1>1, <2>1 DEF Types, TypeOK
    <3> QED BY <3>1 DEF Members
  <2>2. CASE d = c
    <3>1. back[d] \in Seq(Report) /\ back'[d] = Tail(back[d]) /\ back[d] # << >>
      BY <1>1, <2>2 DEF Types, TypeOK
    <3>2. i \in 1 .. Len(back[d]) - 1 /\ back'[d][i] = back[d][i+1] /\ i+1 \in DOMAIN back[d]
      BY <3>1, HeadTail
    <3> QED BY <3>2 DEF Members
  <2> QED BY <2>1, <2>2
<1> QED BY <1>1, <1>3, <1>4, SafeIfSame, SecureIfSafe, OthersLost

LEMMA ResendLost ==
  ASSUME Types, Types', Lossless, pup, pup', NEW c \in Conns, Resend(c)
  PROVE  Lossless'
<1> DEFINE h == Head(resend[c])
<1>1. /\ resend[c] # << >> /\ Send(secondary, Msg(h))
      /\ resend' = [resend EXCEPT ![c] = Tail(@)]
      /\ UNCHANGED <<todo, pw, number, holdback, back, pend, slog, torn>>
  BY DEF Resend, second, history
<1>2. resend[c] \in Seq(Held) /\ Tail(resend[c]) \in Seq(Held)
      /\ h \in Held /\ h = resend[c][1] /\ 1 \in DOMAIN resend[c]
  BY <1>1, HeadTail DEF Types, TypeOK
<1>3. h \in InResend /\ AsHeld(h) = h
  BY <1>2 DEF InResend, Members, AsHeld, Held
<1>4. InResend' \subseteq InResend
  <2> SUFFICES ASSUME NEW d \in Conns PROVE Members(resend'[d]) \subseteq InResend
    BY DEF InResend
  <2>1. CASE d = c
    <3>1. resend'[d] = Tail(resend[c])
      BY <1>1, <2>1 DEF Types, TypeOK
    <3>2. ASSUME NEW i \in DOMAIN Tail(resend[c])
          PROVE  Tail(resend[c])[i] \in Members(resend[c])
      <4>1. i \in 1 .. Len(resend[c]) - 1 /\ Tail(resend[c])[i] = resend[c][i+1]
            /\ i+1 \in DOMAIN resend[c]
        BY <1>1, <1>2, HeadTail
      <4> QED BY <4>1 DEF Members
    <3> QED BY <3>1, <3>2 DEF Members, InResend
  <2>2. CASE d # c
    <3>1. resend'[d] = resend[d]
      BY <1>1, <2>2 DEF Types, TypeOK
    <3> QED BY <3>1 DEF InResend
  <2> QED BY <2>1, <2>2
<1>5. InChan' \subseteq InChan \cup {h}
  <2>1. h.sq \in Nat \ {0} /\ h.op \in Ops
    BY <1>2 DEF Held
  <2> HIDE DEF h
  <2>2. Msg(h) \in OpMsgs /\ Msg(h) \in Message /\ AsHeld(Msg(h)) = h
    BY <1>3, <2>1, MsgTypes, MsgHeld
  <2>3. secondary \in Conns \cup {0} /\ chan \in Seq(Message)
    BY DEF Types, TypeOK
  <2>4. chan' = chan \/ chan' = Append(chan, Msg(h))
    BY <1>1, <2>2, <2>3, SendEffect
  <2> QED BY <2>2, <2>3, <2>4, ChanGains
<1> HIDE DEF h
<1>6. Numbered' \subseteq Numbered
  BY <1>1, <1>3, <1>4, <1>5, SameParts DEF Numbered
<1> QED BY <1>1, <1>6, SafeIfSame, SecureIfSafe, SameParts, OthersLost

LEMMA ReadReportsLost ==
  ASSUME Types, Types', Lossless, pup, pup',
         NEW c \in Conns, NEW k \in Upto(back[c]), ReadReports(c, k)
  PROVE  Lossless'
<1>1. UNCHANGED <<todo, pw, number, resend, pend, slog, torn>>
  BY DEF ReadReports, second
<1>2. \A op \in Ops : Ran(op) => Ran(op)'
  BY <1>1 DEF Ran, HasRun
<1>3. holdback \in Seq(Held)
  BY DEF Types, TypeOK
<1>4. ASSUME NEW n \in Nat, Reported(n), holdback' = Keep(holdback, Others(n))
      PROVE  InHoldback' \subseteq InHoldback /\ \A op \in Ops : Secure(op) => Secure(op)'
  <2>1. Members(holdback') = Members(holdback) \cap Others(n)
    BY <1>3, <1>4, KeepMembers
  <2>2. ASSUME NEW op \in Ops, Secure(op) PROVE Secure(op)'
    <3>0. CASE Shared(op)
      BY <1>1, <3>0 DEF Shared, Secure
    <3>1. CASE Ran(op)
      BY <1>2, <3>1 DEF Safe, Secure
    <3>2. CASE IsHeld(op)
      <4>1. PICK r \in Members(holdback) : r.op = op
        BY <3>2 DEF IsHeld, Members
      <4>2. r \in Held /\ r \in Numbered
        BY <1>3, <4>1 DEF Members, Numbered, InHoldback
      <4>3. CASE r.sq = n
        <5>1. n # 0 /\ number[op] = n
          BY <4>1, <4>2, <4>3, NumberedType DEF Lossless, NumbersInv
        <5>2. PICK other \in Ops : number[other] = n /\ Ran(other)
          BY <1>4, <5>1 DEF Lossless, NumbersInv
        <5>3. CASE other = op
          BY <1>2, <5>2, <5>3 DEF Safe, Secure
        <5>4. CASE other # op
          BY <1>1, <5>1, <5>2, <5>4 DEF Shared, Secure
        <5> QED BY <5>3, <5>4
      <4>4. CASE r.sq # n
        <5>1. r \in Members(holdback')
          BY <2>1, <4>1, <4>2, <4>4 DEF Others
        <5>2. IsHeld(op)'
          BY <4>1, <5>1 DEF IsHeld, Members
        <5> QED BY <5>2 DEF Safe, Secure
      <4> QED BY <4>3, <4>4
    <3> QED BY <2>2, <3>0, <3>1, <3>2 DEF Safe, Secure
  <2> QED BY <2>1, <2>2 DEF InHoldback
<1>5. InHoldback' \subseteq InHoldback /\ \A op \in Ops : Secure(op) => Secure(op)'
  <2>1. CASE holdback' = holdback
    BY <1>1, <1>2, <2>1, SameParts, SafeIfSame, SecureIfSafe
  <2> QED BY <1>4, <2>1, ReportsEffect
<1>6. InChan' \subseteq InChan
  <2>1. chan \in Seq(Message)
    BY DEF Types, TypeOK
  <2>2. chan' = chan \/ chan' = Append(chan, Err)
    <3>1. CASE Send(c, Err)
      BY <3>1, MsgTypes, SendEffect
    <3> QED BY <3>1, ReportsEffect
  <2> QED BY <2>1, <2>2, MsgTypes, ChanGains
<1>7. Numbered' \subseteq Numbered
  <2>1. InResend' = InResend /\ InWork' = InWork
    BY <1>1, SameParts
  <2> QED BY <1>5, <1>6, <2>1 DEF Numbered
<1>8. \A n \in Nat : Reported(n)' => Reported(n)
  <2>1. PICK q \in Seq(Report) : /\ back' = [back EXCEPT ![c] = q]
                                 /\ Members(q) \subseteq Members(back[c])
    BY ReportsEffect
  <2>2. \A d \in Conns : back'[d] = IF d = c THEN q ELSE back[d]
    BY <2>1 DEF Types, TypeOK
  <2> QED BY <2>1, <2>2 DEF Reported
<1> QED BY <1>1, <1>2, <1>5, <1>7, <1>8, OthersLost

LEMMA StartLost ==
  ASSUME Types, Types', Lossless, pup, pup', Start
  PROVE  Lossless'
<1>1. /\ UNCHANGED <<todo, pw, number, holdback, resend, chan, pend, slog, torn>>
      /\ back' = [back EXCEPT ![sconn + 1] = <<Hello>>] /\ sconn + 1 \in Conns
  BY BoundsAssumption DEF Start, primary, history, Types, TypeOK, Conns
<1>2. Numbered' = Numbered
  BY <1>1, SameParts DEF Numbered
<1>3. \A n \in Nat : Reported(n)' => Reported(n)
  <2> SUFFICES ASSUME NEW n \in Nat, NEW d \in Conns, Done(n) \in Members(back'[d])
               PROVE  Done(n) \in Members(back[d])
    BY DEF Reported
  <2>1. d # sconn + 1
    <3> SUFFICES ASSUME d = sconn + 1 PROVE FALSE
      OBVIOUS
    <3>1. back'[d] = <<Hello>>
      BY <1>1 DEF Types, TypeOK
    <3>2. Done(n) = Hello
      BY <3>1 DEF Members
    <3> QED BY <3>2, MsgTypes
  <2>2. back'[d] = back[d]
    BY <1>1, <2>1 DEF Types, TypeOK
  <2> QED BY <2>2
<1> QED BY <1>1, <1>2, <1>3, SafeIfSame, SecureIfSafe, OthersLost

LEMMA RanSecure ==
  ASSUME holdback' = holdback, number' = number, \A op \in Ops : Ran(op) => Ran(op)'
  PROVE  \A op \in Ops : Secure(op) => Secure(op)'
<1>1. \A op \in Ops : Safe(op) => Safe(op)'
  BY SameParts DEF Safe
<1> QED BY <1>1, SecureIfSafe

LEMMA DieLost ==
  ASSUME Types, Types', Lossless, pup, pup', pup /\ sup /\ Die
  PROVE  Lossless'
<1>1. /\ UNCHANGED <<todo, pw, number, holdback, resend, slog>>
      /\ chan' = << >>
      /\ torn' = IF pend = None THEN torn ELSE torn \cup {pend}
  BY DEF Die, primary
<1>2. \A op \in Ops : Ran(op) => Ran(op)'
  BY <1>1, RanKept
<1>3. InChan' = {}
  BY <1>1 DEF InChan, OpsIn, Members
<1>4. Numbered' \subseteq Numbered
  <2>1. InHoldback' = InHoldback /\ InResend' = InResend /\ InWork' = InWork
    BY <1>1, SameParts
  <2> QED BY <1>3, <2>1 DEF Numbered
<1>5. \A n \in Nat : Reported(n)' => Reported(n)
  <2>1. PICK k \in 0 .. Len(back[sconn]) : back' = [back EXCEPT ![sconn] = Batch(back[sconn], k)]
    BY DEF Die
  <2> SUFFICES ASSUME NEW n \in Nat, NEW d \in Conns, Done(n) \in Members(back'[d])
               PROVE  Done(n) \in Members(back[d])
    BY DEF Reported
  <2>2. CASE d # sconn
    <3>1. back'[d] = back[d]
      BY <2>1, <2>2 DEF Types, TypeOK
    <3> QED BY <3>1
  <2>3. CASE d = sconn
    <3>1. back'[d] = Batch(back[d], k) /\ back[d] \in Seq(Report) /\ k \in 0 .. Len(back[d])
      BY <2>1, <2>3 DEF Types, TypeOK
    <3> QED BY <3>1, BatchMembers
  <2> QED BY <2>2, <2>3
<1>6. \A op \in Ops : Secure(op) => Secure(op)'
  BY <1>1, <1>2, RanSecure
<1> QED BY <1>1, <1>2, <1>4, <1>5, <1>6, OthersLost

LEMMA ReceiveLost ==
  ASSUME Types, Types', Lossless, pup, pup', NEW k \in Upto(chan), Receive(k)
  PROVE  Lossless'
<1>1. PICK f : Received(k, f)
  BY ReceiveEffect
<1>2. /\ UNCHANGED <<todo, pw, number, holdback, resend, slog, torn>>
      /\ pend = None /\ pend' = chan[f].op /\ chan' = Rest(chan, k)
      /\ f \in 1 .. k /\ k \in 1 .. Len(chan) /\ chan[f] \in OpMsgs
  BY <1>1 DEF Received, primary
<1>3. \A op \in Ops : Ran(op) => Ran(op)'
  BY <1>2, RanKept
<1>4. chan \in Seq(Message) /\ k \in 0 .. Len(chan) /\ f \in DOMAIN chan
  BY <1>2 DEF Types, TypeOK
<1>5. InChan' \subseteq InChan
  <2>1. Members(chan') \subseteq Members(chan)
    BY <1>2, <1>4, RestMembers
  <2> QED BY <2>1 DEF InChan, OpsIn
<1>6. Numbered' \subseteq Numbered
  <2>1. InHoldback' = InHoldback /\ InResend' = InResend /\ InWork' = InWork
    BY <1>2, SameParts
  <2> QED BY <1>5, <2>1 DEF Numbered
<1>7. ASSUME NEW n \in Nat \ {0}, Reported(n)'
      PROVE  Reported(n) \/ Counts(n)'
  <2>1. PICK m \in {<<Err>>, << >>, <<Done(Number(f))>>} : back' = [back EXCEPT ![sconn] = @ \o m]
    BY <1>1 DEF Received
  <2>2. PICK d \in Conns : Done(n) \in Members(back'[d])
    BY <1>7 DEF Reported
  <2>3. CASE d # sconn
    <3>1. back'[d] = back[d]
      BY <2>1, <2>3 DEF Types, TypeOK
    <3> QED BY <2>2, <3>1 DEF Reported
  <2>4. CASE d = sconn
    <3>1. back[d] \in Seq(Report) /\ back'[d] = back[d] \o m
      BY <2>1, <2>4 DEF Types, TypeOK
    <3>2. m = << >> => back'[d] = back[d]
      BY <3>1
    <3>3. \A x \in Report : m = <<x>> => back'[d] = Append(back[d], x)
      BY <3>1
    <3>4. \A x \in Report : m = <<x>> => Members(back'[d]) = Members(back[d]) \cup {x}
      <4>1. \A x \in Report : Members(Append(back[d], x)) = Members(back[d]) \cup {x}
        BY <3>1, MembersAppend
      <4> QED BY <3>3, <4>1, Zenon
    <3>5. CASE Done(n) \in Members(back[d])
      BY <3>5 DEF Reported
    <3>6. CASE Done(n) \notin Members(back[d])
      <4>1. m # << >> /\ m # <<Err>>
        BY <2>2, <3>2, <3>4, <3>6, MsgTypes
      <4>2. m = <<Done(Number(f))>>
        BY <2>1, <4>1
      <4>3. Number(f) \in Nat
        BY <1>2 DEF Number, OpMsgs
      <4>4. Done(Number(f)) \in Report
        BY <4>3, MsgTypes
      <4>5. Done(n) = Done(Number(f))
        BY <2>2, <3>4, <3>6, <4>2, <4>4
      <4>6. n = Number(f)
        BY <4>5 DEF Done
      <4>7. CASE f = 1
        <5> DEFINE h == AsHeld(chan[1])
        <5>1. h \in Numbered
          BY <1>2, <1>4, <4>7 DEF Numbered, InChan, OpsIn, Members
        <5>2. h.sq = n /\ h.op = pend'
          BY <1>2, <4>6, <4>7 DEF AsHeld, Number
        <5> HIDE DEF h
        <5>3. PICK op \in Ops : number[op] = n /\ op = pend'
          BY <5>1, <5>2, NumberedType DEF Lossless, NumbersInv
        <5>4. number'[op] = n /\ Ran(op)'
          BY <1>2, <5>3 DEF Ran, HasRun
        <5> QED BY <5>4 DEF Counts
      <4>8. CASE f # 1
        BY <4>6, <4>8 DEF Number
      <4> QED BY <4>7, <4>8
    <3> QED BY <3>5, <3>6
  <2> QED BY <2>3, <2>4
<1>8. \A op \in Ops : Secure(op) => Secure(op)'
  BY <1>2, <1>3, RanSecure
<1> QED BY <1>2, <1>3, <1>6, <1>7, <1>8, OthersLost

LEMMA LogLost ==
  ASSUME Types, Types', Lossless, pup, pup', Log
  PROVE  Lossless'
<1>1. /\ UNCHANGED <<todo, pw, number, holdback, resend, chan, back, torn>>
      /\ pend # None /\ slog' = Append(slog, pend)
  BY DEF Log, primary, net, history
<1>2. \A op \in Ops : Ran(op) => Ran(op)'
  BY <1>1, RanKept
<1>3. Numbered' = Numbered
  BY <1>1, SameParts DEF Numbered
<1>4. \A op \in Ops : Secure(op) => Secure(op)'
  BY <1>1, <1>2, RanSecure
<1> QED BY <1>1, <1>2, <1>3, <1>4, SameParts, OthersLost

LEMMA FlipLost ==
  ASSUME Types, Types', Lossless, pup, pup', Flip
  PROVE  Lossless'
<1>1. UNCHANGED <<todo, pw, number, holdback, resend, chan, back, pend, slog, torn>>
  BY DEF Flip, primary, net, history
<1>2. Numbered' = Numbered
  BY <1>1, SameParts DEF Numbered
<1> QED BY <1>1, <1>2, SafeIfSame, SecureIfSafe, SameParts, OthersLost

LEMMA SameLost ==
  ASSUME Types, Types', Lossless, pup, pup', UNCHANGED vars
  PROVE  Lossless'
<1>1. UNCHANGED <<todo, pw, number, holdback, resend, chan, back, pend, slog, torn>>
  BY DEF vars, primary, net, second, history
<1>2. Numbered' = Numbered
  BY <1>1, SameParts DEF Numbered
<1> QED BY <1>1, <1>2, SafeIfSame, SecureIfSafe, SameParts, OthersLost

LEMMA NextLost == Types /\ LostInv /\ [Next]_vars => LostInv'
<1> SUFFICES ASSUME Types, LostInv, [Next]_vars, pup' PROVE Lossless'
  BY DEF LostInv, Lossless
<1>1. Types'
  BY NextTypes
<1>2. pup
  <2> DEFINE P == pup
  <2>1. ASSUME ~pup PROVE pup' = pup
    BY <2>1 DEF Next, Worker, Listener, Secondary, Serve, ReadSeq, StoreSeq, Hold, SendOut,
                Greet, Resend, ReadReports, Start, Crash, Abort, Receive, Log, Flip,
                vars, primary
  <2> QED BY <2>1
<1>3. Lossless
  BY <1>2 DEF LostInv, Lossless
<1> DEFINE P == Lossless'
<1>4. \A w \in Workers, op \in Ops : Serve(w, op) => P
  BY <1>1, <1>2, <1>3, ServeLost
<1>5. \A w \in Workers : ReadSeq(w) => P
  BY <1>1, <1>2, <1>3, ReadSeqLost
<1>6. \A w \in Workers : StoreSeq(w) => P
  BY <1>1, <1>2, <1>3, StoreSeqLost
<1>7. \A w \in Workers : Hold(w) => P
  BY <1>1, <1>2, <1>3, HoldLost
<1>8. \A w \in Workers : SendOut(w) => P
  BY <1>1, <1>2, <1>3, SendOutLost
<1>9. \A c \in Conns : Greet(c) => P
  BY <1>1, <1>2, <1>3, GreetLost
<1>10. \A c \in Conns : Resend(c) => P
  BY <1>1, <1>2, <1>3, ResendLost
<1>11. \A c \in Conns : \A k \in Upto(back[c]) : ReadReports(c, k) => P
  BY <1>1, <1>2, <1>3, ReadReportsLost
<1>12. Start => P
  BY <1>1, <1>2, <1>3, StartLost
<1>13. pup /\ sup /\ Die => P
  BY <1>1, <1>2, <1>3, DieLost
<1>14. \A k \in Upto(chan) : Receive(k) => P
  BY <1>1, <1>2, <1>3, ReceiveLost
<1>15. Log => P
  BY <1>1, <1>2, <1>3, LogLost
<1>16. Flip => P
  BY <1>1, <1>2, <1>3, FlipLost
<1>17. UNCHANGED vars => P
  BY <1>1, <1>2, <1>3, SameLost
<1> HIDE DEF P
<1>18. P
  BY <1>4, <1>5, <1>6, <1>7, <1>8, <1>9, <1>10, <1>11, <1>12, <1>13, <1>14, <1>15, <1>16, <1>17,
     NextCases
<1> QED BY <1>18 DEF P

LEMMA InitLost == Init => LostInv
<1> SUFFICES ASSUME Init PROVE LostInv
  OBVIOUS
<1>1. \A S : "idle" \notin S => InStages(S) = {}
  BY DEF Init, InStages, Idle
<1>2. InHoldback = {} /\ InResend = {} /\ InChan = {} /\ InWork = {}
  BY <1>1 DEF Init, InHoldback, InResend, InChan, InWork, OpsIn, Members
<1>3. Numbered = {}
  BY <1>2 DEF Numbered
<1>4. \A n : ~Reported(n)
  BY DEF Init, Reported, Members
<1>5. InStages({"read"}) = {} /\ InStages({"send"}) = {}
  BY <1>1
<1>6. NumbersInv
  BY <1>3, <1>4, <1>5 DEF Init, NumbersInv
<1> QED BY <1>5, <1>6 DEF Init, LostInv, SentInv, NothingLost

(***************************************************************************)
(* Every request the primary has finished with, and whose number no other  *)
(* request was given, is still held, or the secondary has run it, for any  *)
(* workers, requests, starts of the secondary and bounds.  A number is     *)
(* reported only once some request of that number has run, and a report    *)
(* takes out of the holdback the requests of its number (send_to_secondary,*)
(* handle_secondary_report).                                               *)
(***************************************************************************)
THEOREM FinishedIsNotLost == Spec => []NothingLost
<1>1. Init => Types /\ LostInv
  BY InitTypes, InitLost
<1>2. Types /\ LostInv /\ [Next]_vars => (Types /\ LostInv)'
  BY NextTypes, NextLost
<1>3. Types /\ LostInv => NothingLost
  BY DEF LostInv, NothingLost
<1> QED BY <1>1, <1>2, <1>3, PTL DEF Spec

-----------------------------------------------------------------------------
(***************************************************************************)
(* For InStep.  The connections of the secondary.                          *)
(***************************************************************************)
ConnsInv ==
  /\ secondary <= sconn
  /\ sup => sconn # 0
  /\ \A c \in Conns : socket[c] = "open" <=> sup /\ c = sconn
  /\ ~sup => chan = <<>> /\ pend = None
  /\ \A c \in Conns : c > sconn => back[c] = <<>> /\ resend[c] = <<>>
  /\ \A c \in Conns : \A i \in DOMAIN back[c] : back[c][i] = Hello => i = 1
  /\ \A c \in Conns : back[c] # <<>> /\ back[c][1] = Hello /\ c = sconn =>
       secondary # c /\ resend[c] = <<>> /\ OpsIn(chan) = {}

(***************************************************************************)
(* While the code has not given up the secondary's equality, one worker at *)
(* a time is on a request, and only the last greeting is being answered.   *)
(***************************************************************************)
OneAtATime ==
  /\ \A v, w \in InFlight : v = w
  /\ \A c \in Conns : resend[c] # <<>> => c = secondary

(***************************************************************************)
(* No request is served twice, and numbers grow along the holdback.        *)
(***************************************************************************)
Unheld == InStages({"read", "store", "hold"})

OrderInv ==
  /\ \A op \in todo : ~HasRun(op) /\ ~IsHeld(op) /\ ~AtWork(op)
  /\ \A w \in Unheld : ~HasRun(pw[w].op) /\ ~IsHeld(pw[w].op)
  /\ \A i, j \in DOMAIN holdback :
       i < j => holdback[i].sq < holdback[j].sq /\ holdback[i].op # holdback[j].op
  /\ \A i \in DOMAIN holdback : holdback[i].sq <= seqnum
  /\ \A w \in InStages({"store"}) : pw[w].sq = seqnum + 1
  /\ \A w \in InStages({"hold"}) :
       pw[w].sq = seqnum /\ \A i \in DOMAIN holdback : holdback[i].sq < seqnum
  /\ \A w \in InStages({"send"}) :
       holdback # <<>> /\ holdback[Len(holdback)] = AsHeld(pw[w])
  /\ \A n \in Nat : Reported(n) =>
       /\ n <= seqnum
       /\ InStages({"hold"}) # {} => n < seqnum
       /\ \A i \in DOMAIN holdback : holdback[i].sq = n => HasRun(holdback[i].op)

(***************************************************************************)
(* The first k of the holdback have run; the others, and the request a     *)
(* worker has not held yet, are what the secondary lacks.  The requests    *)
(* under way to it, what is being resent, and the one a worker is about to *)
(* send are the others, in order.                                          *)
(***************************************************************************)
Applied   == IF pend = None THEN slog ELSE Append(slog, pend)
Lacks(k)  == Len(holdback) - k
UnderWay  == Keep(chan, OpMsgs)
Count(S)  == IF S = {} THEN 0 ELSE 1

Lacking(k, rest) ==
  /\ Len(rest) = Lacks(k) + Count(Unheld)
  /\ \A i \in 1 .. Lacks(k) : rest[i] = holdback[k+i].op
  /\ \A w \in Unheld : rest[Len(rest)] = pw[w].op
  /\ content = DoAll(DoAll(<<>>, Applied), rest)

Comes(k) ==
  /\ Len(UnderWay) + Count(InStages({"send"})) <= Lacks(k)
  /\ \A i \in DOMAIN UnderWay : UnderWay[i] = Msg(holdback[k+i])

ComesAll(k) ==
  LET n == Len(UnderWay) IN
  /\ n + Len(resend[sconn]) + Count(InStages({"send"})) = Lacks(k)
  /\ \A i \in DOMAIN resend[sconn] : resend[sconn][i] = holdback[k+n+i]

RunInv(k) ==
  /\ \A i \in DOMAIN holdback : HasRun(holdback[i].op) <=> i <= k
  /\ \E rest \in Seq(Ops) : Lacking(k, rest)

FileInv == sup => scontent = DoAll(<<>>, Applied)

StepInv(k) ==
  /\ RunInv(k) /\ FileInv /\ Comes(k)
  /\ sup /\ secondary = sconn => ComesAll(k)

Calm == pup /\ ~astray

Stepping == OneAtATime /\ OrderInv /\ \E k \in 0 .. Len(holdback) : StepInv(k)

CalmInv == Calm => Stepping

-----------------------------------------------------------------------------
(***************************************************************************)
(* The connections.                                                        *)
(***************************************************************************)
Greeted(c) == back[c] # << >> /\ back[c][1] = Hello

LEMMA ConnsSame ==
  ASSUME Types, ConnsInv, UNCHANGED <<secondary, resend, socket, chan, back, sup, sconn, pend>>
  PROVE  ConnsInv'
BY DEF ConnsInv, OpsIn, Members

\* A send keeps which sockets are open, and adds a request only to the open one.
LEMMA SendConns ==
  ASSUME Types, ConnsInv, NEW c \in Conns \cup {0}, NEW m \in Message, Send(c, m),
         UNCHANGED <<sup, sconn>>
  PROVE  /\ \A d \in Conns : socket'[d] = "open" <=> sup' /\ d = sconn'
         /\ ~sup' => chan' = << >>
         /\ OpsIn(chan') # {} => OpsIn(chan) # {} \/ (m \in OpMsgs /\ c = sconn)
         /\ chan' = chan \/ c = sconn
<1>1. /\ chan' = chan \/ (chan' = Append(chan, m) /\ c # 0 /\ socket[c] = "open")
      /\ \A d \in Conns : socket'[d] = "open" <=> socket[d] = "open"
  BY SendEffect
<1>2. chan \in Seq(Message)
  BY DEF Types, TypeOK
<1>3. chan' = Append(chan, m) => Members(chan') = Members(chan) \cup {m}
  BY <1>2, MembersAppend
<1>4. chan' = Append(chan, m) => OpsIn(chan') \subseteq OpsIn(chan) \cup ({m} \cap OpMsgs)
  BY <1>3 DEF OpsIn
<1>5. c # 0 /\ socket[c] = "open" => sup /\ c = sconn
  BY DEF ConnsInv
<1>6. ~sup' => chan' = << >>
  BY <1>1, <1>5 DEF ConnsInv
<1>7. OpsIn(chan') # {} => OpsIn(chan) # {} \/ (m \in OpMsgs /\ c = sconn)
  BY <1>1, <1>4, <1>5 DEF OpsIn
<1>8. \A d \in Conns : socket'[d] = "open" <=> sup' /\ d = sconn'
  BY <1>1 DEF ConnsInv
<1> QED BY <1>1, <1>5, <1>6, <1>7, <1>8

LEMMA SendOutConns ==
  ASSUME Types, ConnsInv, NEW w \in Workers, SendOut(w)
  PROVE  ConnsInv'
<1>1. Send(secondary, Msg(pw[w])) /\ UNCHANGED <<secondary, resend, back, sup, sconn, pend>>
  BY DEF SendOut, second
<1>2. Msg(pw[w]) \in Message /\ secondary \in Conns \cup {0}
  <2>1. pw[w].op \in Ops /\ pw[w].sq \in Nat \ {0}
    BY PwRecord DEF SendOut
  <2> QED BY <2>1, MsgTypes DEF Types, TypeOK
<1>3. /\ \A d \in Conns : socket'[d] = "open" <=> sup' /\ d = sconn'
      /\ ~sup' => chan' = << >>
      /\ OpsIn(chan') # {} => OpsIn(chan) # {} \/ secondary = sconn
  BY <1>1, <1>2, SendConns
<1>4. OpsIn(chan)' = OpsIn(chan')
  BY DEF OpsIn, Members
<1> QED BY <1>1, <1>3, <1>4 DEF ConnsInv

LEMMA GreetConns ==
  ASSUME Types, ConnsInv, NEW c \in Conns, Greet(c)
  PROVE  ConnsInv'
<1>1. /\ back[c] # << >> /\ back' = [back EXCEPT ![c] = Tail(@)]
      /\ secondary' = c /\ resend' = [resend EXCEPT ![c] = holdback]
      /\ UNCHANGED <<socket, chan, sup, sconn, pend>>
  BY DEF Greet, second
<1>2. back[c] \in Seq(Report)
  BY DEF Types, TypeOK
<1>3. \A d \in Conns : d # c => back'[d] = back[d] /\ resend'[d] = resend[d]
  BY <1>1 DEF Types, TypeOK
<1>4. back'[c] = Tail(back[c])
  BY <1>1 DEF Types, TypeOK
<1>5. \A i \in DOMAIN back'[c] : back'[c][i] # Hello
  <2> SUFFICES ASSUME NEW i \in DOMAIN Tail(back[c]) PROVE Tail(back[c])[i] # Hello
    BY <1>4
  <2>1. i \in 1 .. Len(back[c]) - 1 /\ Tail(back[c])[i] = back[c][i+1]
        /\ i+1 \in DOMAIN back[c] /\ i+1 # 1
    BY <1>1, <1>2, HeadTail
  <2> QED BY <2>1 DEF ConnsInv
<1>6. c <= sconn
  BY <1>1 DEF ConnsInv, Types, TypeOK, Conns
<1>7. back'[c] # << >> => back'[c][1] # Hello
  <2>1. back'[c] \in Seq(Report)
    BY <1>1, <1>2, <1>4, HeadTail
  <2> QED BY <1>5, <2>1
<1>8. (\A d \in Conns : d > sconn => back[d] = << >> /\ resend[d] = << >>)'
  <2> SUFFICES ASSUME NEW d \in Conns, d > sconn'
               PROVE  back'[d] = << >> /\ resend'[d] = << >>
    OBVIOUS
  <2>1. d # c
    BY <1>1, <1>6 DEF Types, TypeOK, Conns
  <2> QED BY <1>1, <1>3, <2>1 DEF ConnsInv
<1>9. (\A d \in Conns : \A i \in DOMAIN back[d] : back[d][i] = Hello => i = 1)'
  BY <1>3, <1>5 DEF ConnsInv
<1>10. (\A d \in Conns : back[d] # << >> /\ back[d][1] = Hello /\ d = sconn =>
          secondary # d /\ resend[d] = << >> /\ OpsIn(chan) = {})'
  <2>1. OpsIn(chan)' = OpsIn(chan)
    BY <1>1 DEF OpsIn, Members
  <2> QED BY <1>1, <1>3, <1>7, <2>1 DEF ConnsInv
<1>11. (/\ secondary <= sconn
        /\ sup => sconn # 0
        /\ \A d \in Conns : socket[d] = "open" <=> sup /\ d = sconn
        /\ ~sup => chan = << >> /\ pend = None)'
  BY <1>1, <1>6 DEF ConnsInv
<1> QED BY <1>8, <1>9, <1>10, <1>11 DEF ConnsInv

LEMMA ResendConns ==
  ASSUME Types, ConnsInv, NEW c \in Conns, Resend(c)
  PROVE  ConnsInv'
<1>1. /\ resend[c] # << >> /\ resend' = [resend EXCEPT ![c] = Tail(@)]
      /\ Send(secondary, Msg(Head(resend[c])))
      /\ UNCHANGED <<secondary, back, sup, sconn, pend>>
  BY DEF Resend, second, history
<1>2. Msg(Head(resend[c])) \in Message /\ secondary \in Conns \cup {0}
  <2>1. resend[c] \in Seq(Held)
    BY DEF Types, TypeOK
  <2>2. Head(resend[c]) \in Held
    BY <1>1, <2>1, HeadTail
  <2>3. Head(resend[c]).sq \in Nat \ {0} /\ Head(resend[c]).op \in Ops
    BY <2>2 DEF Held
  <2> QED BY <2>3, MsgTypes DEF Types, TypeOK
<1>3. /\ \A d \in Conns : socket'[d] = "open" <=> sup' /\ d = sconn'
      /\ ~sup' => chan' = << >>
      /\ OpsIn(chan') # {} => OpsIn(chan) # {} \/ secondary = sconn
  BY <1>1, <1>2, SendConns
<1>4. OpsIn(chan)' = OpsIn(chan')
  BY DEF OpsIn, Members
<1>5. \A d \in Conns : resend[d] = << >> => resend'[d] = << >>
  BY <1>1 DEF Types, TypeOK
<1> QED BY <1>1, <1>3, <1>4, <1>5 DEF ConnsInv

LEMMA ReadReportsConns ==
  ASSUME Types, ConnsInv, NEW c \in Conns, NEW k \in Upto(back[c]), ReadReports(c, k)
  PROVE  ConnsInv'
<1>1. UNCHANGED <<secondary, resend, sup, sconn, pend>> /\ back[c] # << >>
  BY DEF ReadReports, second
<1>2. /\ \A d \in Conns : socket'[d] = "open" <=> sup' /\ d = sconn'
      /\ ~sup' => chan' = << >>
      /\ OpsIn(chan') # {} => OpsIn(chan) # {}
  <2>1. CASE Send(c, Err)
    BY <1>1, <2>1, MsgTypes, SendConns
  <2>2. CASE UNCHANGED <<pup, socket, chan>>
    BY <1>1, <2>2 DEF ConnsInv
  <2> QED BY <2>1, <2>2, ReportsEffect
<1>3. OpsIn(chan)' = OpsIn(chan')
  BY DEF OpsIn, Members
<1>4. PICK q \in Seq(Report) :
        /\ back' = [back EXCEPT ![c] = q]
        /\ \A i \in DOMAIN q : q[i] # Hello \/ \E j \in DOMAIN back[c] : j # 1 /\ back[c][j] = Hello
  BY ReportsEffect
<1>5. \A d \in Conns : back'[d] = IF d = c THEN q ELSE back[d]
  BY <1>4 DEF Types, TypeOK
<1>6. \A i \in DOMAIN q : q[i] # Hello
  BY <1>4 DEF ConnsInv
<1>7. q # << >> => q[1] # Hello
  BY <1>6
<1>8. c <= sconn
  BY <1>1 DEF ConnsInv, Types, TypeOK, Conns
<1>9. (\A d \in Conns : d > sconn => back[d] = << >> /\ resend[d] = << >>)'
  <2> SUFFICES ASSUME NEW d \in Conns, d > sconn'
               PROVE  back'[d] = << >> /\ resend'[d] = << >>
    OBVIOUS
  <2>1. d # c
    BY <1>1, <1>8 DEF Types, TypeOK, Conns
  <2> QED BY <1>1, <1>5, <2>1 DEF ConnsInv
<1>10. (\A d \in Conns : \A i \in DOMAIN back[d] : back[d][i] = Hello => i = 1)'
  BY <1>5, <1>6 DEF ConnsInv
<1>11. (\A d \in Conns : back[d] # << >> /\ back[d][1] = Hello /\ d = sconn =>
          secondary # d /\ resend[d] = << >> /\ OpsIn(chan) = {})'
  BY <1>1, <1>2, <1>3, <1>5, <1>7 DEF ConnsInv
<1>12. (/\ secondary <= sconn
        /\ sup => sconn # 0
        /\ \A d \in Conns : socket[d] = "open" <=> sup /\ d = sconn
        /\ ~sup => chan = << >> /\ pend = None)'
  BY <1>1, <1>2 DEF ConnsInv
<1> QED BY <1>9, <1>10, <1>11, <1>12 DEF ConnsInv

LEMMA StartConns ==
  ASSUME Types, ConnsInv, Start
  PROVE  ConnsInv'
<1>1. /\ ~sup /\ sup' = TRUE /\ sconn' = sconn + 1 /\ sconn + 1 \in Conns
      /\ socket' = [socket EXCEPT ![sconn + 1] = "open"]
      /\ back' = [back EXCEPT ![sconn + 1] = <<Hello>>]
      /\ UNCHANGED <<secondary, resend, chan, pend>>
  BY BoundsAssumption DEF Start, primary, Types, TypeOK, Conns
<1>2. sconn \in Nat /\ secondary \in Nat /\ secondary <= sconn
      /\ secondary <= sconn' /\ secondary # sconn' /\ sconn' # 0
  BY <1>1 DEF ConnsInv, Types, TypeOK, Conns
<1>3. \A d \in Conns : back'[d] = IF d = sconn' THEN <<Hello>> ELSE back[d]
  BY <1>1 DEF Types, TypeOK
<1>4. \A d \in Conns : socket'[d] = IF d = sconn' THEN "open" ELSE socket[d]
  BY <1>1 DEF Types, TypeOK
<1>5. (\A d \in Conns : socket[d] = "open" <=> sup /\ d = sconn)'
  BY <1>1, <1>4 DEF ConnsInv
<1>6. (\A d \in Conns : d > sconn => back[d] = << >> /\ resend[d] = << >>)'
  <2> SUFFICES ASSUME NEW d \in Conns, d > sconn'
               PROVE  back'[d] = << >> /\ resend'[d] = << >>
    OBVIOUS
  <2>1. d > sconn /\ d # sconn'
    BY <1>1, <1>2 DEF Conns
  <2> QED BY <1>1, <1>3, <2>1 DEF ConnsInv
<1>7. (\A d \in Conns : \A i \in DOMAIN back[d] : back[d][i] = Hello => i = 1)'
  BY <1>3 DEF ConnsInv
<1>8. resend'[sconn'] = << >>
  BY <1>1, <1>2 DEF ConnsInv
<1>9. OpsIn(chan)' = {}
  BY <1>1 DEF ConnsInv, OpsIn, Members
<1> QED BY <1>1, <1>2, <1>5, <1>6, <1>7, <1>8, <1>9 DEF ConnsInv

LEMMA DieConns ==
  ASSUME Types, ConnsInv, pup /\ sup /\ Die
  PROVE  ConnsInv'
<1>1. /\ sup /\ sup' = FALSE /\ chan' = << >> /\ pend' = None
      /\ UNCHANGED <<secondary, resend, sconn>>
  BY DEF Die, primary
<1>2. PICK s \in {"closed", "reset"} : socket' = [socket EXCEPT ![sconn] = s]
  BY DEF Die
<1>3. PICK k \in 0 .. Len(back[sconn]) : back' = [back EXCEPT ![sconn] = Batch(back[sconn], k)]
  BY DEF Die
<1>4. sconn \in Conns /\ back[sconn] \in Seq(Report)
  BY <1>1 DEF ConnsInv, Types, TypeOK
<1>5. \A d \in Conns : back'[d] = IF d = sconn THEN Batch(back[sconn], k) ELSE back[d]
  BY <1>3 DEF Types, TypeOK
<1>6. \A i \in DOMAIN Batch(back[sconn], k) :
         i \in DOMAIN back[sconn] /\ Batch(back[sconn], k)[i] = back[sconn][i]
  <2> SUFFICES ASSUME NEW i \in DOMAIN Batch(back[sconn], k)
               PROVE  i \in DOMAIN back[sconn] /\ Batch(back[sconn], k)[i] = back[sconn][i]
    OBVIOUS
  <2>1. i \in 1 .. k
    BY <1>4, BatchType
  <2> QED BY <1>4, <2>1, BatchAt
<1>7. Batch(back[sconn], k) # << >> => 1 \in DOMAIN Batch(back[sconn], k)
  <2>1. Batch(back[sconn], k) \in Seq(Report)
    BY <1>4, BatchType
  <2> QED BY <2>1
<1>8. (\A d \in Conns : socket[d] = "open" <=> sup /\ d = sconn)'
  BY <1>1, <1>2 DEF ConnsInv, Types, TypeOK
<1>9. (\A d \in Conns : d > sconn => back[d] = << >> /\ resend[d] = << >>)'
  BY <1>1, <1>5, <1>4 DEF ConnsInv, Conns
<1>10. (\A d \in Conns : \A i \in DOMAIN back[d] : back[d][i] = Hello => i = 1)'
  BY <1>4, <1>5, <1>6 DEF ConnsInv
<1>11. (\A d \in Conns : back[d] # << >> /\ back[d][1] = Hello /\ d = sconn =>
          secondary # d /\ resend[d] = << >> /\ OpsIn(chan) = {})'
  <2>1. OpsIn(chan)' = {}
    BY <1>1 DEF OpsIn, Members
  <2>2. ASSUME back'[sconn] # << >>, back'[sconn][1] = Hello
        PROVE  back[sconn] # << >> /\ back[sconn][1] = Hello
    BY <1>4, <1>5, <1>6, <1>7, <2>2
  <2> QED BY <1>1, <1>4, <2>1, <2>2 DEF ConnsInv
<1> QED BY <1>1, <1>8, <1>9, <1>10, <1>11 DEF ConnsInv

LEMMA ReceiveConns ==
  ASSUME Types, ConnsInv, NEW k \in Upto(chan), Receive(k)
  PROVE  ConnsInv'
<1>1. PICK f : Received(k, f)
  BY ReceiveEffect
<1>2. /\ UNCHANGED <<secondary, resend, socket, sup, sconn>> /\ sup
      /\ chan' = Rest(chan, k) /\ f \in 1 .. k /\ k \in 1 .. Len(chan) /\ chan[f] \in OpMsgs
  BY <1>1 DEF Received, primary
<1>3. PICK r \in {<<Err>>, << >>, <<Done(Number(f))>>} : back' = [back EXCEPT ![sconn] = @ \o r]
  BY <1>1 DEF Received
<1>4. sconn \in Conns /\ back[sconn] \in Seq(Report)
  BY <1>2 DEF ConnsInv, Types, TypeOK
<1>5. \A d \in Conns : back'[d] = IF d = sconn THEN back[sconn] \o r ELSE back[d]
  BY <1>3 DEF Types, TypeOK
<1>6. chan[f] \in OpsIn(chan)
  BY <1>2 DEF OpsIn, Members, Types, TypeOK
<1>7. back[sconn] # << >> => back[sconn][1] # Hello
  BY <1>4, <1>6 DEF ConnsInv
<1>8. \A i \in DOMAIN back[sconn] : back[sconn][i] # Hello
  BY <1>4, <1>7 DEF ConnsInv
<1>9. \A i \in DOMAIN r : r[i] # Hello
  BY MsgTypes
<1>10. \A i \in DOMAIN (back[sconn] \o r) : (back[sconn] \o r)[i] # Hello
  <2>1. CASE r = << >>
    BY <1>4, <1>8, <2>1
  <2>2. ASSUME NEW x, x # Hello, r = <<x>>
        PROVE  \A i \in DOMAIN (back[sconn] \o r) : (back[sconn] \o r)[i] # Hello
    <3>1. back[sconn] \o <<x>> = Append(back[sconn], x)
      BY <1>4
    <3> QED BY <1>4, <1>8, <2>2, <3>1
  <2> QED BY <2>1, <2>2, MsgTypes
<1>11. (\A d \in Conns : \A i \in DOMAIN back[d] : back[d][i] = Hello => i = 1)'
  BY <1>5, <1>10 DEF ConnsInv
<1>12. back'[sconn] # << >> => back'[sconn][1] # Hello
  <2>1. back'[sconn] = back[sconn] \o r
    BY <1>4, <1>5
  <2>2. Len(back[sconn] \o r) \in Nat /\ DOMAIN (back[sconn] \o r) = 1 .. Len(back[sconn] \o r)
        /\ (back[sconn] \o r # << >> => Len(back[sconn] \o r) # 0)
    BY <1>4
  <2> QED BY <1>10, <2>1, <2>2
<1>13. (\A d \in Conns : d > sconn => back[d] = << >> /\ resend[d] = << >>)'
  BY <1>2, <1>4, <1>5 DEF ConnsInv, Conns
<1> QED BY <1>2, <1>11, <1>12, <1>13 DEF ConnsInv

LEMMA NextConns == Types /\ ConnsInv /\ [Next]_vars => ConnsInv'
<1> SUFFICES ASSUME Types, ConnsInv, [Next]_vars PROVE ConnsInv'
  OBVIOUS
<1> DEFINE P == ConnsInv'
<1>1. \A w \in Workers, op \in Ops : Serve(w, op) => P
  BY ConnsSame DEF Serve, net, second
<1>2. \A w \in Workers : (ReadSeq(w) => P) /\ (StoreSeq(w) => P) /\ (Hold(w) => P)
  BY ConnsSame DEF ReadSeq, StoreSeq, Hold, net, second
<1>3. \A w \in Workers : SendOut(w) => P
  BY SendOutConns
<1>4. \A c \in Conns : Greet(c) => P
  BY GreetConns
<1>5. \A c \in Conns : Resend(c) => P
  BY ResendConns
<1>6. \A c \in Conns : \A k \in Upto(back[c]) : ReadReports(c, k) => P
  BY ReadReportsConns
<1>7. Start => P
  BY StartConns
<1>8. pup /\ sup /\ Die => P
  BY DieConns
<1>9. \A k \in Upto(chan) : Receive(k) => P
  BY ReceiveConns
<1>10. Log => P
  <2> SUFFICES ASSUME Log PROVE ConnsInv'
    OBVIOUS
  <2>1. UNCHANGED <<secondary, resend, socket, chan, back, sup, sconn>> /\ sup
    BY DEF Log, primary, net
  <2>2. OpsIn(chan)' = OpsIn(chan)
    BY <2>1 DEF OpsIn, Members
  <2> QED BY <2>1, <2>2 DEF ConnsInv
<1>11. Flip => P
  BY ConnsSame DEF Flip, primary, net
<1>12. UNCHANGED vars => P
  BY ConnsSame DEF vars, primary, net, second
<1> HIDE DEF P
<1>13. P
  BY <1>1, <1>2, <1>3, <1>4, <1>5, <1>6, <1>7, <1>8, <1>9, <1>10, <1>11, <1>12, NextCases
<1> QED BY <1>13 DEF P

LEMMA InitConns == Init => ConnsInv
BY BoundsAssumption DEF Init, ConnsInv, Conns, OpsIn, Members

-----------------------------------------------------------------------------
(***************************************************************************)
(* What stays when a step leaves the requests of the primary alone.        *)
(***************************************************************************)
LEMMA Unreported ==
  ASSUME \A c \in Conns : Members(back'[c]) \subseteq Members(back[c])
  PROVE  \A n \in Nat : Reported(n)' => Reported(n)
BY DEF Reported, Members

LEMMA HeldTypes ==
  ASSUME Types
  PROVE  /\ holdback \in Seq(Held)
         /\ \A i \in DOMAIN holdback : /\ holdback[i] \in Held /\ holdback[i].op \in Ops
                                       /\ holdback[i].sq \in Nat \ {0}
         /\ todo \subseteq Ops /\ \A w \in Unheld : pw[w].op \in Ops
<1>1. holdback \in Seq(Held)
  BY DEF Types, TypeOK
<1>2. ASSUME NEW i \in DOMAIN holdback
      PROVE  holdback[i] \in Held /\ holdback[i].op \in Ops /\ holdback[i].sq \in Nat \ {0}
  <2>1. holdback[i] \in Held
    BY <1>1
  <2> QED BY <2>1 DEF Held
<1>3. todo \subseteq Ops /\ \A w \in Unheld : pw[w].op \in Ops
  BY PwRecord DEF Types, TypeOK, Unheld, InStages
<1> QED BY <1>1, <1>2, <1>3

LEMMA OrderKept ==
  ASSUME Types, OrderInv, UNCHANGED <<todo, pw, seqnum, holdback>>,
         \A n \in Nat : Reported(n)' => Reported(n),
         \A op \in Ops : HasRun(op)' <=> HasRun(op)
  PROVE  OrderInv'
<1>0. /\ todo \subseteq Ops /\ \A w \in Unheld : pw[w].op \in Ops
      /\ \A i \in DOMAIN holdback : holdback[i].op \in Ops
  BY HeldTypes
<1>1. /\ Unheld' = Unheld
      /\ \A S : InStages(S)' = InStages(S)
      /\ \A op : (IsHeld(op)' <=> IsHeld(op)) /\ (AtWork(op)' <=> AtWork(op))
  BY DEF Unheld, InStages, IsHeld, AtWork
<1>2. (\A op \in todo : ~HasRun(op) /\ ~IsHeld(op) /\ ~AtWork(op))'
  BY <1>0, <1>1 DEF OrderInv
<1>3. (\A w \in Unheld : ~HasRun(pw[w].op) /\ ~IsHeld(pw[w].op))'
  BY <1>0, <1>1 DEF OrderInv
<1>4. (\A n \in Nat : Reported(n) =>
         /\ n <= seqnum
         /\ InStages({"hold"}) # {} => n < seqnum
         /\ \A i \in DOMAIN holdback : holdback[i].sq = n => HasRun(holdback[i].op))'
  BY <1>0, <1>1 DEF OrderInv
<1>5. (/\ \A i, j \in DOMAIN holdback :
            i < j => holdback[i].sq < holdback[j].sq /\ holdback[i].op # holdback[j].op
       /\ \A i \in DOMAIN holdback : holdback[i].sq <= seqnum
       /\ \A w \in InStages({"store"}) : pw[w].sq = seqnum + 1
       /\ \A w \in InStages({"hold"}) :
            pw[w].sq = seqnum /\ \A i \in DOMAIN holdback : holdback[i].sq < seqnum
       /\ \A w \in InStages({"send"}) :
            holdback # <<>> /\ holdback[Len(holdback)] = AsHeld(pw[w]))'
  BY <1>1 DEF OrderInv, AsHeld
<1> QED BY <1>2, <1>3, <1>4, <1>5 DEF OrderInv

LEMMA RunKept ==
  ASSUME Types, NEW k, RunInv(k), UNCHANGED <<content, pw, holdback>>, Applied' = Applied,
         \A op \in Ops : HasRun(op)' <=> HasRun(op)
  PROVE  RunInv(k)'
<1>1. Unheld' = Unheld /\ Lacks(k)' = Lacks(k)
  BY DEF Unheld, InStages, Lacks
<1>2. \A rest \in Seq(Ops) : Lacking(k, rest) => Lacking(k, rest)'
  BY <1>1 DEF Lacking
<1>3. \A i \in DOMAIN holdback : holdback[i].op \in Ops
  BY HeldTypes
<1> QED BY <1>2, <1>3 DEF RunInv

\* One worker at a time: which are the stages in use before and after it moves.
LEMMA AloneIn ==
  ASSUME Types, NEW w \in Workers, NEW r, pw' = [pw EXCEPT ![w] = r],
         \A v \in Workers \ {w} : pw[v].at = "idle", NEW S, "idle" \notin S
  PROVE  /\ InStages(S) = IF pw[w].at \in S THEN {w} ELSE {}
         /\ InStages(S)' = IF r.at \in S THEN {w} ELSE {}
BY DEF InStages, Types, TypeOK

LEMMA Alone ==
  ASSUME Types, NEW w \in Workers, NEW r, pw' = [pw EXCEPT ![w] = r],
         \A v \in Workers \ {w} : pw[v].at = "idle"
  PROVE  /\ pw'[w] = r /\ \A v \in Workers \ {w} : pw'[v] = pw[v]
         /\ Unheld = IF pw[w].at \in {"read", "store", "hold"} THEN {w} ELSE {}
         /\ Unheld' = IF r.at \in {"read", "store", "hold"} THEN {w} ELSE {}
         /\ \A s \in {"store", "hold", "send"} :
              /\ InStages({s}) = IF pw[w].at = s THEN {w} ELSE {}
              /\ InStages({s})' = IF r.at = s THEN {w} ELSE {}
         /\ \A u, v \in InFlight' : u = v
<1>1. pw'[w] = r /\ \A v \in Workers \ {w} : pw'[v] = pw[v]
  BY DEF Types, TypeOK
<1>2. /\ Unheld = IF pw[w].at \in {"read", "store", "hold"} THEN {w} ELSE {}
      /\ Unheld' = IF r.at \in {"read", "store", "hold"} THEN {w} ELSE {}
  <2> DEFINE S == {"read", "store", "hold"}
  <2>1. "idle" \notin S
    OBVIOUS
  <2> HIDE DEF S
  <2>2. /\ InStages(S) = IF pw[w].at \in S THEN {w} ELSE {}
        /\ InStages(S)' = IF r.at \in S THEN {w} ELSE {}
    BY <2>1, AloneIn
  <2> QED BY <2>2 DEF Unheld, S
<1>3. ASSUME NEW s \in {"store", "hold", "send"}
      PROVE  /\ InStages({s}) = IF pw[w].at = s THEN {w} ELSE {}
             /\ InStages({s})' = IF r.at = s THEN {w} ELSE {}
  <2>1. /\ InStages({s}) = IF pw[w].at \in {s} THEN {w} ELSE {}
        /\ InStages({s})' = IF r.at \in {s} THEN {w} ELSE {}
    BY AloneIn
  <2> QED BY <2>1
<1>4. \A u, v \in InFlight' : u = v
  BY <1>1 DEF InFlight
<1> QED BY <1>1, <1>2, <1>3, <1>4

\* The send of a request on the last connection, or on none that is open.
LEMMA SendWay ==
  ASSUME Types, ConnsInv, NEW m \in OpMsgs, Send(secondary, m)
  PROVE  /\ sup /\ secondary = sconn => UnderWay' = Append(UnderWay, m)
         /\ ~(sup /\ secondary = sconn) => UnderWay' = UnderWay
         /\ UnderWay \in Seq(Message)
<1>1. /\ chan \in Seq(Message) /\ m \in Message
      /\ secondary \in Conns \cup {0} /\ sconn \in Conns \cup {0}
  BY MsgTypes DEF Types, TypeOK
<1>2. /\ chan' = chan \/ (chan' = Append(chan, m) /\ secondary # 0 /\ socket[secondary] = "open")
      /\ secondary # 0 /\ socket[secondary] = "open" => chan' = Append(chan, m)
  BY <1>1, SendEffect
<1>3. secondary # 0 /\ socket[secondary] = "open" <=> sup /\ secondary = sconn
  BY <1>1 DEF ConnsInv
<1>4. Keep(Append(chan, m), OpMsgs) = Append(Keep(chan, OpMsgs), m)
  BY <1>1, KeepAppend
<1>5. Keep(chan, OpMsgs) \in Seq(Message)
  BY <1>1, KeepConcat
<1>6. UnderWay' = Keep(chan', OpMsgs)
  BY DEF UnderWay
<1>7. CASE sup /\ secondary = sconn
  BY <1>2, <1>3, <1>4, <1>5, <1>6, <1>7 DEF UnderWay
<1>8. CASE ~(sup /\ secondary = sconn)
  BY <1>2, <1>3, <1>5, <1>6, <1>8 DEF UnderWay
<1> QED BY <1>7, <1>8

\* An error on its way to the secondary is no request.
LEMMA ErrWay ==
  ASSUME Types, NEW c \in Conns, Send(c, Err) \/ UNCHANGED chan
  PROVE  UnderWay' = UnderWay
<1>1. chan \in Seq(Message) /\ Err \in Message /\ Err \notin OpMsgs
  BY MsgTypes DEF Types, TypeOK
<1>2. chan' = chan \/ chan' = Append(chan, Err)
  BY <1>1, SendEffect
<1>3. Keep(Append(chan, Err), OpMsgs) = Keep(chan, OpMsgs)
  BY <1>1, KeepAppend
<1> QED BY <1>2, <1>3 DEF UnderWay

-----------------------------------------------------------------------------
(***************************************************************************)
(* The steps that leave the requests of the primary alone.                 *)
(***************************************************************************)
\* As far as this goes, nothing changes: messages may, and reports may be read.
LEMMA ReportStep ==
  ASSUME Types, Stepping, holdback' = holdback, UnderWay' = UnderWay,
         \A n \in Nat : Reported(n)' => Reported(n),
         UNCHANGED <<todo, content, pw, seqnum, secondary, resend, sup, sconn, scontent,
                     pend, slog>>
  PROVE  Stepping'
<1>1. PICK k \in 0 .. Len(holdback) : StepInv(k)
  BY DEF Stepping
<1>2. /\ \A op \in Ops : HasRun(op)' <=> HasRun(op)
      /\ Applied' = Applied /\ InStages({"send"})' = InStages({"send"}) /\ Lacks(k)' = Lacks(k)
  BY DEF HasRun, Applied, InStages, Lacks
<1>3. OneAtATime'
  BY DEF Stepping, OneAtATime, InFlight
<1>4. OrderInv'
  BY <1>2, OrderKept DEF Stepping
<1>5. RunInv(k)'
  BY <1>1, <1>2, RunKept DEF StepInv
<1>6. (FileInv /\ Comes(k) /\ (sup /\ secondary = sconn => ComesAll(k)))'
  BY <1>1, <1>2 DEF StepInv, FileInv, Comes, ComesAll
<1> QED BY <1>3, <1>4, <1>5, <1>6 DEF StepInv, Stepping

LEMMA NothingChanges ==
  ASSUME Types, Stepping,
         UNCHANGED <<todo, content, pw, seqnum, holdback, secondary, resend, chan, back,
                     sup, sconn, scontent, pend, slog>>
  PROVE  Stepping'
<1>1. UnderWay' = UnderWay /\ \A n \in Nat : Reported(n)' => Reported(n)
  BY DEF UnderWay, Reported, Members
<1> QED BY <1>1, ReportStep

LEMMA LogStep ==
  ASSUME Types, Stepping, Log
  PROVE  Stepping'
<1>1. PICK k \in 0 .. Len(holdback) : StepInv(k)
  BY DEF Stepping
<1>2. /\ pend # None /\ slog' = Append(slog, pend) /\ pend' = None /\ pend \in Ops
      /\ UNCHANGED <<todo, content, pw, seqnum, holdback, secondary, resend, chan, back,
                     sup, sconn, scontent>>
  BY DEF Log, primary, net, Types, TypeOK
<1>3. ASSUME NEW op \in Ops PROVE HasRun(op)' <=> HasRun(op)
  <2>1. slog \in Seq(Ops) /\ op # None
    BY OpsAssumption DEF Types, TypeOK
  <2>2. DOMAIN slog' = DOMAIN slog \cup {Len(slog) + 1} /\ slog'[Len(slog) + 1] = pend
        /\ \A i \in DOMAIN slog : slog'[i] = slog[i]
    BY <1>2, <2>1
  <2> QED BY <1>2, <2>1, <2>2 DEF HasRun
<1>4. /\ \A n \in Nat : Reported(n)' => Reported(n)
      /\ Applied' = Applied /\ UnderWay' = UnderWay /\ InStages({"send"})' = InStages({"send"})
      /\ Lacks(k)' = Lacks(k)
  BY <1>2 DEF Reported, Members, Applied, UnderWay, InStages, Lacks
<1>5. OneAtATime'
  BY <1>2 DEF Stepping, OneAtATime, InFlight
<1>6. OrderInv'
  BY <1>2, <1>3, <1>4, OrderKept DEF Stepping
<1>7. RunInv(k)'
  BY <1>1, <1>2, <1>3, <1>4, RunKept DEF StepInv
<1>8. (FileInv /\ Comes(k) /\ (sup /\ secondary = sconn => ComesAll(k)))'
  BY <1>1, <1>2, <1>4 DEF StepInv, FileInv, Comes, ComesAll
<1> QED BY <1>2, <1>5, <1>6, <1>7, <1>8 DEF StepInv, Stepping

LEMMA StartStep ==
  ASSUME Types, ConnsInv, Stepping, Start
  PROVE  Stepping'
<1>1. PICK k \in 0 .. Len(holdback) : StepInv(k)
  BY DEF Stepping
<1>2. /\ ~sup /\ sconn' = sconn + 1 /\ scontent' = DoAll(<<>>, slog)
      /\ back' = [back EXCEPT ![sconn + 1] = <<Hello>>]
      /\ UNCHANGED <<todo, content, pw, seqnum, holdback, secondary, resend, chan, pend, slog>>
  BY DEF Start, primary
<1>3. pend = None
  BY <1>2 DEF ConnsInv
<1>4. /\ \A op \in Ops : HasRun(op)' <=> HasRun(op)
      /\ Applied' = Applied /\ UnderWay' = UnderWay /\ InStages({"send"})' = InStages({"send"})
      /\ Lacks(k)' = Lacks(k) /\ Applied' = slog
  BY <1>2, <1>3 DEF HasRun, Applied, UnderWay, InStages, Lacks
<1>5. \A n \in Nat : Reported(n)' => Reported(n)
  <2> SUFFICES ASSUME NEW n \in Nat, NEW c \in Conns, Done(n) \in Members(back'[c])
               PROVE  Done(n) \in Members(back[c])
    BY DEF Reported
  <2>1. Done(n) \notin Members(<<Hello>>)
    <3>1. \A i \in DOMAIN <<Hello>> : <<Hello>>[i] = Hello
      OBVIOUS
    <3> QED BY <3>1, MsgTypes DEF Members
  <2>2. back'[c] = back[c] \/ back'[c] = <<Hello>>
    BY <1>2 DEF Types, TypeOK
  <2> QED BY <2>1, <2>2
<1>6. OneAtATime'
  BY <1>2 DEF Stepping, OneAtATime, InFlight
<1>7. OrderInv'
  BY <1>2, <1>4, <1>5, OrderKept DEF Stepping
<1>8. RunInv(k)'
  BY <1>1, <1>2, <1>4, RunKept DEF StepInv
<1>9. FileInv' /\ Comes(k)'
  BY <1>1, <1>2, <1>4 DEF StepInv, FileInv, Comes
<1>10. secondary' # sconn'
  BY <1>2 DEF ConnsInv, Types, TypeOK, Conns
<1> QED BY <1>2, <1>6, <1>7, <1>8, <1>9, <1>10 DEF StepInv, Stepping

LEMMA DieStep ==
  ASSUME Types, ConnsInv, Stepping, pup /\ sup /\ Die, Calm'
  PROVE  Stepping'
<1>1. PICK k \in 0 .. Len(holdback) : StepInv(k)
  BY DEF Stepping
<1>2. /\ sup' = FALSE /\ chan' = <<>> /\ pend' = None /\ astray' = (astray \/ pend # None)
      /\ UNCHANGED <<todo, content, pw, seqnum, holdback, secondary, resend, slog>>
  BY DEF Die, primary
<1>3. pend = None
  BY <1>2 DEF Calm
<1>4. /\ \A op \in Ops : HasRun(op)' <=> HasRun(op)
      /\ Applied' = Applied /\ InStages({"send"})' = InStages({"send"})
      /\ Lacks(k)' = Lacks(k)
  BY <1>2, <1>3 DEF HasRun, Applied, InStages, Lacks
<1>5. \A n \in Nat : Reported(n)' => Reported(n)
  <2>1. PICK m \in 0 .. Len(back[sconn]) : back' = [back EXCEPT ![sconn] = Batch(back[sconn], m)]
    BY DEF Die
  <2>2. sconn \in Conns /\ back[sconn] \in Seq(Report)
    BY DEF ConnsInv, Types, TypeOK
  <2>3. Members(Batch(back[sconn], m)) \subseteq Members(back[sconn])
    BY <2>2, BatchMembers
  <2>4. \A c \in Conns : back'[c] = IF c = sconn THEN Batch(back[sconn], m) ELSE back[c]
    BY <2>1 DEF Types, TypeOK
  <2>5. \A c \in Conns : Members(back'[c]) \subseteq Members(back[c])
    BY <2>3, <2>4
  <2> QED BY <2>5, Unreported
<1>6. OneAtATime'
  BY <1>2 DEF Stepping, OneAtATime, InFlight
<1>7. OrderInv'
  BY <1>2, <1>4, <1>5, OrderKept DEF Stepping
<1>8. RunInv(k)'
  BY <1>1, <1>2, <1>4, RunKept DEF StepInv
<1>9. UnderWay' = <<>> /\ UnderWay \in Seq(Message)
  BY <1>2, KeepEmpty, KeepConcat DEF UnderWay, Types, TypeOK
<1>10. Comes(k)'
  <2>1. Len(UnderWay) \in Nat /\ Len(UnderWay') = 0 /\ DOMAIN UnderWay' = {}
    BY <1>9
  <2>2. Lacks(k) \in Int /\ Count(InStages({"send"})) \in Nat
    BY HeldTypes DEF Lacks, Count
  <2>3. Len(UnderWay) + Count(InStages({"send"})) <= Lacks(k)
    BY <1>1 DEF StepInv, Comes
  <2>4. Count(InStages({"send"})) <= Lacks(k)
    BY <2>1, <2>2, <2>3
  <2> QED BY <1>4, <2>1, <2>2, <2>4 DEF Comes
<1> QED BY <1>2, <1>6, <1>7, <1>8, <1>10 DEF StepInv, Stepping, FileInv

LEMMA GreetStep ==
  ASSUME Types, ConnsInv, Stepping, NEW c \in Conns, Greet(c), Calm'
  PROVE  Stepping'
<1>1. PICK k \in 0 .. Len(holdback) : StepInv(k)
  BY DEF Stepping
<1>2. /\ back[c] # <<>> /\ back' = [back EXCEPT ![c] = Tail(@)] /\ Head(back[c]) = Hello
      /\ secondary' = c /\ resend' = [resend EXCEPT ![c] = holdback]
      /\ astray' = (astray \/ GoesAstray)
      /\ UNCHANGED <<todo, content, pw, seqnum, holdback, chan, sup, sconn, scontent, pend, slog>>
  BY DEF Greet, second
<1>3. /\ InFlight = {} /\ \A d \in Conns : resend[d] = <<>>
      /\ \A i \in DOMAIN holdback : ~HasRun(holdback[i].op)
  BY <1>2 DEF Calm, GoesAstray, Resending
<1>4. /\ \A op \in Ops : HasRun(op)' <=> HasRun(op)
      /\ Applied' = Applied /\ UnderWay' = UnderWay /\ InStages({"send"})' = InStages({"send"})
      /\ Lacks(k)' = Lacks(k) /\ InStages({"send"}) = {}
  BY <1>2, <1>3 DEF HasRun, Applied, UnderWay, InStages, Lacks, InFlight
<1>5. \A n \in Nat : Reported(n)' => Reported(n)
  <2>1. \A d \in Conns : back'[d] = back[d] \/ (d = c /\ back'[d] = Tail(back[d]))
    BY <1>2 DEF Types, TypeOK
  <2>2. Members(Tail(back[c])) \subseteq Members(back[c])
    <3>1. back[c] \in Seq(Report)
      BY DEF Types, TypeOK
    <3> SUFFICES ASSUME NEW i \in DOMAIN Tail(back[c]) PROVE Tail(back[c])[i] \in Members(back[c])
      BY DEF Members
    <3>2. i \in 1 .. Len(back[c]) - 1 /\ Tail(back[c])[i] = back[c][i+1] /\ i+1 \in DOMAIN back[c]
      BY <1>2, <3>1, HeadTail
    <3> QED BY <3>2 DEF Members
  <2>3. \A d \in Conns : Members(back'[d]) \subseteq Members(back[d])
    BY <2>1, <2>2
  <2> QED BY <2>3, Unreported
<1>6. OneAtATime'
  BY <1>2, <1>3 DEF Stepping, OneAtATime, InFlight, Types, TypeOK
<1>7. OrderInv'
  BY <1>2, <1>4, <1>5, OrderKept DEF Stepping
<1>8. RunInv(k)'
  BY <1>1, <1>2, <1>4, RunKept DEF StepInv
<1>9. FileInv' /\ Comes(k)'
  BY <1>1, <1>2, <1>4 DEF StepInv, FileInv, Comes
<1>10. k = 0
  <2>1. k # 0 => 1 \in DOMAIN holdback
    BY HeldTypes
  <2>2. k # 0 => HasRun(holdback[1].op)
    BY <1>1, <2>1 DEF StepInv, RunInv
  <2> QED BY <1>3, <2>1, <2>2
<1>11. ASSUME sup, c = sconn PROVE ComesAll(k)'
  <2>1. OpsIn(chan) = {}
    <3>1. back[c] # <<>> /\ back[c][1] = Hello
      BY <1>2, HeadTail DEF Types, TypeOK
    <3> QED BY <1>11, <3>1 DEF ConnsInv
  <2>2. UnderWay = <<>>
    <3>1. chan \in Seq(Message) /\ Members(chan) \cap OpMsgs = {}
      BY <2>1 DEF OpsIn, Types, TypeOK
    <3> QED BY <3>1, KeepNone DEF UnderWay
  <2>3. resend'[sconn'] = holdback /\ Len(UnderWay') = 0
    BY <1>2, <1>4, <1>11, <2>2 DEF Types, TypeOK
  <2>4. Len(holdback) \in Nat /\ \A i \in DOMAIN holdback : holdback[i] = holdback[k+0+i]
    <3>1. Len(holdback) \in Nat /\ \A i \in DOMAIN holdback : i \in Int
      BY HeldTypes
    <3>2. \A i \in DOMAIN holdback : k+0+i = i
      BY <1>10, <3>1
    <3> QED BY <3>1, <3>2
  <2>5. 0 + Len(resend'[sconn']) + Count(InStages({"send"})') = Lacks(k)'
    <3>1. Lacks(k)' = Lacks(k) /\ Lacks(k) = Len(holdback) /\ Count(InStages({"send"})') = 0
      BY <1>4, <1>10, <2>4 DEF Lacks, Count
    <3> QED BY <2>3, <2>4, <3>1
  <2>6. \A i \in DOMAIN resend'[sconn'] : resend'[sconn'][i] = holdback'[k+0+i]
    BY <1>2, <2>3, <2>4
  <2> QED BY <2>3, <2>5, <2>6 DEF ComesAll
<1>12. (sup /\ secondary = sconn => ComesAll(k))'
  BY <1>2, <1>11
<1>13. StepInv(k)' /\ k \in 0 .. Len(holdback')
  BY <1>2, <1>8, <1>9, <1>12 DEF StepInv
<1> QED BY <1>6, <1>7, <1>13 DEF Stepping

-----------------------------------------------------------------------------
(***************************************************************************)
(* The steps of the workers.                                               *)
(***************************************************************************)
LEMMA SameNumbers ==
  ASSUME Types, OrderInv, UNCHANGED <<holdback, back, pend, slog>>, seqnum' \in Nat,
         seqnum' >= seqnum,
         \A w \in Unheld' : pw'[w].op \in Ops /\ ~HasRun(pw'[w].op) /\ ~IsHeld(pw'[w].op),
         \A op \in todo' : op \in todo /\ ~AtWork(op)',
         \A w \in InStages({"store"})' : pw'[w].sq = seqnum' + 1,
         \A w \in InStages({"hold"})' : pw'[w].sq = seqnum' /\ seqnum' = seqnum + 1,
         InStages({"send"})' = {}
  PROVE  OrderInv'
<1>0. /\ holdback \in Seq(Held) /\ seqnum \in Nat
      /\ \A i \in DOMAIN holdback : holdback[i].sq \in Nat /\ holdback[i].sq <= seqnum
  BY HeldTypes DEF OrderInv, Types, TypeOK
<1>1. \A op : (HasRun(op)' <=> HasRun(op)) /\ (IsHeld(op)' <=> IsHeld(op))
  BY DEF HasRun, IsHeld
<1>2. \A n \in Nat : Reported(n)' <=> Reported(n)
  BY DEF Reported, Members
<1>3. (\A op \in todo : ~HasRun(op) /\ ~IsHeld(op) /\ ~AtWork(op))'
  BY <1>1 DEF OrderInv
<1>4. (\A w \in Unheld : ~HasRun(pw[w].op) /\ ~IsHeld(pw[w].op))'
  BY <1>1
<1>5. (\A i, j \in DOMAIN holdback :
         i < j => holdback[i].sq < holdback[j].sq /\ holdback[i].op # holdback[j].op)'
  BY DEF OrderInv
<1>6. (\A i \in DOMAIN holdback : holdback[i].sq <= seqnum)'
  BY <1>0
<1>7. (\A w \in InStages({"hold"}) :
         pw[w].sq = seqnum /\ \A i \in DOMAIN holdback : holdback[i].sq < seqnum)'
  BY <1>0
<1>8. ASSUME NEW n \in Nat, Reported(n)'
      PROVE  (/\ n <= seqnum
              /\ InStages({"hold"}) # {} => n < seqnum
              /\ \A i \in DOMAIN holdback : holdback[i].sq = n => HasRun(holdback[i].op))'
  <2>1. n <= seqnum /\ \A i \in DOMAIN holdback : holdback[i].sq = n => HasRun(holdback[i].op)
    BY <1>2, <1>8 DEF OrderInv
  <2>2. n <= seqnum' /\ (InStages({"hold"})' # {} => n < seqnum')
    BY <1>0, <2>1
  <2> QED BY <1>1, <2>1, <2>2
<1>9. (\A n \in Nat : Reported(n) =>
         /\ n <= seqnum
         /\ InStages({"hold"}) # {} => n < seqnum
         /\ \A i \in DOMAIN holdback : holdback[i].sq = n => HasRun(holdback[i].op))'
  BY <1>8
<1> QED BY <1>3, <1>4, <1>5, <1>6, <1>7, <1>9 DEF OrderInv

LEMMA ServeStep ==
  ASSUME Types, Stepping, NEW w \in Workers, NEW op \in Ops, Serve(w, op), Calm'
  PROVE  Stepping'
<1> DEFINE r == [at |-> "read", op |-> op, sq |-> 0]
<1>1. PICK k \in 0 .. Len(holdback) : StepInv(k)
  BY DEF Stepping
<1>2. /\ op \in todo /\ todo' = todo \ {op} /\ content' = Do(content, op)
      /\ pw' = [pw EXCEPT ![w] = r] /\ pw[w].at = "idle"
      /\ astray' = (astray \/ InFlight # {})
      /\ UNCHANGED <<seqnum, holdback, secondary, resend, chan, back, sup, sconn, scontent,
                     pend, slog>>
  BY DEF Serve, net, second
<1>3. r.at = "read" /\ r.op = op
  OBVIOUS
<1>4. InFlight = {} /\ \A v \in Workers : pw[v].at = "idle"
  BY <1>2 DEF Calm, InFlight
<1> HIDE DEF r
<1>5. /\ pw'[w] = r /\ \A v \in Workers \ {w} : pw'[v] = pw[v]
      /\ Unheld = {} /\ Unheld' = {w}
      /\ InStages({"store"})' = {} /\ InStages({"hold"})' = {}
      /\ InStages({"send"}) = {} /\ InStages({"send"})' = {}
      /\ \A u, v \in InFlight' : u = v
  <2>1. /\ pw'[w] = r /\ \A v \in Workers \ {w} : pw'[v] = pw[v]
        /\ Unheld = IF pw[w].at \in {"read", "store", "hold"} THEN {w} ELSE {}
        /\ Unheld' = IF r.at \in {"read", "store", "hold"} THEN {w} ELSE {}
        /\ \A s \in {"store", "hold", "send"} :
             /\ InStages({s}) = IF pw[w].at = s THEN {w} ELSE {}
             /\ InStages({s})' = IF r.at = s THEN {w} ELSE {}
        /\ \A u, v \in InFlight' : u = v
    BY <1>2, <1>4, Alone
  <2> QED BY <2>1, <1>2, <1>3
<1>6. OneAtATime'
  BY <1>2, <1>5 DEF Stepping, OneAtATime
<1>7. OrderInv'
  <2>1. ~HasRun(op) /\ ~IsHeld(op)
    BY <1>2 DEF Stepping, OrderInv
  <2>2. \A v \in Unheld' : pw'[v].op \in Ops /\ ~HasRun(pw'[v].op) /\ ~IsHeld(pw'[v].op)
    BY <2>1, <1>3, <1>5
  <2>3. ASSUME NEW o \in todo' PROVE o \in todo /\ ~AtWork(o)'
    <3>1. o \in todo /\ o # op /\ ~AtWork(o)
      BY <1>2 DEF Stepping, OrderInv
    <3>2. \A v \in Workers : pw'[v].op # o
      BY <3>1, <1>3, <1>5 DEF AtWork
    <3> QED BY <3>1, <3>2 DEF AtWork
  <2>4. seqnum \in Nat
    BY DEF Types, TypeOK
  <2> QED BY <1>2, <1>5, <2>2, <2>3, <2>4, SameNumbers DEF Stepping
<1>8. RunInv(k)'
  <2>1. PICK rest \in Seq(Ops) : Lacking(k, rest)
    BY <1>1 DEF StepInv, RunInv
  <2> DEFINE more == Append(rest, op)
  <2>2. /\ more \in Seq(Ops) /\ Len(more) = Len(rest) + 1 /\ more[Len(more)] = op
        /\ \A i \in 1 .. Len(rest) : more[i] = rest[i]
    OBVIOUS
  <2>3. DoAll(DoAll(<<>>, Applied), more) = Do(DoAll(DoAll(<<>>, Applied), rest), op)
    BY DoAllAppend
  <2> HIDE DEF more
  <2>4. Lacks(k)' = Lacks(k) /\ Count(Unheld) = 0 /\ Count(Unheld)' = 1 /\ Applied' = Applied
    BY <1>2, <1>5 DEF Lacks, Count, Applied
  <2>5. Len(rest) = Lacks(k) /\ Lacks(k) \in Int
    BY <2>1, <2>4, HeldTypes DEF Lacking, Lacks
  <2>6. Len(more) = Lacks(k)' + Count(Unheld)'
    BY <2>2, <2>4, <2>5
  <2>7. \A i \in 1 .. Lacks(k)' : more[i] = holdback'[k+i].op
    BY <1>2, <2>1, <2>2, <2>4, <2>5 DEF Lacking
  <2>8. \A v \in Unheld' : more[Len(more)] = pw'[v].op
    BY <1>3, <1>5, <2>2
  <2>9. content' = DoAll(DoAll(<<>>, Applied'), more)
    BY <1>2, <2>1, <2>3, <2>4 DEF Lacking
  <2>10. Lacking(k, more)'
    BY <2>6, <2>7, <2>8, <2>9 DEF Lacking
  <2>11. (\A i \in DOMAIN holdback : HasRun(holdback[i].op) <=> i <= k)'
    BY <1>1, <1>2 DEF StepInv, RunInv, HasRun
  <2> QED BY <2>2, <2>10, <2>11 DEF RunInv
<1>9. FileInv' /\ Comes(k)' /\ (sup /\ secondary = sconn => ComesAll(k))'
  <2>1. Applied' = Applied /\ UnderWay' = UnderWay /\ Lacks(k)' = Lacks(k)
        /\ InStages({"send"})' = InStages({"send"})
    BY <1>2, <1>5 DEF Applied, UnderWay, Lacks
  <2> QED BY <1>1, <1>2, <2>1 DEF StepInv, FileInv, Comes, ComesAll
<1> QED BY <1>2, <1>6, <1>7, <1>8, <1>9 DEF StepInv, Stepping

LEMMA RestIdle ==
  ASSUME Stepping, NEW w \in Workers, pw[w].at # "idle"
  PROVE  \A v \in Workers \ {w} : pw[v].at = "idle"
BY DEF Stepping, OneAtATime, InFlight

\* A worker moves on, before its request is held.
LEMMA NumberStep ==
  ASSUME Types, Stepping, NEW w \in Workers, ReadSeq(w) \/ StoreSeq(w)
  PROVE  Stepping'
<1>1. PICK k \in 0 .. Len(holdback) : StepInv(k)
  BY DEF Stepping
<1>2. UNCHANGED <<todo, content, holdback, secondary, resend, chan, back, sup, sconn, scontent,
                  pend, slog>>
  BY DEF ReadSeq, StoreSeq, net, second
<1>3. \E n \in Nat, s \in {"store", "hold"} :
        /\ Moved(w, s, n)
        /\ s = "store" => seqnum' = seqnum /\ n = seqnum + 1 /\ pw[w].at = "read"
        /\ s = "hold" => seqnum' = n /\ n = seqnum + 1 /\ pw[w].at = "store"
  <2>0. seqnum \in Nat /\ pw[w].sq \in Nat
    BY PwRecord DEF Types, TypeOK
  <2>1. CASE ReadSeq(w)
    <3>1. Moved(w, "store", seqnum + 1) /\ seqnum' = seqnum /\ pw[w].at = "read"
      BY <2>1, WorkerMoves DEF ReadSeq
    <3> QED BY <2>0, <3>1
  <2>2. CASE StoreSeq(w)
    <3>1. Moved(w, "hold", pw[w].sq) /\ seqnum' = pw[w].sq /\ pw[w].at = "store"
      BY <2>2, WorkerMoves DEF StoreSeq
    <3>2. pw[w].sq = seqnum + 1
      BY <3>1 DEF Stepping, OrderInv, InStages
    <3> QED BY <2>0, <3>1, <3>2
  <2> QED BY <2>1, <2>2
<1>4. PICK n \in Nat, s \in {"store", "hold"} :
        /\ Moved(w, s, n)
        /\ s = "store" => seqnum' = seqnum /\ n = seqnum + 1 /\ pw[w].at = "read"
        /\ s = "hold" => seqnum' = n /\ n = seqnum + 1 /\ pw[w].at = "store"
  BY <1>3
<1> DEFINE r == [at |-> s, op |-> pw[w].op, sq |-> n]
<1>5. pw' = [pw EXCEPT ![w] = r] /\ r.at = s /\ r.op = pw[w].op /\ r.sq = n
  BY <1>4 DEF Moved
<1> HIDE DEF r
<1>6. /\ pw'[w] = r /\ Unheld = {w} /\ Unheld' = {w}
      /\ InStages({"store"})' = IF s = "store" THEN {w} ELSE {}
      /\ InStages({"hold"})' = IF s = "hold" THEN {w} ELSE {}
      /\ InStages({"send"}) = {} /\ InStages({"send"})' = {}
      /\ \A u, v \in InFlight' : u = v
      /\ \A v \in Workers : pw'[v].op = pw[v].op
  <2>0. pw[w].at \in {"read", "store"} /\ \A v \in Workers \ {w} : pw[v].at = "idle"
    BY <1>4, RestIdle
  <2>1. /\ pw'[w] = r /\ \A v \in Workers \ {w} : pw'[v] = pw[v]
        /\ Unheld = IF pw[w].at \in {"read", "store", "hold"} THEN {w} ELSE {}
        /\ Unheld' = IF r.at \in {"read", "store", "hold"} THEN {w} ELSE {}
        /\ \A z \in {"store", "hold", "send"} :
             /\ InStages({z}) = IF pw[w].at = z THEN {w} ELSE {}
             /\ InStages({z})' = IF r.at = z THEN {w} ELSE {}
        /\ \A u, v \in InFlight' : u = v
    BY <1>5, <2>0, Alone
  <2> QED BY <2>0, <2>1, <1>5
<1>7. OneAtATime'
  BY <1>2, <1>6 DEF Stepping, OneAtATime
<1>8. OrderInv'
  <2>1. pw[w].op \in Ops /\ ~HasRun(pw[w].op) /\ ~IsHeld(pw[w].op)
    BY <1>6, HeldTypes DEF Stepping, OrderInv
  <2>2. \A v \in Unheld' : pw'[v].op \in Ops /\ ~HasRun(pw'[v].op) /\ ~IsHeld(pw'[v].op)
    BY <2>1, <1>6
  <2>3. \A o \in todo' : o \in todo /\ ~AtWork(o)'
    BY <1>2, <1>6 DEF Stepping, OrderInv, AtWork
  <2>4. seqnum \in Nat /\ seqnum' \in Nat /\ seqnum' >= seqnum
    BY <1>4 DEF Types, TypeOK
  <2>5. /\ \A v \in InStages({"store"})' : pw'[v].sq = seqnum' + 1
        /\ \A v \in InStages({"hold"})' : pw'[v].sq = seqnum' /\ seqnum' = seqnum + 1
    BY <1>4, <1>5, <1>6
  <2> QED BY <1>2, <1>6, <2>2, <2>3, <2>4, <2>5, SameNumbers DEF Stepping
<1>9. Lacks(k)' = Lacks(k) /\ Applied' = Applied /\ UnderWay' = UnderWay
  BY <1>2 DEF Lacks, Applied, UnderWay
<1>10. RunInv(k)'
  <2>1. \A rest \in Seq(Ops) : Lacking(k, rest) => Lacking(k, rest)'
    BY <1>2, <1>6, <1>9 DEF Lacking
  <2>2. (\A i \in DOMAIN holdback : HasRun(holdback[i].op) <=> i <= k)'
    BY <1>1, <1>2 DEF StepInv, RunInv, HasRun
  <2> QED BY <1>1, <2>1, <2>2 DEF StepInv, RunInv
<1>11. FileInv' /\ Comes(k)' /\ (sup /\ secondary = sconn => ComesAll(k))'
  BY <1>1, <1>2, <1>6, <1>9 DEF StepInv, FileInv, Comes, ComesAll
<1> QED BY <1>2, <1>7, <1>8, <1>10, <1>11 DEF StepInv, Stepping

\* Where the requests under way stand in the holdback.
LEMMA ComesAt ==
  ASSUME Types, NEW k \in 0 .. Len(holdback), Comes(k)
  PROVE  /\ Len(UnderWay) \in Nat /\ DOMAIN UnderWay = 1 .. Len(UnderWay)
         /\ Lacks(k) \in Nat /\ Len(UnderWay) <= Lacks(k) /\ Lacks(k) = Len(holdback) - k
         /\ \A i \in DOMAIN UnderWay : k+i \in DOMAIN holdback
         /\ Count(InStages({"send"})) \in Nat /\ Count(Unheld) \in Nat
<1>1. Len(UnderWay) \in Nat /\ DOMAIN UnderWay = 1 .. Len(UnderWay)
  <2>1. UnderWay \in Seq(Message)
    BY KeepConcat DEF UnderWay, Types, TypeOK
  <2> QED BY <2>1
<1>2. Len(holdback) \in Nat /\ DOMAIN holdback = 1 .. Len(holdback)
  BY HeldTypes
<1>3. Count(InStages({"send"})) \in Nat /\ Count(Unheld) \in Nat
  BY DEF Count
<1>4. Lacks(k) \in Nat /\ Lacks(k) = Len(holdback) - k
  BY <1>2 DEF Lacks
<1>5. Len(UnderWay) + Count(InStages({"send"})) <= Lacks(k)
  BY DEF Comes
<1>6. Len(UnderWay) <= Lacks(k)
  BY <1>1, <1>3, <1>4, <1>5
<1>7. \A i \in DOMAIN UnderWay : k+i \in DOMAIN holdback
  BY <1>1, <1>2, <1>4, <1>6
<1> QED BY <1>1, <1>3, <1>4, <1>6, <1>7

LEMMA HoldOrder ==
  ASSUME Types, Stepping, NEW w \in Workers, pw[w].at = "hold",
         holdback' = Append(holdback, AsHeld(pw[w])), Unheld' = {},
         \A s \in {"store", "hold"} : InStages({s})' = {},
         InStages({"send"})' = {w}, AsHeld(pw'[w]) = AsHeld(pw[w]),
         \A v \in Workers : pw'[v].op = pw[v].op,
         UNCHANGED <<todo, seqnum, back, pend, slog>>
  PROVE  OrderInv'
<1> DEFINE n == Len(holdback)
           h == AsHeld(pw[w])
<1>0. OrderInv /\ w \in Unheld /\ w \in InStages({"hold"})
  BY DEF Stepping, Unheld, InStages
<1>1. /\ pw[w].sq = seqnum /\ \A i \in DOMAIN holdback : holdback[i].sq < seqnum
      /\ ~HasRun(pw[w].op) /\ ~IsHeld(pw[w].op)
  BY <1>0 DEF OrderInv
<1>2. /\ h \in Held /\ h.sq = seqnum /\ h.op = pw[w].op /\ seqnum \in Nat
  BY <1>1, PwRecord, MsgTypes DEF AsHeld, Types, TypeOK
<1> HIDE DEF h
<1>3. /\ n \in Nat /\ DOMAIN holdback = 1 .. n /\ Len(holdback') = n+1
      /\ DOMAIN holdback' = 1 .. n+1 /\ holdback'[n+1] = h
      /\ \A i \in 1 .. n : holdback'[i] = holdback[i]
  BY <1>2, HeldTypes DEF h
<1>4. \A i \in 1 .. n : holdback[i].op # h.op /\ holdback[i].sq < h.sq /\ holdback[i].sq \in Nat
  BY <1>1, <1>2, <1>3, HeldTypes DEF IsHeld
<1> HIDE DEF n
<1>5. \A i \in 1 .. n+1 : i \in 1 .. n \/ i = n+1
  BY <1>3
<1>6. ASSUME NEW op \in todo' PROVE ~HasRun(op)' /\ ~IsHeld(op)' /\ ~AtWork(op)'
  <2>1. ~HasRun(op) /\ ~IsHeld(op) /\ ~AtWork(op)
    BY <1>0 DEF OrderInv
  <2>2. op # h.op
    BY <1>2, <2>1 DEF AtWork
  <2>3. ~HasRun(op)' /\ ~AtWork(op)'
    BY <2>1 DEF HasRun, AtWork
  <2>4. \A i \in DOMAIN holdback' : holdback'[i].op # op
    BY <1>3, <1>5, <2>1, <2>2 DEF IsHeld
  <2> QED BY <2>3, <2>4 DEF IsHeld
<1>7. (\A i, j \in DOMAIN holdback :
         i < j => holdback[i].sq < holdback[j].sq /\ holdback[i].op # holdback[j].op)'
  <2> SUFFICES ASSUME NEW i \in 1 .. n+1, NEW j \in 1 .. n+1, i < j
               PROVE  holdback'[i].sq < holdback'[j].sq /\ holdback'[i].op # holdback'[j].op
    BY <1>3
  <2>1. i \in 1 .. n
    BY <1>3
  <2>2. CASE j \in 1 .. n
    BY <1>0, <1>3, <2>1, <2>2 DEF OrderInv
  <2>3. CASE j = n+1
    BY <1>3, <1>4, <2>1, <2>3
  <2> QED BY <1>5, <2>2, <2>3
<1>8. (\A i \in DOMAIN holdback : holdback[i].sq <= seqnum)'
  BY <1>2, <1>3, <1>4, <1>5
<1>9. (\A v \in InStages({"send"}) :
         holdback # <<>> /\ holdback[Len(holdback)] = AsHeld(pw[v]))'
  <2>1. n+1 \in DOMAIN holdback'
    BY <1>3
  <2>2. holdback' # <<>>
    BY <2>1
  <2> QED BY <1>3, <2>2 DEF h
<1>10. ASSUME NEW m \in Nat, Reported(m)'
       PROVE  (/\ m <= seqnum
               /\ InStages({"hold"}) # {} => m < seqnum
               /\ \A i \in DOMAIN holdback : holdback[i].sq = m => HasRun(holdback[i].op))'
  <2>1. Reported(m)
    BY <1>10 DEF Reported
  <2>2. m < seqnum /\ \A i \in DOMAIN holdback : holdback[i].sq = m => HasRun(holdback[i].op)
    BY <1>0, <2>1 DEF OrderInv
  <2>3. ASSUME NEW i \in 1 .. n+1, holdback'[i].sq = m
        PROVE  HasRun(holdback[i].op)'
    <3>1. i \in 1 .. n
      BY <1>2, <1>3, <1>5, <2>2, <2>3
    <3>2. HasRun(holdback[i].op) /\ holdback'[i] = holdback[i]
      BY <1>3, <2>2, <2>3, <3>1
    <3> QED BY <3>2 DEF HasRun
  <2>4. (\A i \in DOMAIN holdback : holdback[i].sq = m => HasRun(holdback[i].op))'
    BY <1>3, <2>3
  <2>5. m <= seqnum' /\ InStages({"hold"})' = {}
    BY <1>2, <2>2
  <2> QED BY <2>4, <2>5
<1>11. (\A m \in Nat : Reported(m) =>
          /\ m <= seqnum
          /\ InStages({"hold"}) # {} => m < seqnum
          /\ \A i \in DOMAIN holdback : holdback[i].sq = m => HasRun(holdback[i].op))'
  BY <1>10
<1>12. /\ (\A op \in todo : ~HasRun(op) /\ ~IsHeld(op) /\ ~AtWork(op))'
       /\ (\A v \in Unheld : ~HasRun(pw[v].op) /\ ~IsHeld(pw[v].op))'
       /\ (\A v \in InStages({"store"}) : pw[v].sq = seqnum + 1)'
       /\ (\A v \in InStages({"hold"}) :
             pw[v].sq = seqnum /\ \A i \in DOMAIN holdback : holdback[i].sq < seqnum)'
  BY <1>6
<1> QED BY <1>7, <1>8, <1>9, <1>11, <1>12 DEF OrderInv

LEMMA HoldStep ==
  ASSUME Types, ConnsInv, Stepping, NEW w \in Workers, Hold(w)
  PROVE  Stepping'
<1> DEFINE r == [at |-> "send", op |-> pw[w].op, sq |-> pw[w].sq]
           h == AsHeld(pw[w])
<1>1. PICK k \in 0 .. Len(holdback) : StepInv(k)
  BY DEF Stepping
<1>2. /\ pw[w].at = "hold" /\ holdback' = Append(holdback, h)
      /\ UNCHANGED <<todo, content, seqnum, secondary, resend, chan, back, sup, sconn, scontent,
                     pend, slog>>
  BY DEF Hold, AsHeld, net, second
<1>3. /\ pw' = [pw EXCEPT ![w] = r] /\ r.at = "send" /\ r.op = pw[w].op
      /\ AsHeld(r) = AsHeld(pw[w])
  BY WorkerMoves DEF Moved, AsHeld
<1> HIDE DEF r
<1>4. /\ pw'[w] = r /\ Unheld = {w} /\ Unheld' = {}
      /\ InStages({"store"})' = {} /\ InStages({"hold"})' = {}
      /\ InStages({"send"}) = {} /\ InStages({"send"})' = {w}
      /\ \A u, v \in InFlight' : u = v
      /\ \A v \in Workers : pw'[v].op = pw[v].op
  <2>0. \A v \in Workers \ {w} : pw[v].at = "idle"
    BY <1>2, RestIdle
  <2>1. /\ pw'[w] = r /\ \A v \in Workers \ {w} : pw'[v] = pw[v]
        /\ Unheld = IF pw[w].at \in {"read", "store", "hold"} THEN {w} ELSE {}
        /\ Unheld' = IF r.at \in {"read", "store", "hold"} THEN {w} ELSE {}
        /\ \A z \in {"store", "hold", "send"} :
             /\ InStages({z}) = IF pw[w].at = z THEN {w} ELSE {}
             /\ InStages({z})' = IF r.at = z THEN {w} ELSE {}
        /\ \A u, v \in InFlight' : u = v
    BY <1>3, <2>0, Alone
  <2> QED BY <2>0, <2>1, <1>2, <1>3
<1>5. OneAtATime'
  BY <1>2, <1>4 DEF Stepping, OneAtATime
<1>6. OrderInv'
  BY <1>2, <1>3, <1>4, HoldOrder
<1> DEFINE n == Len(holdback)
<1>7. /\ n \in Nat /\ DOMAIN holdback = 1 .. n /\ Len(holdback') = n+1
      /\ DOMAIN holdback' = 1 .. n+1 /\ holdback'[n+1].op = pw[w].op
      /\ \A i \in 1 .. n : holdback'[i] = holdback[i]
      /\ h \in Held
  <2>1. h \in Held /\ h.op = pw[w].op
    BY <1>2, PwRecord, MsgTypes DEF AsHeld
  <2> HIDE DEF h
  <2> QED BY <1>2, <2>1, HeldTypes
<1>8. Comes(k) /\ Applied' = Applied /\ UnderWay' = UnderWay
  BY <1>1, <1>2 DEF StepInv, Applied, UnderWay
<1>9. /\ Len(UnderWay) \in Nat /\ DOMAIN UnderWay = 1 .. Len(UnderWay)
      /\ Lacks(k) \in Nat /\ Len(UnderWay) <= Lacks(k) /\ Lacks(k) = n - k
      /\ \A i \in DOMAIN UnderWay : k+i \in DOMAIN holdback
  BY <1>8, ComesAt
<1> HIDE DEF h, n
<1>10. Lacks(k)' = Lacks(k) + 1 /\ n + 1 = k + (Lacks(k) + 1)
  <2>1. Lacks(k)' = n+1 - k
    BY <1>7 DEF Lacks
  <2> QED BY <1>7, <1>9, <2>1
<1>11. /\ Count(Unheld) = 1 /\ Count(Unheld)' = 0
       /\ Count(InStages({"send"})) = 0 /\ Count(InStages({"send"}))' = 1
  BY <1>4 DEF Count
<1>12. RunInv(k)'
  <2>1. PICK rest \in Seq(Ops) : Lacking(k, rest)
    BY <1>1 DEF StepInv, RunInv
  <2>2. Len(rest) = Lacks(k) + 1 /\ \A i \in 1 .. Lacks(k) : rest[i] = holdback[k+i].op
    BY <1>11, <2>1 DEF Lacking
  <2>3. rest[Lacks(k) + 1] = pw[w].op
    BY <1>4, <2>1, <2>2 DEF Lacking
  <2>4. ASSUME NEW i \in 1 .. Lacks(k) + 1 PROVE rest[i] = holdback'[k+i].op
    <3>1. CASE i \in 1 .. Lacks(k)
      <4>1. k+i \in 1 .. n
        BY <1>7, <1>9, <3>1
      <4> QED BY <1>7, <2>2, <3>1, <4>1
    <3>2. CASE i = Lacks(k) + 1
      BY <1>7, <1>10, <2>3, <3>2
    <3> QED BY <1>9, <3>1, <3>2
  <2>5. Len(rest) = Lacks(k)' + Count(Unheld)'
    BY <1>9, <1>10, <1>11, <2>2
  <2>6. \A i \in 1 .. Lacks(k)' : rest[i] = holdback'[k+i].op
    BY <1>10, <2>4
  <2>7. content' = DoAll(DoAll(<<>>, Applied'), rest)
    BY <1>2, <1>8, <2>1 DEF Lacking
  <2>8. Lacking(k, rest)'
    BY <1>4, <2>5, <2>6, <2>7 DEF Lacking
  <2>9. ASSUME NEW i \in DOMAIN holdback' PROVE (HasRun(holdback[i].op) <=> i <= k)'
    <3>1. CASE i \in 1 .. n
      BY <1>1, <1>2, <1>7, <3>1 DEF StepInv, RunInv, HasRun
    <3>2. CASE i = n+1
      <4>1. ~HasRun(pw[w].op)
        BY <1>4 DEF Stepping, OrderInv
      <4> QED BY <1>2, <1>7, <3>2, <4>1 DEF HasRun
    <3> QED BY <1>7, <3>1, <3>2
  <2> QED BY <2>8, <2>9 DEF RunInv
<1>13. Comes(k)'
  <2>1. Len(UnderWay) + 0 <= Lacks(k)
    BY <1>8, <1>11 DEF Comes
  <2>2. Len(UnderWay) + 1 <= Lacks(k) + 1
    BY <1>9, <2>1
  <2>3. \A i \in DOMAIN UnderWay : UnderWay[i] = Msg(holdback'[k+i])
    BY <1>7, <1>8, <1>9 DEF Comes
  <2> QED BY <1>8, <1>10, <1>11, <2>2, <2>3 DEF Comes
<1>14. ASSUME sup, secondary = sconn PROVE ComesAll(k)'
  <2>0. ComesAll(k)
    BY <1>1, <1>14 DEF StepInv
  <2> DEFINE m == Len(UnderWay)
             q == resend[sconn]
  <2>1. m + Len(q) + 0 = Lacks(k) /\ \A i \in DOMAIN q : q[i] = holdback[k+m+i]
    BY <1>11, <2>0 DEF ComesAll
  <2>2. Len(q) \in Nat /\ DOMAIN q = 1 .. Len(q) /\ m \in Nat
    <3>1. q \in Seq(Held)
      BY <1>14 DEF ConnsInv, Types, TypeOK
    <3> QED BY <1>9, <3>1
  <2> HIDE DEF m, q
  <2>3. m + Len(q) + 1 = Lacks(k) + 1
    BY <1>9, <2>1, <2>2
  <2>4. \A i \in DOMAIN q : k+m+i \in 1 .. n
    BY <1>7, <1>9, <2>1, <2>2
  <2>5. \A i \in DOMAIN q : q[i] = holdback'[k+m+i]
    BY <1>7, <2>1, <2>4
  <2> QED BY <1>2, <1>8, <1>10, <1>11, <2>3, <2>5 DEF ComesAll, m, q
<1>15. k \in 0 .. Len(holdback')
  BY <1>7
<1> QED BY <1>2, <1>5, <1>6, <1>8, <1>12, <1>13, <1>14, <1>15 DEF StepInv, Stepping, FileInv

LEMMA SendOutStep ==
  ASSUME Types, ConnsInv, Stepping, NEW w \in Workers, SendOut(w), Calm'
  PROVE  Stepping'
<1> DEFINE m == Msg(pw[w])
<1>1. PICK k \in 0 .. Len(holdback) : StepInv(k)
  BY DEF Stepping
<1>2. /\ pw[w].at = "send" /\ Send(secondary, m) /\ pw' = [pw EXCEPT ![w] = Idle]
      /\ astray' = (astray \/ Resending)
      /\ UNCHANGED <<todo, content, seqnum, holdback, secondary, resend, back, sup, sconn, scontent,
                     pend, slog>>
  BY DEF SendOut, second
<1>3. \A c \in Conns : resend[c] = <<>>
  BY <1>2 DEF Calm, Resending
<1>4. m \in OpMsgs /\ Idle.at = "idle" /\ Idle.op = None
  BY <1>2, PwRecord, MsgTypes DEF Idle
<1> HIDE DEF m
<1>5. /\ pw'[w] = Idle /\ Unheld = {} /\ Unheld' = {}
      /\ InStages({"store"})' = {} /\ InStages({"hold"})' = {} /\ InStages({"hold"}) = {}
      /\ InStages({"send"}) = {w} /\ InStages({"send"})' = {}
      /\ \A u, v \in InFlight' : u = v
      /\ \A v \in Workers : pw'[v].op \in {pw[v].op, None}
  <2>0. \A v \in Workers \ {w} : pw[v].at = "idle"
    BY <1>2, RestIdle
  <2>1. /\ pw'[w] = Idle /\ \A v \in Workers \ {w} : pw'[v] = pw[v]
        /\ Unheld = IF pw[w].at \in {"read", "store", "hold"} THEN {w} ELSE {}
        /\ Unheld' = IF Idle.at \in {"read", "store", "hold"} THEN {w} ELSE {}
        /\ \A z \in {"store", "hold", "send"} :
             /\ InStages({z}) = IF pw[w].at = z THEN {w} ELSE {}
             /\ InStages({z})' = IF Idle.at = z THEN {w} ELSE {}
        /\ \A u, v \in InFlight' : u = v
    BY <1>2, <2>0, Alone
  <2> QED BY <2>0, <2>1, <1>2, <1>4
<1>6. OneAtATime'
  BY <1>2, <1>5 DEF Stepping, OneAtATime
<1>7. OrderInv'
  <2>1. (\A op \in todo : ~HasRun(op) /\ ~IsHeld(op) /\ ~AtWork(op))'
    <3> SUFFICES ASSUME NEW op \in todo' PROVE ~HasRun(op)' /\ ~IsHeld(op)' /\ ~AtWork(op)'
      OBVIOUS
    <3>1. ~HasRun(op) /\ ~IsHeld(op) /\ ~AtWork(op) /\ op # None
      BY <1>2, HeldTypes, OpsAssumption DEF Stepping, OrderInv
    <3>2. ~HasRun(op)' /\ ~IsHeld(op)'
      BY <1>2, <3>1 DEF HasRun, IsHeld
    <3> QED BY <1>5, <3>1, <3>2 DEF AtWork
  <2>2. /\ Reported(0) \in BOOLEAN /\ \A n \in Nat : Reported(n)' <=> Reported(n)
        /\ \A op : HasRun(op)' <=> HasRun(op)
    BY <1>2 DEF Reported, Members, HasRun
  <2>3. (\A n \in Nat : Reported(n) =>
           /\ n <= seqnum
           /\ InStages({"hold"}) # {} => n < seqnum
           /\ \A i \in DOMAIN holdback : holdback[i].sq = n => HasRun(holdback[i].op))'
    BY <1>2, <1>5, <2>2 DEF Stepping, OrderInv
  <2>4. (/\ \A i, j \in DOMAIN holdback :
              i < j => holdback[i].sq < holdback[j].sq /\ holdback[i].op # holdback[j].op
         /\ \A i \in DOMAIN holdback : holdback[i].sq <= seqnum)'
    BY <1>2 DEF Stepping, OrderInv
  <2> QED BY <1>5, <2>1, <2>3, <2>4 DEF OrderInv
<1>8. RunInv(k)'
  <2>1. Lacks(k)' = Lacks(k) /\ Applied' = Applied /\ Unheld' = Unheld /\ Unheld' = {}
    BY <1>2, <1>5 DEF Lacks, Applied
  <2>2. \A rest \in Seq(Ops) : Lacking(k, rest) => Lacking(k, rest)'
    BY <1>2, <2>1 DEF Lacking
  <2>3. (\A i \in DOMAIN holdback : HasRun(holdback[i].op) <=> i <= k)'
    BY <1>1, <1>2 DEF StepInv, RunInv, HasRun
  <2> QED BY <1>1, <2>2, <2>3 DEF StepInv, RunInv
<1>9. FileInv'
  BY <1>1, <1>2 DEF StepInv, FileInv, Applied
<1> DEFINE u == UnderWay
           l == Lacks(k)
           n == Len(u)
<1>10. /\ n \in Nat /\ DOMAIN u = 1 .. n /\ l \in Nat /\ l = Len(holdback) - k
       /\ n + 1 <= l /\ Count(InStages({"send"})) = 1 /\ Count(InStages({"send"}))' = 0
       /\ \A i \in 1 .. n : u[i] = Msg(holdback[k+i])
       /\ l' = l /\ Len(holdback) \in Nat
  <2>1. Comes(k)
    BY <1>1 DEF StepInv
  <2>2. Count(InStages({"send"})) = 1 /\ Count(InStages({"send"}))' = 0
    BY <1>5 DEF Count
  <2>3. l' = l
    BY <1>2 DEF Lacks
  <2> QED BY <2>1, <2>2, <2>3, ComesAt, HeldTypes DEF Comes
<1>11. m = Msg(holdback[Len(holdback)])
  <2>1. holdback[Len(holdback)] = AsHeld(pw[w])
    BY <1>5 DEF Stepping, OrderInv
  <2>2. Msg(AsHeld(pw[w])) = Msg(pw[w])
    BY DEF Msg, AsHeld
  <2> QED BY <2>1, <2>2 DEF m
<1>12. CASE sup /\ secondary = sconn
  <2>1. UnderWay' = Append(u, m) /\ u \in Seq(Message) /\ m \in Message
    BY <1>2, <1>4, <1>12, SendWay, MsgTypes
  <2>2. ComesAll(k)
    BY <1>1, <1>12 DEF StepInv
  <2>3. resend[sconn] = <<>> /\ resend'[sconn'] = <<>>
    BY <1>2, <1>3, <1>12 DEF ConnsInv, Types, TypeOK
  <2>4. n + 1 = l
    BY <1>10, <2>2, <2>3 DEF ComesAll
  <2>5. /\ Len(UnderWay') = n + 1 /\ DOMAIN UnderWay' = 1 .. n+1 /\ UnderWay'[n+1] = m
        /\ \A i \in 1 .. n : UnderWay'[i] = u[i]
    BY <2>1
  <2> HIDE DEF n, l, u
  <2>6. k + (n+1) = Len(holdback) /\ \A i \in 1 .. n+1 : i \in 1 .. n \/ i = n+1
    BY <1>10, <2>4
  <2>7. \A i \in 1 .. n+1 : UnderWay'[i] = Msg(holdback[k+i])
    BY <1>10, <1>11, <2>5, <2>6
  <2>8. Len(UnderWay') + Count(InStages({"send"}))' <= l'
    BY <1>10, <2>4, <2>5
  <2>9. Comes(k)'
    BY <1>2, <2>5, <2>7, <2>8 DEF Comes, l
  <2>10. Len(UnderWay') + Len(resend'[sconn']) + Count(InStages({"send"}))' = l'
    BY <1>10, <2>3, <2>4, <2>5
  <2>11. \A i \in DOMAIN resend'[sconn'] : FALSE
    BY <2>3
  <2>12. ComesAll(k)'
    BY <2>10, <2>11 DEF ComesAll, l
  <2> QED BY <1>2, <1>6, <1>7, <1>8, <1>9, <2>9, <2>12 DEF StepInv, Stepping
<1>13. CASE ~(sup /\ secondary = sconn)
  <2>1. UnderWay' = u
    BY <1>2, <1>4, <1>13, SendWay
  <2> HIDE DEF n, l
  <2>2. n + 0 <= l
    BY <1>10
  <2>3. Comes(k)'
    BY <1>1, <1>2, <1>10, <2>1, <2>2 DEF StepInv, Comes, l, n
  <2> QED BY <1>2, <1>6, <1>7, <1>8, <1>9, <1>13, <2>3 DEF StepInv, Stepping
<1> QED BY <1>12, <1>13

LEMMA ResendStep ==
  ASSUME Types, ConnsInv, Stepping, NEW c \in Conns, Resend(c)
  PROVE  Stepping'
<1> DEFINE q == resend[c]
           m == Msg(Head(q))
<1>1. PICK k \in 0 .. Len(holdback) : StepInv(k)
  BY DEF Stepping
<1>2. /\ q # <<>> /\ Send(secondary, m) /\ resend' = [resend EXCEPT ![c] = Tail(q)]
      /\ UNCHANGED <<todo, content, pw, seqnum, holdback, secondary, back, sup, sconn, scontent,
                     pend, slog>>
  BY DEF Resend, second
<1>3. c = secondary /\ resend'[c] = Tail(q)
  BY <1>2 DEF Stepping, OneAtATime, Types, TypeOK
<1>4. /\ q \in Seq(Held) /\ Head(q) \in Held /\ Head(q) = q[1] /\ 1 \in DOMAIN q
      /\ DOMAIN q = 1 .. Len(q) /\ Len(q) \in Nat /\ Len(q) >= 1
      /\ Tail(q) \in Seq(Held) /\ Len(Tail(q)) = Len(q) - 1
      /\ DOMAIN Tail(q) = 1 .. Len(q) - 1
      /\ \A i \in 1 .. Len(q) - 1 : Tail(q)[i] = q[i+1]
  BY <1>2, HeadTail DEF Types, TypeOK
<1>5. m \in OpMsgs
  BY <1>4, MsgTypes DEF Held
<1> HIDE DEF m
<1>6. OneAtATime'
  BY <1>2 DEF Stepping, OneAtATime, InFlight, Types, TypeOK
<1>7. /\ \A op \in Ops : HasRun(op)' <=> HasRun(op)
      /\ \A a \in Nat : Reported(a)' => Reported(a)
      /\ Applied' = Applied /\ InStages({"send"})' = InStages({"send"})
      /\ Lacks(k)' = Lacks(k)
  BY <1>2 DEF HasRun, Reported, Members, Applied, InStages, Lacks
<1>8. OrderInv'
  BY <1>2, <1>7, OrderKept DEF Stepping
<1>9. RunInv(k)'
  BY <1>1, <1>2, <1>7, RunKept DEF StepInv
<1>10. FileInv'
  BY <1>1, <1>2, <1>7 DEF StepInv, FileInv
<1> DEFINE u == UnderWay
           l == Lacks(k)
           n == Len(u)
           z == Count(InStages({"send"}))
<1>11. /\ n \in Nat /\ DOMAIN u = 1 .. n /\ l \in Nat /\ z \in Nat
       /\ n + z <= l /\ \A i \in 1 .. n : u[i] = Msg(holdback[k+i])
  <2>1. Comes(k)
    BY <1>1 DEF StepInv
  <2> QED BY <2>1, ComesAt DEF Comes
<1>12. l' = l /\ z' = z
  BY <1>7 DEF Count
<1>13. CASE sup /\ secondary = sconn
  <2>1. UnderWay' = Append(u, m) /\ u \in Seq(Message) /\ m \in Message
    BY <1>2, <1>5, <1>13, SendWay, MsgTypes
  <2>2. ComesAll(k) /\ c = sconn
    BY <1>1, <1>3, <1>13 DEF StepInv
  <2>3. n + Len(q) + z = l /\ \A i \in DOMAIN q : q[i] = holdback[k+n+i]
    BY <2>2 DEF ComesAll
  <2>4. m = Msg(holdback[k+n+1])
    BY <1>4, <2>3 DEF m
  <2>5. /\ Len(UnderWay') = n + 1 /\ DOMAIN UnderWay' = 1 .. n+1 /\ UnderWay'[n+1] = m
        /\ \A i \in 1 .. n : UnderWay'[i] = u[i]
    BY <2>1
  <2> DEFINE a == Len(q)
             t == Tail(q)
  <2>6. resend'[sconn'] = t
    BY <1>2, <1>3, <2>2
  <2> HIDE DEF n, l, u, z
  <2>7. k + (n+1) = k + n + 1 /\ \A i \in 1 .. n+1 : i \in 1 .. n \/ i = n+1
    BY <1>11
  <2>8. \A i \in 1 .. n+1 : UnderWay'[i] = Msg(holdback[k+i])
    BY <1>11, <2>4, <2>5, <2>7
  <2>9. Len(UnderWay') + z' <= l'
    BY <1>4, <1>11, <1>12, <2>3, <2>5
  <2>10. Comes(k)'
    BY <1>2, <2>5, <2>8, <2>9 DEF Comes, l, z
  <2>11. Len(UnderWay') + Len(t) + z' = l'
    <3>1. a \in Nat /\ Len(t) = a - 1 /\ n + a + z = l
      BY <1>4, <2>3
    <3> HIDE DEF a, t
    <3>2. (n+1) + (a-1) + z = l
      BY <1>11, <3>1
    <3> QED BY <1>12, <2>5, <3>1, <3>2
  <2>12. ASSUME NEW i \in DOMAIN t PROVE t[i] = holdback[k + (n+1) + i]
    <3>1. i \in 1 .. a - 1 /\ a \in Nat
      BY <1>4
    <3>2. i+1 \in DOMAIN q /\ k + n + (i+1) = k + (n+1) + i
      BY <1>4, <1>11, <3>1
    <3>3. t[i] = q[i+1]
      BY <1>4, <3>1
    <3>4. q[i+1] = holdback[k + n + (i+1)]
      BY <2>3, <3>2
    <3> QED BY <3>2, <3>3, <3>4
  <2>13. ComesAll(k)'
    BY <1>2, <2>5, <2>6, <2>11, <2>12 DEF ComesAll, l, z
  <2> QED BY <1>2, <1>6, <1>8, <1>9, <1>10, <2>10, <2>13 DEF StepInv, Stepping
<1>14. CASE ~(sup /\ secondary = sconn)
  <2>1. UnderWay' = u
    BY <1>2, <1>5, <1>14, SendWay
  <2>2. Comes(k)'
    BY <1>1, <1>2, <1>12, <2>1 DEF StepInv, Comes
  <2> QED BY <1>2, <1>6, <1>8, <1>9, <1>10, <1>14, <2>2 DEF StepInv, Stepping
<1> QED BY <1>13, <1>14

-----------------------------------------------------------------------------
(***************************************************************************)
(* A report takes one request out of the holdback, and it is one that has  *)
(* run.                                                                    *)
(***************************************************************************)
LEMMA DropOrder ==
  ASSUME Types, OrderInv, NEW j \in DOMAIN holdback, holdback' = Dropped(holdback, j),
         UNCHANGED <<todo, pw, seqnum, pend, slog>>,
         \A n \in Nat : Reported(n)' => Reported(n),
         InStages({"send"}) # {} => j < Len(holdback)
  PROVE  OrderInv'
<1> DEFINE l == Len(holdback)
<1>1. /\ l \in Nat /\ DOMAIN holdback = 1 .. l /\ j \in 1 .. l
      /\ \A i \in 1 .. l : holdback[i].sq \in Nat /\ holdback[i].op \in Ops
  BY HeldTypes
<1>2. /\ Len(holdback') = l-1 /\ DOMAIN holdback' = 1 .. l-1
      /\ \A i \in 1 .. l-1 : holdback'[i] = holdback[After(i, j)] /\ After(i, j) \in 1 .. l
  <2>1. /\ Len(Dropped(holdback, j)) = l-1 /\ DOMAIN Dropped(holdback, j) = 1 .. l-1
        /\ \A i \in 1 .. l-1 : /\ Dropped(holdback, j)[i] = holdback[After(i, j)]
                               /\ After(i, j) \in DOMAIN holdback
    BY HeldTypes, DroppedAt
  <2> HIDE DEF l
  <2> QED BY <1>1, <2>1
<1> HIDE DEF l
<1>3. \A op : (HasRun(op)' <=> HasRun(op)) /\ (AtWork(op)' <=> AtWork(op))
  BY DEF HasRun, AtWork
<1>4. \A op : IsHeld(op)' => IsHeld(op)
  BY <1>1, <1>2 DEF IsHeld
<1>5. Unheld' = Unheld /\ \A S : InStages(S)' = InStages(S)
  BY DEF Unheld, InStages
<1>6. (\A op \in todo : ~HasRun(op) /\ ~IsHeld(op) /\ ~AtWork(op))'
  BY <1>3, <1>4 DEF OrderInv
<1>7. (\A w \in Unheld : ~HasRun(pw[w].op) /\ ~IsHeld(pw[w].op))'
  <2> SUFFICES ASSUME NEW w \in Unheld' PROVE ~HasRun(pw[w].op)' /\ ~IsHeld(pw[w].op)'
    OBVIOUS
  <2>1. pw'[w].op = pw[w].op /\ ~HasRun(pw[w].op) /\ ~IsHeld(pw[w].op)
    BY <1>5 DEF OrderInv
  <2>2. ~HasRun(pw[w].op)'
    BY <2>1 DEF HasRun
  <2>3. \A i \in DOMAIN holdback' : holdback'[i].op # pw'[w].op
    BY <1>1, <1>2, <2>1 DEF IsHeld
  <2> QED BY <2>2, <2>3 DEF IsHeld
<1>8. (\A i, m \in DOMAIN holdback :
         i < m => holdback[i].sq < holdback[m].sq /\ holdback[i].op # holdback[m].op)'
  <2> SUFFICES ASSUME NEW i \in 1 .. l-1, NEW m \in 1 .. l-1, i < m
               PROVE  holdback'[i].sq < holdback'[m].sq /\ holdback'[i].op # holdback'[m].op
    BY <1>2
  <2>1. After(i, j) < After(m, j)
    BY <1>1 DEF After
  <2> QED BY <1>1, <1>2, <2>1 DEF OrderInv
<1>9. (\A i \in DOMAIN holdback : holdback[i].sq <= seqnum)'
  BY <1>1, <1>2 DEF OrderInv
<1>10. (/\ \A w \in InStages({"store"}) : pw[w].sq = seqnum + 1
        /\ \A w \in InStages({"hold"}) :
             pw[w].sq = seqnum /\ \A i \in DOMAIN holdback : holdback[i].sq < seqnum)'
  BY <1>1, <1>2, <1>5 DEF OrderInv
<1>11. (\A w \in InStages({"send"}) :
          holdback # <<>> /\ holdback[Len(holdback)] = AsHeld(pw[w]))'
  <2> SUFFICES ASSUME NEW w \in InStages({"send"})
               PROVE  holdback' # <<>> /\ holdback'[Len(holdback')] = AsHeld(pw[w])
    BY <1>5 DEF AsHeld
  <2>1. j < l /\ holdback[l] = AsHeld(pw[w])
    BY DEF OrderInv, l
  <2>2. l-1 \in 1 .. l-1 /\ After(l-1, j) = l
    BY <1>1, <2>1 DEF After
  <2>3. holdback' # <<>>
    BY <1>2, <2>2
  <2> QED BY <1>2, <2>1, <2>2, <2>3
<1>12. ASSUME NEW n \in Nat, Reported(n)'
       PROVE  (/\ n <= seqnum
               /\ InStages({"hold"}) # {} => n < seqnum
               /\ \A i \in DOMAIN holdback : holdback[i].sq = n => HasRun(holdback[i].op))'
  <2>1. /\ n <= seqnum
        /\ InStages({"hold"}) # {} => n < seqnum
        /\ \A i \in DOMAIN holdback : holdback[i].sq = n => HasRun(holdback[i].op)
    BY <1>12 DEF OrderInv
  <2>2. ASSUME NEW i \in 1 .. l-1, holdback'[i].sq = n PROVE HasRun(holdback[i].op)'
    <3>1. HasRun(holdback[After(i, j)].op) /\ holdback'[i] = holdback[After(i, j)]
      BY <1>1, <1>2, <2>1, <2>2
    <3> QED BY <3>1 DEF HasRun
  <2>3. (\A i \in DOMAIN holdback : holdback[i].sq = n => HasRun(holdback[i].op))'
    BY <1>2, <2>2
  <2> QED BY <1>5, <2>1, <2>3
<1>13. (\A n \in Nat : Reported(n) =>
          /\ n <= seqnum
          /\ InStages({"hold"}) # {} => n < seqnum
          /\ \A i \in DOMAIN holdback : holdback[i].sq = n => HasRun(holdback[i].op))'
  BY <1>12
<1> QED BY <1>6, <1>7, <1>8, <1>9, <1>10, <1>11, <1>13 DEF OrderInv

LEMMA DropRun ==
  ASSUME Types, NEW k \in 0 .. Len(holdback), RunInv(k),
         NEW j \in DOMAIN holdback, j <= k, holdback' = Dropped(holdback, j),
         UNCHANGED <<content, pw, pend, slog>>
  PROVE  /\ RunInv(k-1)' /\ k-1 \in 0 .. Len(holdback') /\ Lacks(k-1)' = Lacks(k)
         /\ \A i \in 1 .. Lacks(k) : holdback'[(k-1)+i] = holdback[k+i]
<1> DEFINE l == Len(holdback)
<1>1. /\ l \in Nat /\ DOMAIN holdback = 1 .. l /\ j \in 1 .. l /\ k \in 0 .. l
  BY HeldTypes
<1>2. /\ Len(holdback') = l-1 /\ DOMAIN holdback' = 1 .. l-1
      /\ \A i \in 1 .. l-1 : holdback'[i] = holdback[After(i, j)] /\ After(i, j) \in 1 .. l
  <2>1. /\ Len(Dropped(holdback, j)) = l-1 /\ DOMAIN Dropped(holdback, j) = 1 .. l-1
        /\ \A i \in 1 .. l-1 : /\ Dropped(holdback, j)[i] = holdback[After(i, j)]
                               /\ After(i, j) \in DOMAIN holdback
    BY HeldTypes, DroppedAt
  <2> HIDE DEF l
  <2> QED BY <1>1, <2>1
<1>3. Lacks(k) = l - k /\ Lacks(k-1)' = (l-1) - (k-1)
  BY <1>2 DEF Lacks
<1> HIDE DEF l
<1>4. k-1 \in 0 .. l-1 /\ Lacks(k-1)' = Lacks(k)
  BY <1>1, <1>3
<1>5. ASSUME NEW i \in 1 .. Lacks(k) PROVE holdback'[(k-1)+i] = holdback[k+i]
  <2>1. (k-1)+i \in 1 .. l-1 /\ After((k-1)+i, j) = k+i
    BY <1>1, <1>3 DEF After
  <2> QED BY <1>2, <2>1
<1>6. ASSUME NEW i \in DOMAIN holdback' PROVE (HasRun(holdback[i].op) <=> i <= k-1)'
  <2>1. HasRun(holdback[After(i, j)].op) <=> After(i, j) <= k
    BY <1>1, <1>2 DEF RunInv
  <2>2. After(i, j) <= k <=> i <= k-1
    BY <1>1, <1>2 DEF After
  <2> QED BY <1>2, <2>1, <2>2 DEF HasRun
<1>7. \E rest \in Seq(Ops) : Lacking(k-1, rest)'
  <2>1. PICK rest \in Seq(Ops) : Lacking(k, rest)
    BY DEF RunInv
  <2>2. Unheld' = Unheld /\ Applied' = Applied
    BY DEF Unheld, InStages, Applied
  <2>3. \A i \in 1 .. Lacks(k-1)' : rest[i] = holdback'[(k-1)+i].op
    BY <1>4, <1>5, <2>1 DEF Lacking
  <2>4. Len(rest) = Lacks(k-1)' + Count(Unheld)'
    BY <1>4, <2>1, <2>2 DEF Lacking, Count
  <2> QED BY <2>1, <2>2, <2>3, <2>4 DEF Lacking
<1> QED BY <1>2, <1>4, <1>5, <1>6, <1>7 DEF RunInv

LEMMA DropStep ==
  ASSUME Types, ConnsInv, Stepping, NEW j \in DOMAIN holdback, holdback' = Dropped(holdback, j),
         HasRun(holdback[j].op), UnderWay' = UnderWay,
         \A n \in Nat : Reported(n)' => Reported(n),
         UNCHANGED <<todo, content, pw, seqnum, secondary, resend, sup, sconn, scontent,
                     pend, slog>>
  PROVE  Stepping'
<1>1. PICK k \in 0 .. Len(holdback) : StepInv(k)
  BY DEF Stepping
<1>2. j <= k
  BY <1>1 DEF StepInv, RunInv
<1>3. OneAtATime'
  BY DEF Stepping, OneAtATime, InFlight
<1> DEFINE l == Lacks(k)
           n == Len(UnderWay)
           z == Count(InStages({"send"}))
<1>4. /\ n \in Nat /\ DOMAIN UnderWay = 1 .. n /\ l \in Nat /\ z \in Nat
      /\ n + z <= l /\ l = Len(holdback) - k /\ j \in Int /\ Len(holdback) \in Nat
      /\ \A i \in 1 .. n : UnderWay[i] = Msg(holdback[k+i])
  <2>1. Comes(k)
    BY <1>1 DEF StepInv
  <2> QED BY <2>1, ComesAt, HeldTypes DEF Comes
<1>5. OrderInv'
  <2>1. ASSUME InStages({"send"}) # {} PROVE j < Len(holdback)
    <3>1. z = 1
      BY <2>1 DEF Count
    <3> HIDE DEF l, n, z
    <3> QED BY <1>2, <1>4, <3>1
  <2> QED BY <2>1, DropOrder DEF Stepping
<1>6. /\ RunInv(k-1)' /\ k-1 \in 0 .. Len(holdback') /\ Lacks(k-1)' = l
      /\ \A i \in 1 .. l : holdback'[(k-1)+i] = holdback[k+i]
  BY <1>1, <1>2, DropRun DEF StepInv
<1>7. FileInv'
  BY <1>1 DEF StepInv, FileInv, Applied
<1>8. z' = z
  BY DEF Count, InStages
<1>9. Comes(k-1)'
  <2>1. ASSUME NEW i \in 1 .. n PROVE UnderWay[i] = Msg(holdback'[(k-1)+i])
    <3>1. i \in 1 .. l
      <4> HIDE DEF l, n, z
      <4> QED BY <1>4
    <3> QED BY <1>4, <1>6, <3>1
  <2>2. Len(UnderWay') + z' <= Lacks(k-1)'
    BY <1>4, <1>6, <1>8
  <2> QED BY <1>4, <2>1, <2>2 DEF Comes
<1>10. ASSUME sup, secondary = sconn PROVE ComesAll(k-1)'
  <2> DEFINE q == resend[sconn]
             a == Len(q)
  <2>1. n + a + z = l /\ \A i \in DOMAIN q : q[i] = holdback[k+n+i]
    BY <1>1, <1>10 DEF StepInv, ComesAll
  <2>2. a \in Nat /\ DOMAIN q = 1 .. a
    <3>1. q \in Seq(Held)
      BY <1>10 DEF ConnsInv, Types, TypeOK
    <3> QED BY <3>1
  <2>3. ASSUME NEW i \in 1 .. a PROVE q[i] = holdback'[(k-1)+n+i]
    <3> HIDE DEF q, a, n, z, l
    <3>1. n+i \in 1 .. l
      BY <1>4, <2>1, <2>2
    <3>2. k+(n+i) = k+n+i /\ (k-1)+(n+i) = (k-1)+n+i
      BY <1>4
    <3>3. holdback'[(k-1)+(n+i)] = holdback[k+(n+i)]
      BY <1>6, <3>1
    <3> QED BY <2>1, <2>2, <3>2, <3>3
  <2>4. Len(UnderWay') + Len(q) + z' = Lacks(k-1)'
    BY <1>6, <1>8, <2>1
  <2> QED BY <2>2, <2>3, <2>4 DEF ComesAll
<1>11. (sup /\ secondary = sconn => ComesAll(k-1))'
  BY <1>10
<1>12. StepInv(k-1)'
  BY <1>6, <1>7, <1>9, <1>11 DEF StepInv
<1> QED BY <1>3, <1>5, <1>6, <1>12 DEF Stepping

LEMMA ReadReportsStep ==
  ASSUME Types, ConnsInv, Stepping,
         NEW c \in Conns, NEW k \in Upto(back[c]), ReadReports(c, k)
  PROVE  Stepping'
<1>1. UNCHANGED <<todo, content, pw, seqnum, secondary, resend, sup, sconn, scontent, pend, slog>>
  BY DEF ReadReports, second
<1>2. UnderWay' = UnderWay
  BY ReportsEffect, ErrWay
<1>3. \A n \in Nat : Reported(n)' => Reported(n)
  <2>1. PICK q \in Seq(Report) : /\ back' = [back EXCEPT ![c] = q]
                                 /\ Members(q) \subseteq Members(back[c])
    BY ReportsEffect
  <2>2. \A d \in Conns : Members(back'[d]) \subseteq Members(back[d])
    BY <2>1 DEF Types, TypeOK
  <2> QED BY <2>2, Unreported
<1>4. CASE holdback' = holdback
  BY <1>1, <1>2, <1>3, <1>4, ReportStep
<1>5. ASSUME NEW n \in Nat, Reported(n), holdback' = Keep(holdback, Others(n))
      PROVE  Stepping'
  <2>1. CASE \A i \in DOMAIN holdback : holdback[i].sq # n
    <3>1. holdback \in Seq(Held) /\ Members(holdback) \subseteq Others(n)
      BY <2>1, HeldTypes DEF Members, Others
    <3> QED BY <1>4, <1>5, <3>1, KeepAll
  <2>2. CASE \E i \in DOMAIN holdback : holdback[i].sq = n
    <3>1. PICK j \in DOMAIN holdback : holdback[j].sq = n
      BY <2>2
    <3>2. holdback \in Seq(Held) /\ Rising(holdback)
      BY HeldTypes DEF Stepping, OrderInv, Rising
    <3>3. holdback' = Dropped(holdback, j)
      BY <1>5, <3>1, <3>2, WithoutOne
    <3>4. HasRun(holdback[j].op)
      BY <1>5, <3>1 DEF Stepping, OrderInv
    <3> QED BY <1>1, <1>2, <1>3, <3>3, <3>4, DropStep
  <2> QED BY <2>1, <2>2
<1> QED BY <1>4, <1>5, ReportsEffect

-----------------------------------------------------------------------------
(***************************************************************************)
(* The secondary receives the first request under way, which is the first  *)
(* of the holdback that has not run.                                       *)
(***************************************************************************)
FirstOff(t, x, s) ==
  /\ Len(s) = Len(t) + 1 /\ s[1] = x
  /\ \A i \in 1 .. Len(t) : t[i] = s[i+1]

LEMMA FirstWay ==
  ASSUME Types, NEW f \in DOMAIN chan, chan[f] \in OpMsgs,
         \A i \in 1 .. f-1 : chan[i] = Err, chan' = Rest(chan, f)
  PROVE  FirstOff(UnderWay', chan[f], UnderWay)
<1> DEFINE x == chan[f]
           l == Len(chan)
<1>0. chan \in Seq(Message) /\ f \in 1 .. l /\ f \in 0 .. l /\ l \in Nat
  BY DEF Types, TypeOK
<1>1. PICK u, v \in Seq(Message) : Parts(chan, f, u, v)
  BY <1>0, SplitAt
<1>2. /\ chan = u \o (<<x>> \o v)
      /\ Len(u) = f - 1 /\ \A i \in 1 .. f-1 : u[i] = chan[i]
      /\ Len(v) = l - f /\ \A i \in 1 .. l-f : v[i] = chan[f+i]
  BY <1>1 DEF Parts
<1>3. Members(u) \cap OpMsgs = {}
  <2>1. \A i \in DOMAIN u : u[i] = Err
    BY <1>0, <1>2
  <2> QED BY <2>1, MsgTypes DEF Members
<1>4. v = Rest(chan, f)
  <2> DEFINE t == Rest(chan, f)
  <2>1. t \in Seq(Message) /\ Len(t) = l - f /\ \A i \in 1 .. l-f : t[i] = chan[f+i]
    BY <1>0, RestType, RestAt
  <2> HIDE DEF t, l
  <2>2. Len(v) = Len(t) /\ \A i \in 1 .. Len(v) : v[i] = t[i]
    BY <1>2, <2>1
  <2>3. v = t
    BY <2>1, <2>2, SeqEqual
  <2> QED BY <2>3 DEF t
<1>5. Keep(u, OpMsgs) = <<>>
  BY <1>3, KeepNone
<1>6. x \in Message /\ <<x>> \in Seq(Message) /\ <<x>> \o v \in Seq(Message)
  BY MsgTypes
<1>7. Keep(<<x>>, OpMsgs) = <<x>>
  BY <1>6, KeepOne
<1>8. Keep(<<x>> \o v, OpMsgs) = Keep(<<x>>, OpMsgs) \o Keep(v, OpMsgs)
      /\ Keep(v, OpMsgs) \in Seq(Message)
  BY <1>6, KeepConcat, ZenonT(60)
<1>9. Keep(u \o (<<x>> \o v), OpMsgs) = Keep(u, OpMsgs) \o Keep(<<x>> \o v, OpMsgs)
  BY <1>6, KeepConcat, ZenonT(60)
<1> DEFINE t == Keep(v, OpMsgs)
<1>10. UnderWay = <<>> \o (<<x>> \o t) /\ UnderWay' = t
  <2>1. UnderWay = Keep(u \o (<<x>> \o v), OpMsgs)
    BY <1>2 DEF UnderWay
  <2>2. UnderWay' = Keep(v, OpMsgs)
    BY <1>4 DEF UnderWay
  <2> QED BY <2>1, <2>2, <1>5, <1>7, <1>8, <1>9, Zenon
<1> HIDE DEF t
<1>11. t \in Seq(Message)
  BY <1>8 DEF t
<1> DEFINE s == <<x>> \o t
<1>12. UnderWay = s /\ Len(t) \in Nat
  <2>1. s \in Seq(Message)
    BY <1>6, <1>11
  <2> HIDE DEF s
  <2>2. <<>> \o s = s
    BY <2>1
  <2> QED BY <1>10, <1>11, <2>2 DEF s
<1>13. Len(s) = Len(t) + 1 /\ s[1] = x /\ \A i \in 1 .. Len(t) : s[i+1] = t[i]
  BY <1>6, <1>11
<1> HIDE DEF s
<1> QED BY <1>10, <1>12, <1>13 DEF FirstOff

LEMMA ReceiveOrder ==
  ASSUME Types, OrderInv, NEW j \in DOMAIN holdback, pend = None, pend' = holdback[j].op,
         UNCHANGED <<todo, pw, seqnum, holdback, slog>>,
         \A n \in Nat : Reported(n)' => Reported(n) \/ n = 0 \/ n = holdback[j].sq
  PROVE  OrderInv'
<1> DEFINE op == holdback[j].op
<1>1. /\ \A i \in DOMAIN holdback : holdback[i].sq \in Nat \ {0} /\ holdback[i].op \in Ops
      /\ todo \subseteq Ops /\ \A w \in Unheld : pw[w].op \in Ops
      /\ seqnum \in Nat /\ op \in Ops /\ DOMAIN holdback = 1 .. Len(holdback)
  BY HeldTypes DEF Types, TypeOK
<1>2. IsHeld(op)
  BY DEF IsHeld
<1>3. \A o \in Ops : HasRun(o)' <=> (HasRun(o) \/ o = op)
  BY <1>1, OpsAssumption DEF HasRun
<1>4. /\ Unheld' = Unheld /\ \A S : InStages(S)' = InStages(S)
      /\ \A o : (IsHeld(o)' <=> IsHeld(o)) /\ (AtWork(o)' <=> AtWork(o))
  BY DEF Unheld, InStages, IsHeld, AtWork
<1>5. (\A o \in todo : ~HasRun(o) /\ ~IsHeld(o) /\ ~AtWork(o))'
  BY <1>1, <1>2, <1>3, <1>4 DEF OrderInv
<1>6. (\A w \in Unheld : ~HasRun(pw[w].op) /\ ~IsHeld(pw[w].op))'
  BY <1>1, <1>2, <1>3, <1>4 DEF OrderInv
<1>7. ASSUME NEW n \in Nat, Reported(n)'
      PROVE  (/\ n <= seqnum
              /\ InStages({"hold"}) # {} => n < seqnum
              /\ \A i \in DOMAIN holdback : holdback[i].sq = n => HasRun(holdback[i].op))'
  <2>1. CASE Reported(n)
    <3>1. /\ n <= seqnum
          /\ InStages({"hold"}) # {} => n < seqnum
          /\ \A i \in DOMAIN holdback : holdback[i].sq = n => HasRun(holdback[i].op)
      BY <2>1 DEF OrderInv
    <3> QED BY <1>1, <1>3, <1>4, <3>1
  <2>2. CASE n = 0
    <3>1. InStages({"hold"}) # {} => seqnum # 0
      BY PwRecord DEF OrderInv, InStages
    <3> QED BY <1>1, <1>4, <2>2, <3>1
  <2>3. CASE n = holdback[j].sq
    <3>1. n <= seqnum /\ (InStages({"hold"}) # {} => n < seqnum)
      BY <2>3 DEF OrderInv
    <3>2. ASSUME NEW i \in DOMAIN holdback, holdback[i].sq = n PROVE i = j
      <4>1. /\ i < j => holdback[i].sq < holdback[j].sq
            /\ j < i => holdback[j].sq < holdback[i].sq
        BY DEF OrderInv
      <4> QED BY <1>1, <2>3, <3>2, <4>1
    <3>3. \A i \in DOMAIN holdback : holdback[i].sq = n => HasRun(holdback[i].op)'
      BY <1>1, <1>3, <3>2
    <3> QED BY <1>4, <3>1, <3>3
  <2> QED BY <1>7, <2>1, <2>2, <2>3
<1>8. (\A n \in Nat : Reported(n) =>
         /\ n <= seqnum
         /\ InStages({"hold"}) # {} => n < seqnum
         /\ \A i \in DOMAIN holdback : holdback[i].sq = n => HasRun(holdback[i].op))'
  BY <1>7
<1>9. (/\ \A i, m \in DOMAIN holdback :
            i < m => holdback[i].sq < holdback[m].sq /\ holdback[i].op # holdback[m].op
       /\ \A i \in DOMAIN holdback : holdback[i].sq <= seqnum
       /\ \A w \in InStages({"store"}) : pw[w].sq = seqnum + 1
       /\ \A w \in InStages({"hold"}) :
            pw[w].sq = seqnum /\ \A i \in DOMAIN holdback : holdback[i].sq < seqnum
       /\ \A w \in InStages({"send"}) :
            holdback # <<>> /\ holdback[Len(holdback)] = AsHeld(pw[w]))'
  BY <1>4 DEF OrderInv, AsHeld
<1> QED BY <1>5, <1>6, <1>8, <1>9 DEF OrderInv

LEMMA ConcatMembers ==
  ASSUME NEW X, NEW s \in Seq(X), NEW t \in Seq(X)
  PROVE  Members(s \o t) \subseteq Members(s) \cup Members(t)
<1> DEFINE r == s \o t
<1>1. /\ r \in Seq(X) /\ Len(r) = Len(s) + Len(t) /\ Len(s) \in Nat /\ Len(t) \in Nat
      /\ \A i \in 1 .. Len(s) : r[i] = s[i]
      /\ \A i \in 1 .. Len(t) : r[Len(s) + i] = t[i]
  BY ConcatAt DEF Joins
<1> HIDE DEF r
<1> SUFFICES ASSUME NEW i \in DOMAIN r PROVE r[i] \in Members(s) \cup Members(t)
  BY DEF Members, r
<1>2. CASE i \in 1 .. Len(s)
  BY <1>1, <1>2 DEF Members
<1>3. CASE i \notin 1 .. Len(s)
  <2>1. i - Len(s) \in 1 .. Len(t) /\ Len(s) + (i - Len(s)) = i
    BY <1>1, <1>3
  <2>2. r[i] = t[i - Len(s)] /\ i - Len(s) \in DOMAIN t
    BY <1>1, <2>1
  <2> QED BY <2>2 DEF Members
<1> QED BY <1>2, <1>3

\* What the secondary lacks once the first of it has been applied.
LEMMA ReceiveRun ==
  ASSUME Types, Stepping, NEW k \in 0 .. Len(holdback) - 1, RunInv(k),
         pend = None, pend' = holdback[k+1].op, UNCHANGED <<content, pw, holdback, slog>>
  PROVE  RunInv(k+1)' /\ Lacks(k) = Lacks(k+1)' + 1
<1> DEFINE op == holdback[k+1].op
           l == Lacks(k)
<1>1. /\ holdback \in Seq(Held) /\ k+1 \in DOMAIN holdback /\ op \in Ops
      /\ DOMAIN holdback = 1 .. Len(holdback) /\ Len(holdback) \in Nat
      /\ \A i \in DOMAIN holdback : holdback[i].op \in Ops
  BY HeldTypes
<1>2. l \in Nat /\ l >= 1 /\ l = Lacks(k+1)' + 1 /\ l = Len(holdback) - k
      /\ Lacks(k+1)' = l - 1
  BY <1>1 DEF Lacks
<1>3. \A o \in Ops : HasRun(o)' <=> (HasRun(o) \/ o = op)
  BY <1>1, OpsAssumption DEF HasRun
<1>4. ASSUME NEW i \in DOMAIN holdback PROVE HasRun(holdback[i].op)' <=> i <= k+1
  <2>1. holdback[i].op = op <=> i = k+1
    BY <1>1 DEF Stepping, OrderInv
  <2>2. HasRun(holdback[i].op) <=> i <= k
    BY DEF RunInv
  <2> QED BY <1>1, <1>3, <2>1, <2>2
<1>5. PICK rest \in Seq(Ops) : Lacking(k, rest)
  BY DEF RunInv
<1> DEFINE t == Tail(rest)
           c == Count(Unheld)
<1>6. /\ Len(rest) = l + c /\ c \in Nat
      /\ \A i \in 1 .. l : rest[i] = holdback[k+i].op
      /\ \A w \in Unheld : rest[Len(rest)] = pw[w].op /\ c = 1
      /\ content = DoAll(DoAll(<<>>, Applied), rest)
  BY <1>5 DEF Lacking, Count
<1> HIDE DEF l, c
<1>7. rest # <<>> /\ rest[1] = op /\ Len(rest) \in Nat
  BY <1>2, <1>6
<1>8. /\ t \in Seq(Ops) /\ Len(t) = Len(rest) - 1
      /\ \A i \in 1 .. Len(rest) - 1 : t[i] = rest[i+1]
  BY <1>7
<1>9. rest = <<op>> \o t
  BY <1>7
<1> HIDE DEF op, t
<1>10. /\ Unheld' = Unheld /\ Applied = slog /\ Applied' = Append(slog, op) /\ slog \in Seq(Ops)
  BY <1>1, OpsAssumption DEF Unheld, InStages, Applied, op, Types, TypeOK
<1>11. content' = DoAll(DoAll(<<>>, Applied'), t)
  <2>1. DoAll(DoAll(<<>>, Applied), <<op>> \o t) = DoAll(Do(DoAll(<<>>, Applied), op), t)
    BY <1>1, <1>8, DoAllCons
  <2>2. DoAll(<<>>, Append(slog, op)) = Do(DoAll(<<>>, slog), op)
    BY <1>1, <1>10, DoAllAppend
  <2>3. content' = DoAll(DoAll(<<>>, Applied), <<op>> \o t)
    BY <1>6, <1>9
  <2>4. DoAll(<<>>, Applied') = Do(DoAll(<<>>, Applied), op)
    BY <1>10, <2>2
  <2> QED BY <2>1, <2>3, <2>4
<1>12. Len(t) = Lacks(k+1)' + Count(Unheld)'
  <2>1. Count(Unheld)' = c
    BY <1>10 DEF c, Count
  <2>2. (l + c) - 1 = (l - 1) + c
    BY <1>2, <1>6
  <2> QED BY <1>2, <1>6, <1>8, <2>1, <2>2
<1>13. \A i \in 1 .. Lacks(k+1)' : t[i] = holdback'[(k+1)+i].op
  <2> SUFFICES ASSUME NEW i \in 1 .. l-1 PROVE t[i] = holdback[(k+1)+i].op
    BY <1>2
  <2>0. (k+1)+i = k+(i+1)
    OBVIOUS
  <2>1. i+1 \in 1 .. l /\ i \in 1 .. (l + c) - 1
    BY <1>2, <1>6
  <2> QED BY <1>6, <1>8, <2>0, <2>1
<1>14. \A w \in Unheld' : t[Len(t)] = pw'[w].op
  <2> SUFFICES ASSUME NEW w \in Unheld PROVE t[Len(t)] = pw[w].op
    BY <1>10
  <2>1. Len(rest) = l+1 /\ rest[Len(rest)] = pw[w].op
    BY <1>6
  <2>2. Len(t) \in 1 .. Len(rest) - 1 /\ Len(t) + 1 = Len(rest)
    BY <1>2, <1>8, <2>1
  <2> QED BY <1>8, <2>1, <2>2
<1>15. Lacking(k+1, t)'
  BY <1>11, <1>12, <1>13, <1>14 DEF Lacking
<1>16. (\A i \in DOMAIN holdback : HasRun(holdback[i].op) <=> i <= k+1)'
  BY <1>4
<1> QED BY <1>2, <1>8, <1>15, <1>16 DEF RunInv, l

LEMMA ReceiveStep ==
  ASSUME Types, ConnsInv, Stepping, NEW z \in Upto(chan), Receive(z), Calm'
  PROVE  Stepping'
<1>1. PICK k \in 0 .. Len(holdback) : StepInv(k)
  BY DEF Stepping
<1>2. PICK f : Received(z, f)
  BY ReceiveEffect
<1> DEFINE x == chan[f]
<1>3. /\ f \in DOMAIN chan /\ x \in OpMsgs /\ \A i \in 1 .. f-1 : chan[i] = Err
      /\ sup /\ pend = None /\ pend' = x.op /\ f = z
      /\ scontent' = Do(scontent, x.op)
      /\ \E r \in {<<Err>>, <<>>, <<Done(Number(f))>>} : back' = [back EXCEPT ![sconn] = @ \o r]
      /\ chan' = Rest(chan, f)
      /\ UNCHANGED <<todo, content, pw, seqnum, holdback, secondary, resend, sup, sconn, slog>>
  <2>1. /\ f \in 1 .. z /\ z \in 1 .. Len(chan) /\ x \in OpMsgs /\ \A i \in 1 .. f-1 : chan[i] = Err
        /\ sup /\ pend = None /\ pend' = x.op /\ astray' = (astray \/ f < z)
        /\ f = z => scontent' = Do(scontent, x.op)
        /\ \E r \in {<<Err>>, <<>>, <<Done(Number(f))>>} : back' = [back EXCEPT ![sconn] = @ \o r]
        /\ chan' = Rest(chan, z)
        /\ UNCHANGED <<primary, sup, sconn, slog>>
    BY <1>2 DEF Received
  <2>2. f = z
    <3>1. ~(f < z)
      BY <2>1 DEF Calm
    <3> QED BY <2>1, <3>1
  <2>3. chan \in Seq(Message)
    BY DEF Types, TypeOK
  <2>4. f \in DOMAIN chan
    BY <2>1, <2>2, <2>3
  <2> HIDE DEF x
  <2> QED BY <2>1, <2>2, <2>4 DEF primary
<1>4. FirstOff(UnderWay', x, UnderWay)
  BY <1>3, FirstWay
<1> HIDE DEF x
<1> DEFINE n == Len(UnderWay')
           l == Lacks(k)
           s == Count(InStages({"send"}))
<1>5. /\ n+1 = Len(UnderWay) /\ n \in Nat /\ DOMAIN UnderWay' = 1 .. n
      /\ UnderWay[1] = x /\ \A i \in 1 .. n : UnderWay'[i] = UnderWay[i+1]
  <2>1. UnderWay' \in Seq(Message)
    <3>1. f \in 0 .. Len(chan) /\ chan \in Seq(Message)
      BY <1>3 DEF Types, TypeOK
    <3>2. chan' \in Seq(Message)
      BY <1>3, <3>1, RestType
    <3>3. Keep(chan', OpMsgs) \in Seq(Message)
      BY <3>2, KeepConcat
    <3> QED BY <3>3 DEF UnderWay
  <2> QED BY <1>4, <2>1 DEF FirstOff
<1>6. /\ l \in Nat /\ s \in Nat /\ n+1+s <= l /\ l = Len(holdback) - k /\ Len(holdback) \in Nat
      /\ \A i \in 1 .. n+1 : UnderWay[i] = Msg(holdback[k+i])
  <2>1. Comes(k)
    BY <1>1 DEF StepInv
  <2>2. /\ l \in Nat /\ s \in Nat /\ l = Len(holdback) - k /\ DOMAIN UnderWay = 1 .. Len(UnderWay)
    BY <2>1, ComesAt
  <2>3. /\ Len(UnderWay) + s <= l
        /\ \A i \in DOMAIN UnderWay : UnderWay[i] = Msg(holdback[k+i])
    BY <2>1 DEF Comes
  <2>4. Len(holdback) \in Nat
    BY HeldTypes
  <2> HIDE DEF n, l, s
  <2> QED BY <1>5, <2>2, <2>3, <2>4
<1>7. s' = s
  BY <1>3 DEF Count, InStages
<1> HIDE DEF n, l, s
<1>8. k \in 0 .. Len(holdback) - 1 /\ k+1 \in 0 .. Len(holdback) /\ k+1 \in DOMAIN holdback
  <2>1. k+1 <= Len(holdback)
    BY <1>5, <1>6
  <2>2. DOMAIN holdback = 1 .. Len(holdback)
    BY HeldTypes
  <2> QED BY <1>6, <2>1, <2>2
<1>9. x = Msg(holdback[k+1]) /\ x.op = holdback[k+1].op /\ x.sq = holdback[k+1].sq
  <2>1. 1 \in 1 .. n+1
    BY <1>5
  <2>2. x = Msg(holdback[k+1])
    BY <1>5, <1>6, <2>1
  <2> QED BY <2>2 DEF Msg
<1>10. RunInv(k+1)' /\ l = Lacks(k+1)' + 1
  BY <1>1, <1>3, <1>8, <1>9, ReceiveRun DEF StepInv, l
<1>11. OrderInv'
  <2>1. ASSUME NEW a \in Nat, Reported(a)'
        PROVE  Reported(a) \/ a = 0 \/ a = holdback[k+1].sq
    <3>1. PICK r \in {<<Err>>, <<>>, <<Done(Number(f))>>} : back' = [back EXCEPT ![sconn] = @ \o r]
      BY <1>3
    <3>2. PICK c \in Conns : Done(a) \in Members(back'[c])
      BY <2>1 DEF Reported
    <3>3. Number(f) \in Nat /\ (Number(f) = 0 \/ Number(f) = holdback[k+1].sq)
      BY <1>8, <1>9, HeldTypes DEF Number, x
    <3>4. r \in Seq(Report) /\ Members(r) \subseteq {Err, Done(Number(f))}
      <4>1. Err \in Report /\ Done(Number(f)) \in Report
        BY <3>3, MsgTypes
      <4>2. \A y : Members(<<y>>) = {y} /\ Members(<<>>) = {}
        BY DEF Members
      <4>3. \A y \in Report : <<y>> \in Seq(Report) /\ <<>> \in Seq(Report)
        OBVIOUS
      <4> QED BY <4>1, <4>2, <4>3
    <3>5. back'[c] = back[c] \/ back'[c] = back[c] \o r
      BY <3>1 DEF Types, TypeOK
    <3>6. Members(back[c] \o r) \subseteq Members(back[c]) \cup Members(r)
      <4>1. back[c] \in Seq(Report)
        BY DEF Types, TypeOK
      <4> QED BY <3>4, <4>1, ConcatMembers
    <3>7. CASE Done(a) \in Members(back[c])
      BY <3>7 DEF Reported
    <3>8. CASE Done(a) = Done(Number(f))
      BY <3>3, <3>8 DEF Done
    <3>9. Done(a) # Err
      BY MsgTypes
    <3>10. Done(a) \in Members(back[c]) \/ Done(a) = Done(Number(f))
      BY <3>2, <3>4, <3>5, <3>6, <3>9
    <3> QED BY <3>7, <3>8, <3>10
  <2> QED BY <1>3, <1>8, <1>9, <2>1, ReceiveOrder DEF Stepping
<1>12. OneAtATime'
  BY <1>3 DEF Stepping, OneAtATime, InFlight
<1>13. FileInv'
  <2>1. Applied = slog /\ Applied' = Append(slog, x.op) /\ slog \in Seq(Ops) /\ x.op \in Ops
    BY <1>3, OpsAssumption DEF Applied, Types, TypeOK, OpMsgs
  <2>2. DoAll(<<>>, Append(slog, x.op)) = Do(DoAll(<<>>, slog), x.op)
    BY <2>1, DoAllAppend
  <2> QED BY <1>1, <1>3, <2>1, <2>2 DEF StepInv, FileInv
<1>14. Comes(k+1)'
  <2>1. ASSUME NEW i \in 1 .. n PROVE UnderWay'[i] = Msg(holdback[(k+1)+i])
    <3>1. i+1 \in 1 .. n+1 /\ k+(i+1) = (k+1)+i
      BY <1>5
    <3> QED BY <1>5, <1>6, <3>1
  <2>2. n + s' <= Lacks(k+1)'
    BY <1>5, <1>6, <1>7, <1>8, <1>10 DEF Lacks
  <2> QED BY <1>3, <1>5, <2>1, <2>2 DEF Comes, n, s
<1>15. ASSUME secondary = sconn PROVE ComesAll(k+1)'
  <2> DEFINE q == resend[sconn]
             a == Len(q)
  <2>1. (n+1) + a + s = l /\ \A i \in DOMAIN q : q[i] = holdback[k+(n+1)+i]
    BY <1>1, <1>3, <1>5, <1>15 DEF StepInv, ComesAll, l, s
  <2>2. a \in Nat /\ DOMAIN q = 1 .. a
    <3>1. q \in Seq(Held)
      BY <1>3 DEF ConnsInv, Types, TypeOK
    <3> QED BY <3>1
  <2> HIDE DEF q, a
  <2>3. \A i \in DOMAIN q : q[i] = holdback[(k+1)+n+i]
    <3>1. \A i \in DOMAIN q : k+(n+1)+i = (k+1)+n+i
      BY <1>5, <2>2
    <3> QED BY <2>1, <3>1
  <2>4. n + a + s' = Lacks(k+1)'
    <3> DEFINE b == Lacks(k+1)'
    <3>1. b \in Int
      BY <1>3, <1>6 DEF Lacks
    <3>2. l = b + 1
      BY <1>10
    <3> HIDE DEF b
    <3>3. n + a + s = b
      BY <1>5, <1>6, <2>1, <2>2, <3>1, <3>2
    <3> QED BY <1>7, <3>3 DEF b
  <2> QED BY <1>3, <2>3, <2>4 DEF ComesAll, n, s, q, a
<1>16. (sup /\ secondary = sconn => ComesAll(k+1))'
  BY <1>3, <1>15
<1>17. StepInv(k+1)' /\ k+1 \in 0 .. Len(holdback')
  BY <1>3, <1>8, <1>10, <1>13, <1>14, <1>16 DEF StepInv
<1> QED BY <1>11, <1>12, <1>17 DEF Stepping

-----------------------------------------------------------------------------
(***************************************************************************)
(* The secondary is in step.                                               *)
(***************************************************************************)
LEMMA WasCalm ==
  ASSUME Types, [Next]_vars, Calm'
  PROVE  Calm
<1>1. /\ (\E w \in Workers : Worker(w)) => pup
      /\ (\E c \in Conns : Listener(c)) => pup
      /\ Start \/ Secondary \/ Crash \/ Flip => pup
  BY DEF Worker, Serve, ReadSeq, StoreSeq, Hold, SendOut, Listener, Greet, Resend, ReadReports,
         Start, Secondary, Abort, Receive, Log, Crash, Flip
<1>2. Next => pup
  BY <1>1 DEF Next
<1>3. UNCHANGED vars => pup' = pup
  BY DEF vars, primary
<1> DEFINE P == astray => astray'
<1>4. /\ \A w \in Workers, op \in Ops : Serve(w, op) => P
      /\ \A w \in Workers : SendOut(w) => P
      /\ \A c \in Conns : Greet(c) => P
      /\ pup /\ sup /\ Die => P
      /\ \A k \in Upto(chan) : Receive(k) => P
  BY DEF Serve, SendOut, Greet, Die, Receive
<1>5. /\ \A w \in Workers : (ReadSeq(w) => P) /\ (StoreSeq(w) => P) /\ (Hold(w) => P)
      /\ \A c \in Conns : Resend(c) => P
      /\ \A c \in Conns : \A k \in Upto(back[c]) : ReadReports(c, k) => P
      /\ Start => P
      /\ Log => P
      /\ Flip => P
      /\ UNCHANGED vars => P
  BY DEF ReadSeq, StoreSeq, Hold, Resend, ReadReports, Start, Log, Flip, vars, history
<1> HIDE DEF P
<1>6. P
  BY <1>4, <1>5, NextCases
<1> QED BY <1>2, <1>3, <1>6 DEF Calm, P

LEMMA InitCalm == Init => CalmInv
<1> SUFFICES ASSUME Init PROVE Stepping
  BY DEF CalmInv
<1>1. /\ content = <<>> /\ holdback = <<>> /\ chan = <<>> /\ slog = <<>> /\ pend = None /\ ~sup
      /\ seqnum = 0 /\ \A w \in Workers : pw[w] = Idle
      /\ \A c \in Conns : resend[c] = <<>> /\ back[c] = <<>>
      /\ todo = Ops
  BY DEF Init
<1>2. InFlight = {} /\ Unheld = {} /\ \A s \in {"store", "hold", "send"} : InStages({s}) = {}
  BY <1>1 DEF InFlight, Unheld, InStages, Idle
<1>3. OneAtATime
  BY <1>1, <1>2 DEF OneAtATime
<1>4. OrderInv
  <2>1. \A n \in Nat : ~Reported(n)
    BY <1>1 DEF Reported, Members
  <2>2. \A op \in Ops : ~HasRun(op) /\ ~IsHeld(op) /\ ~AtWork(op)
    BY <1>1, OpsAssumption DEF HasRun, IsHeld, AtWork, Idle
  <2> QED BY <1>1, <1>2, <2>1, <2>2 DEF OrderInv
<1>5. Len(holdback) = 0 /\ DOMAIN holdback = {} /\ Lacks(0) = 0
  BY <1>1 DEF Lacks
<1>6. RunInv(0)
  <2>1. <<>> \in Seq(Ops) /\ Len(<<>>) = 0
    OBVIOUS
  <2>2. DoAll(DoAll(<<>>, Applied), <<>>) = <<>>
    BY <1>1, DoAllEmpty DEF Applied
  <2>3. Lacking(0, <<>>)
    BY <1>1, <1>2, <1>5, <2>1, <2>2 DEF Lacking, Count
  <2> QED BY <1>5, <2>1, <2>3 DEF RunInv
<1>7. UnderWay = <<>>
  BY <1>1, KeepEmpty DEF UnderWay
<1>8. Comes(0)
  BY <1>2, <1>5, <1>7 DEF Comes, Count
<1>9. StepInv(0)
  BY <1>1, <1>6, <1>8 DEF StepInv, FileInv
<1> QED BY <1>3, <1>4, <1>5, <1>9 DEF Stepping

LEMMA NextCalm == Types /\ ConnsInv /\ CalmInv /\ [Next]_vars => CalmInv'
<1> SUFFICES ASSUME Types, ConnsInv, CalmInv, [Next]_vars, Calm' PROVE Stepping'
  BY DEF CalmInv
<1>0. Stepping
  BY WasCalm DEF CalmInv
<1> DEFINE P == Stepping'
<1>1. \A w \in Workers, op \in Ops : Serve(w, op) => P
  BY <1>0, ServeStep
<1>2. \A w \in Workers : (ReadSeq(w) => P) /\ (StoreSeq(w) => P)
  BY <1>0, NumberStep
<1>3. \A w \in Workers : Hold(w) => P
  BY <1>0, HoldStep
<1>4. \A w \in Workers : SendOut(w) => P
  BY <1>0, SendOutStep
<1>5. \A c \in Conns : Greet(c) => P
  BY <1>0, GreetStep
<1>6. \A c \in Conns : Resend(c) => P
  BY <1>0, ResendStep
<1>7. \A c \in Conns : \A k \in Upto(back[c]) : ReadReports(c, k) => P
  BY <1>0, ReadReportsStep
<1>8. Start => P
  BY <1>0, StartStep
<1>9. pup /\ sup /\ Die => P
  BY <1>0, DieStep
<1>10. \A k \in Upto(chan) : Receive(k) => P
  BY <1>0, ReceiveStep
<1>11. Log => P
  BY <1>0, LogStep
<1>12. Flip => P
  BY <1>0, NothingChanges DEF Flip, primary, net
<1>13. UNCHANGED vars => P
  BY <1>0, NothingChanges DEF vars, primary, net, second
<1> HIDE DEF P
<1>14. P
  BY <1>1, <1>2, <1>3, <1>4, <1>5, <1>6, <1>7, <1>8, <1>9, <1>10, <1>11, <1>12, <1>13, NextCases
<1> QED BY <1>14 DEF P

LEMMA CalmInStep == Types /\ ConnsInv /\ CalmInv => InStep
<1> SUFFICES ASSUME Types, ConnsInv, CalmInv, Connected, InFlight = {}, ~astray
             PROVE  DoAll(scontent, OpsOf(chan)) = content
  BY DEF InStep
<1>1. Stepping /\ sup /\ secondary = sconn /\ \A c \in Conns : resend[c] = <<>>
  BY DEF CalmInv, Calm, Connected, Resending
<1>2. PICK k \in 0 .. Len(holdback) : StepInv(k)
  BY <1>1 DEF Stepping
<1>3. Unheld = {} /\ InStages({"send"}) = {} /\ Count(Unheld) = 0 /\ Count(InStages({"send"})) = 0
  BY DEF Unheld, InStages, InFlight, Count
<1>4. PICK rest \in Seq(Ops) : Lacking(k, rest)
  BY <1>2 DEF StepInv, RunInv
<1>5. /\ Len(UnderWay) \in Nat /\ DOMAIN UnderWay = 1 .. Len(UnderWay) /\ Lacks(k) \in Nat
      /\ \A i \in DOMAIN UnderWay : UnderWay[i] = Msg(holdback[k+i])
  BY <1>2, ComesAt DEF StepInv, Comes
<1>6. Len(UnderWay) = Lacks(k)
  <2>1. resend[sconn] = <<>>
    BY <1>1 DEF ConnsInv, Types, TypeOK
  <2>2. Len(UnderWay) + Len(resend[sconn]) + Count(InStages({"send"})) = Lacks(k)
    BY <1>1, <1>2 DEF StepInv, ComesAll
  <2> QED BY <1>3, <1>5, <2>1, <2>2
<1>7. Len(rest) = Lacks(k) /\ \A i \in 1 .. Lacks(k) : rest[i] = holdback[k+i].op
  BY <1>3, <1>4, <1>5 DEF Lacking
<1>8. OpsOf(chan) = rest
  <2> DEFINE l == Lacks(k)
             t == [i \in 1 .. l |-> UnderWay[i].op]
  <2>1. OpsOf(chan) = t
    BY <1>5, <1>6 DEF OpsOf, UnderWay
  <2>2. \A i \in 1 .. l : t[i] = rest[i]
    BY <1>5, <1>6, <1>7 DEF Msg
  <2>3. \A i \in 1 .. l : rest[i] \in Ops
    BY <1>7
  <2>4. t \in [1 .. l -> Ops]
    <3> HIDE DEF l
    <3>1. \A i \in 1 .. l : UnderWay[i].op \in Ops
      BY <2>2, <2>3
    <3> QED BY <3>1
  <2> HIDE DEF t, l
  <2>5. t \in Seq(Ops) /\ Len(t) = l
    BY <1>5, <2>4, SeqFrom DEF l
  <2>6. t = rest
    BY <1>7, <2>2, <2>5, SeqEqual DEF l
  <2> QED BY <2>1, <2>6
<1>9. scontent = DoAll(<<>>, Applied) /\ content = DoAll(DoAll(<<>>, Applied), rest)
  BY <1>1, <1>2, <1>4 DEF StepInv, FileInv, Lacking
<1> QED BY <1>8, <1>9

(***************************************************************************)
(* The secondary is in step with the primary, for any number of workers,   *)
(* any requests and any number of its restarts: while it is connected and  *)
(* nothing is half way, applying the requests under way to its file gives  *)
(* the primary's file, as long as the code has not given that up           *)
(* (send_to_secondary, check_primary_holdback, handle_secondary_report).   *)
(***************************************************************************)
THEOREM SecondaryInStep == Spec => []InStep
<1>1. Init => Types /\ ConnsInv /\ CalmInv
  BY InitTypes, InitConns, InitCalm
<1>2. Types /\ ConnsInv /\ CalmInv /\ [Next]_vars => (Types /\ ConnsInv /\ CalmInv)'
  BY NextTypes, NextConns, NextCalm
<1> QED BY <1>1, <1>2, CalmInStep, PTL DEF Spec
============================================================================
