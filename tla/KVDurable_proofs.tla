-------------------------- MODULE KVDurable_proofs --------------------------
(***************************************************************************)
(* The theorems about the durability of a storage node (KVDurable): for    *)
(* every set of users, files, payloads, workers and kinds of request.      *)
(***************************************************************************)
EXTENDS KVDurable, FiniteSetTheorems, TLAPS

(***************************************************************************)
(* A nonempty set of naturals has a least element: the intervals 0..n for  *)
(* n in T have one that strictly includes no other.                        *)
(***************************************************************************)
LEMMA Minimum ==
  ASSUME NEW T, T \subseteq Nat, T # {}
  PROVE  \E x \in T : \A y \in T : x <= y
<1> DEFINE F == {0 .. n : n \in T}
<1>1. F # {} /\ F \subseteq FiniteSubsetsOf(Nat)
  <2>1. \A n \in Nat : IsFiniteSet(0 .. n) /\ 0 .. n \subseteq Nat
    BY FS_Interval
  <2> QED BY <2>1 DEF FiniteSubsetsOf
<1>2. \E X \in F : \A Y \in F : <<Y, X>> \notin StrictSubsetOrdering(Nat)
  <2> HIDE DEF F
  <2> QED BY <1>1, FS_StrictSubsetOrderingWellFounded, WFMin, Zenon
<1>3. PICK x \in T : \A y \in T : <<0 .. y, 0 .. x>> \notin StrictSubsetOrdering(Nat)
  BY <1>2
<1>4. ASSUME NEW y \in T, y < x PROVE FALSE
  <2>1. 0 .. y \subseteq 0 .. x /\ 0 .. x \subseteq Nat /\ x \in 0 .. x /\ x \notin 0 .. y
    BY <1>4, SMT
  <2> QED BY <1>3, <2>1 DEF StrictSubsetOrdering
<1> QED BY <1>4

(***************************************************************************)
(* What Replay computes.  Replay is a recursive function over the length   *)
(* of the log; its lemmas are proved by taking a least counterexample      *)
(* (Minimum) instead of citing an induction theorem.                       *)
(*                                                                         *)
(* Trace: the states the tablets go through while the first n records of   *)
(* lg are replayed over base.                                              *)
(***************************************************************************)
Trace(tr, base, lg, n) ==
  tr = [i \in 0 .. n |-> IF i = 0 THEN base ELSE ReplayRecord(tr[i-1], lg[i])]

LEMMA TraceExists ==
  ASSUME NEW base, NEW lg, NEW n \in Nat
  PROVE  \E tr : Trace(tr, base, lg, n)
<1> DEFINE T == {k \in Nat : ~ \E tr : Trace(tr, base, lg, k)}
<1> SUFFICES ASSUME T # {} PROVE FALSE
  OBVIOUS
<1>1. PICK m \in T : \A y \in T : m <= y
  <2> T \subseteq Nat
    OBVIOUS
  <2> HIDE DEF T
  <2> QED BY Minimum
<1>2. CASE m = 0
  <2> DEFINE tr == [i \in 0 .. 0 |-> base]
  <2>1. tr = [i \in 0 .. 0 |-> IF i = 0 THEN base ELSE ReplayRecord(tr[i-1], lg[i])]
    OBVIOUS
  <2>2. Trace(tr, base, lg, 0)
    BY <2>1 DEF Trace
  <2> QED BY <1>2, <2>2
<1>3. CASE m # 0
  <2>1. m - 1 \in Nat /\ m - 1 \notin T
    BY <1>1, <1>3
  <2>2. PICK p : Trace(p, base, lg, m-1)
    BY <2>1
  <2> DEFINE tr == [i \in 0 .. m |-> IF i = m THEN ReplayRecord(p[m-1], lg[m]) ELSE p[i]]
             G(i) == IF i = 0 THEN base ELSE ReplayRecord(tr[i-1], lg[i])
  <2>3. \A i \in 0 .. m : tr[i] = G(i)
    <3> SUFFICES ASSUME NEW i \in 0 .. m PROVE tr[i] = G(i)
      OBVIOUS
    <3>1. CASE i = m
      BY <1>3, <2>1, <3>1
    <3>2. CASE i # m
      <4>1. i \in 0 .. m-1 /\ tr[i] = p[i]
        BY <3>2
      <4>2. p[i] = IF i = 0 THEN base ELSE ReplayRecord(p[i-1], lg[i])
        BY <2>2, <4>1 DEF Trace
      <4>3. i # 0 => i-1 \in 0 .. m /\ i-1 # m
        BY <4>1
      <4> QED BY <4>1, <4>2, <4>3
    <3> QED BY <3>1, <3>2
  <2>4. Trace(tr, base, lg, m)
    <3>1. [i \in 0 .. m |-> tr[i]] = [i \in 0 .. m |-> G(i)]
      <4> HIDE DEF G
      <4> QED BY <2>3
    <3>2. tr = [i \in 0 .. m |-> tr[i]]
      OBVIOUS
    <3> HIDE DEF tr
    <3> QED BY <3>1, <3>2 DEF Trace
  <2> HIDE DEF tr
  <2> QED BY <2>4
<1> QED BY <1>2, <1>3

LEMMA TraceUnique ==
  ASSUME NEW base, NEW lg, NEW n \in Nat, NEW p, NEW q,
         Trace(p, base, lg, n), Trace(q, base, lg, n)
  PROVE  p = q
<1> DEFINE T == {k \in 0 .. n : p[k] # q[k]}
<1>1. ASSUME T # {} PROVE FALSE
  <2>1. PICK m \in T : \A y \in T : m <= y
    <3> T \subseteq Nat
      OBVIOUS
    <3> HIDE DEF T
    <3> QED BY <1>1, Minimum
  <2>2. m # 0
    <3>1. p[0] = base /\ q[0] = base
      BY DEF Trace
    <3> QED BY <2>1, <3>1
  <2>3. m-1 \in 0 .. n /\ m-1 \notin T
    BY <2>1, <2>2
  <2>4. p[m] = ReplayRecord(p[m-1], lg[m]) /\ q[m] = ReplayRecord(q[m-1], lg[m])
    BY <2>1, <2>2 DEF Trace
  <2> QED BY <2>1, <2>3, <2>4
<1>2. p = [k \in 0 .. n |-> p[k]] /\ q = [k \in 0 .. n |-> q[k]]
  BY DEF Trace
<1> QED BY <1>1, <1>2

(***************************************************************************)
(* Replay is the last state of the one trace of its log.                   *)
(***************************************************************************)
LEMMA ReplayIsTrace ==
  ASSUME NEW base, NEW lg, Len(lg) \in Nat, NEW tr, Trace(tr, base, lg, Len(lg))
  PROVE  Replay(base, lg) = tr[Len(lg)]
<1> DEFINE c == CHOOSE p : Trace(p, base, lg, Len(lg))
<1>1. Trace(c, base, lg, Len(lg))
  BY Zenon
<1>2. c = tr
  BY <1>1, TraceUnique, Zenon
<1>3. Replay(base, lg) = c[Len(lg)]
  BY Zenon DEF Replay, Trace
<1> QED BY <1>2, <1>3

LEMMA ReplayEmpty ==
  ASSUME NEW base
  PROVE  Replay(base, << >>) = base
<1> DEFINE lg == << >>
<1>1. Len(lg) = 0
  OBVIOUS
<1>2. PICK tr : Trace(tr, base, lg, 0)
  BY TraceExists, Zenon
<1>3. tr[0] = base
  BY <1>2 DEF Trace
<1> HIDE DEF lg
<1>4. Replay(base, lg) = tr[0]
  BY <1>1, <1>2, ReplayIsTrace
<1> QED BY <1>3, <1>4 DEF lg

(***************************************************************************)
(* A trace of the longer log is the trace of the shorter one and a state.  *)
(***************************************************************************)
LEMMA ReplayAppend ==
  ASSUME NEW base, NEW lg \in Seq(Request), NEW r \in Request
  PROVE  Replay(base, Append(lg, r)) = ReplayRecord(Replay(base, lg), r)
<1> DEFINE n == Len(lg)
           lgr == Append(lg, r)
<1>1. /\ n \in Nat
      /\ Len(lgr) = n + 1
      /\ lgr[n+1] = r
      /\ \A i \in 1 .. n : lgr[i] = lg[i]
  OBVIOUS
<1> HIDE DEF n, lgr
<1>2. PICK tr : Trace(tr, base, lgr, n+1)
  <2>1. n + 1 \in Nat
    BY <1>1
  <2> QED BY <2>1, TraceExists, Zenon
<1> DEFINE p == [i \in 0 .. n |-> tr[i]]
<1>3. Trace(p, base, lg, n)
  <2> DEFINE G(i) == IF i = 0 THEN base ELSE ReplayRecord(p[i-1], lg[i])
  <2>1. \A i \in 0 .. n : p[i] = G(i)
    <3> SUFFICES ASSUME NEW i \in 0 .. n PROVE p[i] = G(i)
      OBVIOUS
    <3>1. p[i] = IF i = 0 THEN base ELSE ReplayRecord(tr[i-1], lgr[i])
      BY <1>1, <1>2 DEF Trace
    <3>2. i # 0 => tr[i-1] = p[i-1] /\ lgr[i] = lg[i]
      BY <1>1
    <3> QED BY <3>1, <3>2
  <2>2. [i \in 0 .. n |-> p[i]] = [i \in 0 .. n |-> G(i)]
    <3> HIDE DEF G
    <3> QED BY <2>1
  <2>3. p = [i \in 0 .. n |-> p[i]]
    OBVIOUS
  <2> HIDE DEF p
  <2> QED BY <2>2, <2>3 DEF Trace
<1>4. Replay(base, lg) = p[n]
  <2> HIDE DEF p
  <2> QED BY <1>1, <1>3, ReplayIsTrace DEF n
<1>5. Replay(base, lgr) = tr[n+1]
  <2>1. Len(lgr) \in Nat /\ Trace(tr, base, lgr, Len(lgr))
    BY <1>1, <1>2
  <2> QED BY <1>1, <2>1, ReplayIsTrace
<1>6. tr[n+1] = ReplayRecord(tr[n], r)
  <2>1. n+1 \in 0 .. n+1 /\ n+1 # 0 /\ (n+1)-1 = n
    BY <1>1
  <2>2. tr[n+1] = ReplayRecord(tr[(n+1)-1], lgr[n+1])
    BY <1>2, <2>1 DEF Trace
  <2> QED BY <1>1, <2>1, <2>2
<1> QED BY <1>1, <1>4, <1>5, <1>6 DEF lgr

-----------------------------------------------------------------------------
(***************************************************************************)
(* Requests act on a row and give a row.                                   *)
(***************************************************************************)
LEMMA ApplyRowType ==
  ASSUME NEW t \in Tablet, NEW r \in Request
  PROVE  ApplyRow(t, r) \in Tablet
<1>1. CASE r.kind = "put"
  <2>1. r.file \in Files /\ r.val \in Values
    BY <1>1 DEF Request
  <2>2. Append(t[r.file], r.val) \in Seq(Values)
    BY <2>1 DEF Tablet
  <2> QED BY <1>1, <2>1, <2>2 DEF ApplyRow, Put, Tablet
<1>2. CASE r.kind = "cput"
  <2>1. r.file \in Files /\ r.val \in Values
    BY <1>2 DEF Request
  <2>2. <<r.val>> \in Seq(Values)
    BY <2>1
  <2>3. ApplyRow(t, r) = Cput(t, r)
    BY <1>2 DEF ApplyRow
  <2> QED BY <2>1, <2>2, <2>3 DEF Cput, Tablet
<1>3. CASE r.kind = "dele"
  <2>1. r.file \in Files /\ << >> \in Seq(Values)
    BY <1>3 DEF Request
  <2>2. ApplyRow(t, r) = Dele(t, r)
    BY <1>3 DEF ApplyRow
  <2> QED BY <2>1, <2>2 DEF Dele, Tablet
<1>4. CASE r.kind = "rename"
  <2>1. r.file \in Files /\ r.to \in Files /\ << >> \in Seq(Values)
    BY <1>4 DEF Request
  <2>2. ApplyRow(t, r) = Rename(t, r)
    BY <1>4 DEF ApplyRow
  <2> QED BY <2>1, <2>2 DEF Rename, Tablet
<1> QED BY <1>1, <1>2, <1>3, <1>4 DEF Request

LEMMA CutRequest ==
  ASSUME NEW r \in Request, r.kind \in {"put", "cput"}
  PROVE  [r EXCEPT !.val = FirstLine[@]] \in Request
<1>1. CASE r.kind = "put"
  <2>1. r \in [kind : {"put"}, user : Users, file : Files, val : Values]
    BY <1>1 DEF Request
  <2>2. [r EXCEPT !.val = FirstLine[@]]
           \in [kind : {"put"}, user : Users, file : Files, val : Values]
    BY <2>1, FirstLineAssumption
  <2> QED BY <2>2 DEF Request
<1>2. CASE r.kind = "cput"
  <2>1. r \in [kind : {"cput"}, user : Users, file : Files, old : OneLine, val : Values]
    BY <1>2 DEF Request
  <2>2. [r EXCEPT !.val = FirstLine[@]]
           \in [kind : {"cput"}, user : Users, file : Files, old : OneLine, val : Values]
    BY <2>1, FirstLineAssumption
  <2> QED BY <2>2 DEF Request
<1> QED BY <1>1, <1>2

LEMMA ReplayRowType ==
  ASSUME NEW t \in Tablet, NEW r \in Request
  PROVE  ReplayRow(t, r) \in Tablet
<1>1. CASE r.kind \in {"put", "cput"}
  <2>1. ReplayRow(t, r) = ApplyRow(t, [r EXCEPT !.val = FirstLine[@]])
    BY <1>1 DEF ReplayRow
  <2> QED BY <1>1, <2>1, CutRequest, ApplyRowType
<1>2. CASE r.kind = "dele"
  BY <1>2, ApplyRowType DEF ReplayRow
<1>3. CASE r.kind = "rename"
  BY <1>3 DEF ReplayRow
<1> QED BY <1>1, <1>2, <1>3 DEF Request

LEMMA RequestUser ==
  ASSUME NEW r \in Request
  PROVE  r.user \in Users
BY DEF Request

LEMMA ReplayRecordType ==
  ASSUME NEW m \in Store, NEW r \in Request
  PROVE  /\ ReplayRecord(m, r) \in Store
         /\ ReplayRecord(m, r)[r.user] = ReplayRow(m[r.user], r)
         /\ \A u \in Users \ {r.user} : ReplayRecord(m, r)[u] = m[u]
<1>1. r.user \in Users /\ m[r.user] \in Tablet
  BY RequestUser DEF Store
<1>2. ReplayRow(m[r.user], r) \in Tablet
  BY <1>1, ReplayRowType
<1> QED BY <1>1, <1>2 DEF ReplayRecord, Store

(***************************************************************************)
(* Every state of a trace is a store, and a trace moves the row of a user  *)
(* only by that user's records: two traces of one log that start from the  *)
(* same row of u agree on u, and a log without records of u leaves it.     *)
(***************************************************************************)
LEMMA TraceType ==
  ASSUME NEW base \in Store, NEW lg \in Seq(Request), NEW tr,
         Trace(tr, base, lg, Len(lg))
  PROVE  \A i \in 0 .. Len(lg) : tr[i] \in Store
<1> DEFINE T == {k \in 0 .. Len(lg) : tr[k] \notin Store}
<1> SUFFICES ASSUME T # {} PROVE FALSE
  OBVIOUS
<1>1. PICK m \in T : \A y \in T : m <= y
  <2> T \subseteq Nat
    OBVIOUS
  <2> HIDE DEF T
  <2> QED BY Minimum
<1>2. m # 0
  BY <1>1 DEF Trace
<1>3. m-1 \in 0 .. Len(lg) /\ tr[m-1] \in Store
  BY <1>1, <1>2
<1>4. tr[m] = ReplayRecord(tr[m-1], lg[m])
  BY <1>1, <1>2 DEF Trace
<1>5. lg[m] \in Request
  BY <1>1, <1>2
<1> QED BY <1>1, <1>3, <1>4, <1>5, ReplayRecordType

LEMMA ReplayType ==
  ASSUME NEW base \in Store, NEW lg \in Seq(Request)
  PROVE  Replay(base, lg) \in Store
<1>1. Len(lg) \in Nat
  OBVIOUS
<1>2. PICK tr : Trace(tr, base, lg, Len(lg))
  BY <1>1, TraceExists, Zenon
<1> QED BY <1>1, <1>2, TraceType, ReplayIsTrace

LEMMA ReplaySameRow ==
  ASSUME NEW b1 \in Store, NEW b2 \in Store, NEW lg \in Seq(Request),
         NEW u \in Users, b1[u] = b2[u]
  PROVE  Replay(b1, lg)[u] = Replay(b2, lg)[u]
<1>1. Len(lg) \in Nat
  OBVIOUS
<1>2. PICK p : Trace(p, b1, lg, Len(lg))
  BY <1>1, TraceExists, Zenon
<1>3. PICK q : Trace(q, b2, lg, Len(lg))
  BY <1>1, TraceExists, Zenon
<1> DEFINE T == {k \in 0 .. Len(lg) : p[k][u] # q[k][u]}
<1>4. ASSUME T # {} PROVE FALSE
  <2>1. PICK m \in T : \A y \in T : m <= y
    <3> T \subseteq Nat
      OBVIOUS
    <3> HIDE DEF T
    <3> QED BY <1>4, Minimum
  <2>2. m # 0
    <3>1. p[0] = b1 /\ q[0] = b2
      BY <1>2, <1>3, <1>1 DEF Trace
    <3> QED BY <2>1, <3>1
  <2>3. m-1 \in 0 .. Len(lg) /\ p[m-1][u] = q[m-1][u]
    BY <2>1, <2>2
  <2>4. p[m] = ReplayRecord(p[m-1], lg[m]) /\ q[m] = ReplayRecord(q[m-1], lg[m])
    BY <2>1, <2>2, <1>2, <1>3 DEF Trace
  <2>5. p[m-1] \in Store /\ q[m-1] \in Store
    BY <2>3, <1>2, <1>3, TraceType
  <2>6. lg[m] \in Request
    BY <2>1, <2>2
  <2>7. CASE lg[m].user = u
    <3>1. p[m][u] = ReplayRow(p[m-1][u], lg[m])
      BY <2>4, <2>5, <2>6, <2>7, ReplayRecordType, Zenon
    <3>2. q[m][u] = ReplayRow(q[m-1][u], lg[m])
      BY <2>4, <2>5, <2>6, <2>7, ReplayRecordType, Zenon
    <3>3. p[m][u] # q[m][u]
      BY <2>1
    <3> QED BY <2>3, <3>1, <3>2, <3>3, Zenon
  <2>8. CASE lg[m].user # u
    <3>1. u \in Users \ {lg[m].user}
      BY <2>8
    <3>2. ReplayRecord(p[m-1], lg[m])[u] = p[m-1][u]
      BY <2>5, <2>6, <3>1, ReplayRecordType, Zenon
    <3>3. ReplayRecord(q[m-1], lg[m])[u] = q[m-1][u]
      BY <2>5, <2>6, <3>1, ReplayRecordType, Zenon
    <3> QED BY <2>1, <2>3, <2>4, <3>2, <3>3
  <2> QED BY <2>7, <2>8
<1>5. p[Len(lg)][u] = q[Len(lg)][u]
  BY <1>1, <1>4
<1> QED BY <1>1, <1>2, <1>3, <1>5, ReplayIsTrace

LEMMA ReplayOtherUsers ==
  ASSUME NEW base \in Store, NEW lg \in Seq(Request), NEW u \in Users,
         \A i \in DOMAIN lg : lg[i].user # u
  PROVE  Replay(base, lg)[u] = base[u]
<1>1. Len(lg) \in Nat
  OBVIOUS
<1>2. PICK p : Trace(p, base, lg, Len(lg))
  BY <1>1, TraceExists, Zenon
<1> DEFINE T == {k \in 0 .. Len(lg) : p[k][u] # base[u]}
<1>3. ASSUME T # {} PROVE FALSE
  <2>1. PICK m \in T : \A y \in T : m <= y
    <3> T \subseteq Nat
      OBVIOUS
    <3> HIDE DEF T
    <3> QED BY <1>3, Minimum
  <2>2. m # 0
    BY <1>2, <2>1 DEF Trace
  <2>3. m-1 \in 0 .. Len(lg) /\ p[m-1][u] = base[u]
    BY <2>1, <2>2
  <2>4. p[m] = ReplayRecord(p[m-1], lg[m])
    BY <2>1, <2>2, <1>2 DEF Trace
  <2>5. p[m-1] \in Store
    BY <2>3, <1>2, TraceType
  <2>6. lg[m] \in Request /\ lg[m].user # u
    BY <2>1, <2>2
  <2>7. p[m][u] = base[u]
    BY <2>3, <2>4, <2>5, <2>6, ReplayRecordType
  <2> QED BY <2>1, <2>7
<1>4. p[Len(lg)][u] = base[u]
  BY <1>1, <1>3
<1> QED BY <1>1, <1>2, <1>4, ReplayIsTrace

-----------------------------------------------------------------------------
(***************************************************************************)
(* Typing, with the facts on the phases that it needs.                     *)
(***************************************************************************)
LEMMA StoreFacts ==
  /\ NoFiles \in Tablet
  /\ NoUsers \in Store
  /\ \A u \in Users : NoUsers[u] = NoFiles
  /\ \A f \in Files : NoFiles[f] = << >>
<1>1. << >> \in Seq(Values)
  OBVIOUS
<1> QED BY <1>1 DEF NoFiles, NoUsers, Tablet, Store

LEMMA ApplyType ==
  ASSUME NEW m \in Store, NEW r \in Request
  PROVE  /\ Apply(m, r) \in Store
         /\ Apply(m, r)[r.user] = ApplyRow(m[r.user], r)
         /\ \A u \in Users \ {r.user} : Apply(m, r)[u] = m[u]
<1>1. r.user \in Users /\ m[r.user] \in Tablet
  BY RequestUser DEF Store
<1>2. ApplyRow(m[r.user], r) \in Tablet
  BY <1>1, ApplyRowType
<1> QED BY <1>1, <1>2 DEF Apply, Store

LEMMA BaseType ==
  ASSUME TypeOK
  PROVE  /\ Base \in Store
         /\ cp # "rows" => Base = Loaded
BY StoreFacts DEF TypeOK, Base, Loaded, Store

LEMMA TypeInit == Init => TypeOK /\ Shape
<1>1. << >> \in Seq(Request) /\ Len(<< >>) = 0 /\ 1 \in 1 .. (0 + 1)
  OBVIOUS
<1>2. Init => rp \in 1 .. (Len(log) + 1) /\ log \in Seq(Request)
  BY <1>1 DEF Init
<1> QED BY <1>2, StoreFacts DEF Init, TypeOK, Shape, Idle

LEMMA DieType ==
  ASSUME TypeOK, Die, log' \in Seq(Request), UNCHANGED <<chunk, meta, info>>
  PROVE  TypeOK' /\ Shape'
<1>1. 1 \in 1 .. (Len(log') + 1)
  <2>1. Len(log') \in Nat
    OBVIOUS
  <2> QED BY <2>1
<1> QED BY <1>1, StoreFacts DEF Die, TypeOK, Shape, Idle

LEMMA TypeStep ==
  ASSUME TypeOK, Shape, [Next]_vars
  PROVE  TypeOK' /\ Shape'
<1> USE DEF TypeOK, Shape
<1>1. CASE StartNew
  BY <1>1, StoreFacts DEF StartNew
<1>2. CASE Restart
  <2>1. Loaded \in Store
    BY StoreFacts DEF Loaded, Store
  <2> QED BY <1>2, <2>1 DEF Restart, disk
<1>3. CASE ReplayLine
  <2>1. log[rp] \in Request
    BY <1>3 DEF ReplayLine
  <2>2. ReplayRecord(tablets, log[rp]) \in Store
    BY <2>1, ReplayRecordType
  <2>3. rp + 1 \in 1 .. (Len(log) + 1)
    BY <1>3 DEF ReplayLine
  <2> QED BY <1>3, <2>2, <2>3 DEF ReplayLine, disk
<1>4. CASE Listen
  <2>1. 1 \in 1 .. (Len(log) + 1)
    OBVIOUS
  <2> QED BY <1>4, <2>1 DEF Listen, disk
<1>5. ASSUME NEW w \in Workers, NEW r \in ClientRequest, Serve(w, r) PROVE TypeOK' /\ Shape'
  <2>1. r \in Request
    BY DEF ClientRequest
  <2>2. Apply(tablets, r) \in Store
    BY <2>1, ApplyType
  <2> QED BY <1>5, <2>1, <2>2 DEF Serve, disk
<1>6. ASSUME NEW w \in Workers, WriteLog(w) PROVE TypeOK' /\ Shape'
  <2>1. work[w] \in Request
    BY <1>6 DEF WriteLog
  <2>2. /\ Append(log, work[w]) \in Seq(Request)
        /\ Len(Append(log, work[w])) = Len(log) + 1
    BY <2>1
  <2>3. rp \in 1 .. (Len(log') + 1)
    BY <1>6, <2>2 DEF WriteLog
  <2> QED BY <1>6, <2>2, <2>3 DEF WriteLog
<1>7. CASE ClearChunks
  BY <1>7, StoreFacts DEF ClearChunks
<1>8. CASE ClearMetadata
  BY <1>8 DEF ClearMetadata
<1>9. CASE RemoveLog
  <2>1. log' \in Seq(Request) /\ rp \in 1 .. (Len(log') + 1)
    BY <1>9 DEF RemoveLog
  <2> QED BY <1>9, <2>1 DEF RemoveLog
<1>10. CASE RemoveLogAndAbort
  BY <1>10, DieType DEF RemoveLogAndAbort
<1>11. ASSUME NEW u \in Users, WriteRow(u) PROVE TypeOK' /\ Shape'
  BY <1>11 DEF WriteRow, Store
<1>12. CASE WriteMeta
  BY <1>12 DEF WriteMeta
<1>13. CASE WriteChunkInfo
  BY <1>13 DEF WriteChunkInfo
<1>14. CASE Crash
  BY <1>14, DieType DEF Crash, disk
<1>15. CASE UNCHANGED vars
  BY <1>15 DEF vars, memory, disk
<1> QED
  BY <1>1, <1>2, <1>3, <1>4, <1>5, <1>6, <1>7, <1>8, <1>9, <1>10, <1>11,
     <1>12, <1>13, <1>14, <1>15 DEF Next, Checkpoint

(***************************************************************************)
(* The node keeps its types: memory, disk and the phases of its threads.   *)
(***************************************************************************)
THEOREM NodeTypes == Spec => []TypeOK
<1>1. Init => TypeOK /\ Shape
  BY TypeInit
<1>2. TypeOK /\ Shape /\ [Next]_vars => (TypeOK /\ Shape)'
  BY TypeStep
<1> QED BY <1>1, <1>2, PTL DEF Spec

LEMMA DStepIsStep == [DNext]_dvars => [Next]_vars
BY DEF DNext, dvars, Next, Checkpoint, Keep, DStartNew, DRestart, DRemoveLog, DServe

LEMMA DSpecImpliesSpec == DSpec => Spec
<1>1. DInit => Init
  BY DEF DInit
<1> QED BY <1>1, DStepIsStep, PTL DEF DSpec, Spec

-----------------------------------------------------------------------------
(***************************************************************************)
(* RestartInv is inductive.  First the facts the steps share.              *)
(***************************************************************************)

(***************************************************************************)
(* A faithful record replays to what the request did.                      *)
(***************************************************************************)
LEMMA FaithfulReplay ==
  ASSUME NEW r \in Request, NEW t, Faithful(r)
  PROVE  ReplayRow(t, r) = ApplyRow(t, r)
<1>1. CASE r.kind \in {"put", "cput"}
  <2>1. r.val \in OneLine
    BY <1>1 DEF Faithful
  <2>2. FirstLine[r.val] = r.val
    BY <2>1 DEF OneLine
  <2>3. [r EXCEPT !.val = r.val] = r
    BY <1>1 DEF Request
  <2>4. [r EXCEPT !.val = FirstLine[@]] = r
    BY <2>2, <2>3, Zenon
  <2>5. ReplayRow(t, r) = ApplyRow(t, [r EXCEPT !.val = FirstLine[@]])
    BY <1>1 DEF ReplayRow
  <2> QED BY <2>4, <2>5
<1>2. CASE r.kind = "dele"
  BY <1>2 DEF ReplayRow
<1> QED BY <1>1, <1>2 DEF Request, Faithful

(***************************************************************************)
(* Restorable(u) and Untouched(u) depend only on the row of u in memory,   *)
(* the snapshot's row of u, the log and the requests in flight.            *)
(***************************************************************************)
LEMMA RestorableFrame ==
  ASSUME TypeOK, TypeOK', NEW u \in Users, Restorable(u),
         tablets'[u] = tablets[u], Base'[u] = Base[u],
         UNCHANGED <<log, work>>
  PROVE  Restorable(u)'
<1>1. Base \in Store /\ Base' \in Store
  <2>1. Base \in Store
    BY BaseType
  <2>2. Base' \in Store
    BY StoreFacts DEF TypeOK, Base, Store
  <2> QED BY <2>1, <2>2
<1>2. Replay(Base', log)[u] = Replay(Base, log)[u]
  BY <1>1, ReplaySameRow DEF TypeOK
<1>3. Replay(Base, log)' = Replay(Base', log)
  BY Zenon
<1>4. Busy(u)' <=> Busy(u)
  BY DEF Busy
<1> QED BY <1>2, <1>3, <1>4 DEF Restorable

(***************************************************************************)
(* The start of the process.                                               *)
(***************************************************************************)
LEMMA IdleIsIdle ==
  ASSUME work = Idle, NEW u
  PROVE  /\ ~Busy(u)
         /\ \A w \in Workers : work[w] = None
BY DEF Busy, Idle

LEMMA StartNewStep ==
  ASSUME RestartInv, DStartNew, TypeOK'
  PROVE  ReplayInv' /\ RowsInv'
<1> USE DEF RestartInv
<1>1. cp = "sleep" /\ work = Idle /\ tablets = NoUsers
  BY DEF Shape, DStartNew, StartNew
<1>2. /\ proc' = "up" /\ cp' = "sleep" /\ tablets' = NoUsers /\ work' = Idle
      /\ log' = log /\ meta' = {}
  BY <1>1 DEF DStartNew, StartNew
<1>3. ReplayInv'
  BY <1>2 DEF ReplayInv
<1>4. ASSUME NEW u \in Users, u \notin blurred' PROVE RowInv(u)'
  <2>1. Base' \in Store /\ Base'[u] = NoFiles
    BY <1>2, StoreFacts DEF Base, Store
  <2>2. \A i \in DOMAIN log : log[i].user # u
    BY <1>4 DEF DStartNew
  <2>3. Replay(Base', log)[u] = NoFiles
    BY <2>1, <2>2, ReplayOtherUsers DEF TypeOK
  <2>4. Replay(Base, log)'[u] = tablets'[u]
    BY <1>2, <2>3, StoreFacts
  <2>5. \A w \in Workers : work'[w] = None
    BY <1>2 DEF Idle
  <2>6. Restorable(u)'
    BY <2>4, <2>5 DEF Restorable
  <2> QED BY <1>2, <2>6 DEF RowInv
<1> QED BY <1>3, <1>4 DEF RowsInv

LEMMA RestartStep ==
  ASSUME RestartInv, DRestart
  PROVE  ReplayInv' /\ RowsInv'
<1>1. cp = "sleep"
  BY DEF RestartInv, Shape, DRestart, Restart
<1>2. proc' = "replay" /\ rp' = 1 /\ tablets' = Loaded /\ Base' = Loaded
  BY <1>1 DEF RestartInv, Shape, DRestart, Restart, disk, Base, Loaded
<1>3. SubSeq(log, 1, rp-1)' = << >>
  BY <1>2
<1>4. Replay(Base, SubSeq(log, 1, rp-1))' = Loaded
  BY <1>2, <1>3, ReplayEmpty
<1> QED BY <1>2, <1>4 DEF ReplayInv, RowsInv

LEMMA ReplayLineStep ==
  ASSUME RestartInv, ReplayLine
  PROVE  ReplayInv' /\ RowsInv'
<1> USE DEF RestartInv
<1>1. /\ proc = "replay" /\ proc' = "replay" /\ rp' = rp + 1 /\ log' = log
      /\ rp \in 1 .. Len(log) /\ log \in Seq(Request)
  BY DEF ReplayLine, disk, TypeOK
<1>2. Base' = Base
  BY DEF ReplayLine, disk, Base
<1> DEFINE s == SubSeq(log, 1, rp-1)
<1>3. /\ s \in Seq(Request)
      /\ log[rp] \in Request
      /\ SubSeq(log, 1, rp) = Append(s, log[rp])
  BY <1>1
<1>4. tablets = Replay(Base, s)
  BY <1>1 DEF ReplayInv
<1>5. tablets' = ReplayRecord(Replay(Base, s), log[rp])
  BY <1>4 DEF ReplayLine
<1> HIDE DEF s
<1>6. tablets' = Replay(Base, Append(s, log[rp]))
  BY <1>3, <1>5, ReplayAppend
<1>7. SubSeq(log, 1, rp-1)' = SubSeq(log, 1, rp)
  BY <1>1
<1>8. tablets' = Replay(Base, SubSeq(log, 1, rp-1))'
  BY <1>2, <1>3, <1>6, <1>7
<1> QED BY <1>1, <1>8 DEF ReplayInv, RowsInv

LEMMA ListenStep ==
  ASSUME RestartInv, Keep(Listen)
  PROVE  ReplayInv' /\ RowsInv'
<1> USE DEF RestartInv
<1>1. /\ proc = "replay" /\ proc' = "up" /\ cp' = "sleep" /\ work' = Idle
      /\ tablets' = tablets /\ log' = log
  BY DEF Keep, Listen, disk, Shape
<1>2. Base' = Base
  BY DEF Keep, Listen, disk, Base
<1>3. rp - 1 = Len(log) /\ log \in Seq(Request)
  BY DEF Keep, Listen, TypeOK
<1>4. SubSeq(log, 1, rp-1) = log
  BY <1>3
<1>5. tablets = Replay(Base, log)
  BY <1>1, <1>4 DEF ReplayInv
<1>6. Replay(Base, log)' = tablets'
  BY <1>1, <1>2, <1>5
<1>7. ASSUME NEW u \in Users PROVE RowInv(u)'
  <2>1. \A w \in Workers : work'[w] = None
    BY <1>1 DEF Idle
  <2>2. Restorable(u)'
    BY <1>6, <2>1 DEF Restorable
  <2> QED BY <1>1, <2>2 DEF RowInv
<1> QED BY <1>1, <1>7 DEF ReplayInv, RowsInv

(***************************************************************************)
(* A worker applies a request that does not blur its user: no other        *)
(* request of the user is in flight, so memory was snapshot and log, and   *)
(* now is snapshot, log and this request.                                  *)
(***************************************************************************)
LEMMA ServeStep ==
  ASSUME RestartInv, NEW w \in Workers, NEW r \in ClientRequest, DServe(w, r), TypeOK'
  PROVE  ReplayInv' /\ RowsInv'
<1> USE DEF RestartInv
<1>1. r \in Request /\ r # None /\ r.user \in Users
  BY NoneAssumption, RequestUser DEF ClientRequest
<1>2. /\ proc = "up" /\ proc' = "up" /\ cp' = cp /\ todo' = todo /\ log' = log
      /\ work[w] = None /\ work' = [work EXCEPT ![w] = r]
      /\ tablets' = Apply(tablets, r)
      /\ blurred \subseteq blurred'
  BY DEF DServe, Serve, disk
<1>3. Base' = Base
  BY DEF DServe, Serve, disk, Base
<1>4. /\ work'[w] = r
      /\ \A x \in Workers \ {w} : work'[x] = work[x]
  BY <1>2 DEF TypeOK
<1>5. ASSUME cp \notin {"metadata", "log"}, NEW u \in Users, u \notin blurred'
      PROVE  RowInv(u)'
  <2>1. RowInv(u)
    BY <1>2, <1>5 DEF RowsInv
  <2>2. CASE u # r.user
    <3>1. tablets'[u] = tablets[u]
      BY <1>1, <1>2, <2>2, ApplyType DEF TypeOK
    <3>2. \A x \in Workers : work'[x] # None /\ work'[x].user = u
                            <=> work[x] # None /\ work[x].user = u
      BY <1>2, <1>4, <2>2
    <3>3. Busy(u)' <=> Busy(u)
      BY <3>2 DEF Busy
    <3>4. CASE cp = "rows" /\ u \in todo
      BY <1>2, <2>1, <3>3, <3>4 DEF RowInv, Untouched
    <3>5. CASE ~(cp = "rows" /\ u \in todo)
      <4>1. Restorable(u)
        BY <2>1, <3>5 DEF RowInv
      <4>2. \A x \in Workers : work'[x] # None /\ work'[x].user = u => work'[x] = work[x]
        BY <1>4, <2>2
      <4>3. Restorable(u)'
        BY <1>2, <1>3, <3>1, <3>2, <3>3, <4>1, <4>2 DEF Restorable
      <4> QED BY <1>2, <3>5, <4>3 DEF RowInv
    <3> QED BY <3>4, <3>5
  <2>3. CASE u = r.user
    <3>1. ~Blurs(r)
      BY <1>5, <2>3 DEF DServe
    <3>2. Faithful(r) /\ ~Busy(u) /\ ~(cp = "rows" /\ u \in todo)
      BY <2>3, <3>1 DEF Blurs
    <3>3. Replay(Base, log)[u] = tablets[u]
      BY <2>1, <3>2 DEF RowInv, Restorable
    <3>4. tablets'[u] = ApplyRow(tablets[u], r)
      BY <1>1, <1>2, <2>3, ApplyType DEF TypeOK
    <3>5. ReplayRow(Replay(Base, log)[u], r) = tablets'[u]
      BY <1>1, <3>2, <3>3, <3>4, FaithfulReplay
    <3>6. Replay(Base, log)'[u] = Replay(Base, log)[u]
      BY <1>2, <1>3
    <3>7. \A x \in Workers : work'[x] # None /\ work'[x].user = u => x = w
      BY <1>4, <3>2 DEF Busy
    <3>8. Busy(u)'
      BY <1>1, <1>4, <2>3 DEF Busy
    <3>9. Restorable(u)'
      BY <1>4, <3>5, <3>6, <3>7, <3>8 DEF Restorable
    <3> QED BY <1>2, <3>2, <3>9 DEF RowInv
  <2> QED BY <2>2, <2>3
<1>6. RowsInv'
  BY <1>2, <1>5 DEF RowsInv
<1> QED BY <1>2, <1>6 DEF ReplayInv

(***************************************************************************)
(* The worker appends the request to the log: what was memory = snapshot,  *)
(* log and request in flight is memory = snapshot and log.                 *)
(***************************************************************************)
LEMMA WriteLogStep ==
  ASSUME RestartInv, NEW w \in Workers, Keep(WriteLog(w)), TypeOK'
  PROVE  ReplayInv' /\ RowsInv'
<1> USE DEF RestartInv
<1>1. /\ proc = "up" /\ proc' = "up" /\ cp' = cp /\ todo' = todo
      /\ work[w] # None /\ work' = [work EXCEPT ![w] = None]
      /\ tablets' = tablets /\ log' = Append(log, work[w]) /\ blurred' = blurred
  BY DEF Keep, WriteLog
<1>2. Base' = Base
  BY DEF Keep, WriteLog, Base
<1> DEFINE r == work[w]
<1>3. r \in Request /\ r.user \in Users /\ log \in Seq(Request) /\ Base \in Store
  BY <1>1, RequestUser, BaseType DEF TypeOK
<1>4. /\ work'[w] = None
      /\ \A x \in Workers \ {w} : work'[x] = work[x]
  BY <1>1 DEF TypeOK
<1> HIDE DEF r
<1>5. Replay(Base, log)' = ReplayRecord(Replay(Base, log), r)
  BY <1>1, <1>2, <1>3, ReplayAppend DEF r
<1>6. /\ Replay(Base, log)'[r.user] = ReplayRow(Replay(Base, log)[r.user], r)
      /\ \A u \in Users \ {r.user} : Replay(Base, log)'[u] = Replay(Base, log)[u]
  <2>1. Replay(Base, log) \in Store
    BY <1>3, ReplayType
  <2> QED BY <1>3, <1>5, <2>1, ReplayRecordType
<1>7. ASSUME cp \notin {"metadata", "log"}, NEW u \in Users, u \notin blurred'
      PROVE  RowInv(u)'
  <2>1. RowInv(u)
    BY <1>1, <1>7 DEF RowsInv
  <2>2. CASE u # r.user
    <3>1. \A x \in Workers : work'[x] # None /\ work'[x].user = u
                            <=> work[x] # None /\ work[x].user = u
      BY <1>4, <2>2 DEF r
    <3>2. Busy(u)' <=> Busy(u)
      BY <3>1 DEF Busy
    <3>3. CASE cp = "rows" /\ u \in todo
      <4>1. \A i \in DOMAIN log' : log'[i].user # u
        <5>1. \A i \in DOMAIN log : log[i].user # u
          BY <2>1, <3>3 DEF RowInv, Untouched
        <5>2. \A i \in DOMAIN log' : (i \in DOMAIN log /\ log'[i] = log[i]) \/ log'[i] = r
          BY <1>1, <1>3 DEF r
        <5> QED BY <2>2, <5>1, <5>2
      <4> QED BY <1>1, <2>1, <3>2, <3>3, <4>1 DEF RowInv, Untouched
    <3>4. CASE ~(cp = "rows" /\ u \in todo)
      <4>1. Restorable(u)
        BY <2>1, <3>4 DEF RowInv
      <4>2. \A x \in Workers : work'[x] # None /\ work'[x].user = u => work'[x] = work[x]
        BY <1>4
      <4>3. Restorable(u)'
        BY <1>1, <1>6, <2>2, <3>1, <3>2, <4>1, <4>2 DEF Restorable
      <4> QED BY <1>1, <3>4, <4>3 DEF RowInv
    <3> QED BY <3>3, <3>4
  <2>3. CASE u = r.user
    <3>1. Busy(u)
      BY <1>1, <2>3 DEF Busy, r
    <3>2. ~(cp = "rows" /\ u \in todo) /\ Restorable(u)
      BY <2>1, <3>1 DEF RowInv, Untouched
    <3>3. /\ ReplayRow(Replay(Base, log)[u], r) = tablets[u]
          /\ \A x \in Workers : work[x] # None /\ work[x].user = u => x = w
      BY <1>1, <2>3, <3>2 DEF Restorable, r
    <3>4. Replay(Base, log)'[u] = tablets'[u]
      BY <1>1, <1>6, <2>3, <3>3
    <3>5. \A x \in Workers : ~(work'[x] # None /\ work'[x].user = u)
      BY <1>4, <3>3
    <3>6. Restorable(u)'
      BY <3>4, <3>5 DEF Restorable
    <3> QED BY <1>1, <3>2, <3>6 DEF RowInv
  <2> QED BY <2>2, <2>3
<1>8. RowsInv'
  BY <1>1, <1>7 DEF RowsInv
<1> QED BY <1>1, <1>8 DEF ReplayInv

(***************************************************************************)
(* The checkpointing thread.                                               *)
(***************************************************************************)
LEMMA RemoveLogStep ==
  ASSUME RestartInv, DRemoveLog
  PROVE  ReplayInv' /\ RowsInv'
<1>1. /\ proc = "up" /\ proc' = "up" /\ cp' = "rows" /\ todo' = Users
      /\ log' = << >> /\ work' = work /\ blurred' = {u \in Users : Busy(u)}
  BY DEF RestartInv, Shape, DRemoveLog, RemoveLog
<1>2. ASSUME NEW u \in Users, u \notin blurred' PROVE RowInv(u)'
  <2>1. ~Busy(u)'
    BY <1>1, <1>2 DEF Busy
  <2>2. DOMAIN log' = {}
    BY <1>1
  <2> QED BY <1>1, <2>1, <2>2 DEF RowInv, Untouched
<1> QED BY <1>1, <1>2 DEF ReplayInv, RowsInv

LEMMA WriteRowStep ==
  ASSUME RestartInv, NEW v \in Users, Keep(WriteRow(v)), TypeOK'
  PROVE  ReplayInv' /\ RowsInv'
<1> USE DEF RestartInv
<1>1. /\ cp = "rows" /\ cp' = "rows" /\ v \in todo /\ todo' = todo \ {v}
      /\ tablets' = tablets /\ log' = log /\ work' = work /\ blurred' = blurred
      /\ proc = "up" /\ proc' = "up"
  BY DEF Keep, WriteRow, Shape
<1>2. /\ Base'[v] = tablets[v]
      /\ \A u \in Users \ {v} : Base'[u] = Base[u]
  <2>1. CASE tablets[v] = NoFiles
    <3>1. v \notin cp_meta
      BY <1>1 DEF Shape
    <3>2. cp_meta' = cp_meta /\ chunk' = chunk
      BY <2>1 DEF Keep, WriteRow
    <3> QED BY <1>1, <2>1, <3>1, <3>2 DEF Base
  <2>2. CASE tablets[v] # NoFiles
    <3>1. cp_meta' = cp_meta \cup {v} /\ chunk' = [chunk EXCEPT ![v] = tablets[v]]
      BY <2>2 DEF Keep, WriteRow
    <3>2. /\ chunk'[v] = tablets[v]
          /\ \A u \in Users \ {v} : chunk'[u] = chunk[u]
      BY <3>1 DEF TypeOK, Store
    <3> QED BY <1>1, <3>1, <3>2 DEF Base
  <2> QED BY <2>1, <2>2
<1>3. Base' \in Store
  BY StoreFacts DEF TypeOK, Base, Store
<1>4. ASSUME NEW u \in Users, u \notin blurred' PROVE RowInv(u)'
  <2>1. RowInv(u)
    BY <1>1, <1>4 DEF RowsInv
  <2>2. Busy(u)' <=> Busy(u)
    BY <1>1 DEF Busy
  <2>3. CASE u = v
    <3>1. ~Busy(u) /\ \A i \in DOMAIN log : log[i].user # u
      BY <1>1, <2>1, <2>3 DEF RowInv, Untouched
    <3>2. Replay(Base', log)[u] = tablets[u]
      BY <1>2, <1>3, <2>3, <3>1, ReplayOtherUsers DEF TypeOK
    <3>3. Replay(Base, log)'[u] = tablets'[u]
      BY <1>1, <3>2
    <3>4. Restorable(u)'
      BY <2>2, <3>1, <3>3, <1>1 DEF Restorable, Busy
    <3> QED BY <1>1, <2>3, <3>4 DEF RowInv
  <2>4. CASE u # v /\ u \in todo
    BY <1>1, <2>1, <2>2, <2>4 DEF RowInv, Untouched
  <2>5. CASE u # v /\ u \notin todo
    <3>1. Restorable(u)
      BY <2>1, <2>5 DEF RowInv
    <3>2. Base'[u] = Base[u]
      BY <1>2, <2>5
    <3>3. Restorable(u)'
      BY <1>1, <3>1, <3>2, RestorableFrame
    <3> QED BY <1>1, <2>5, <3>3 DEF RowInv
  <2> QED BY <2>3, <2>4, <2>5
<1> QED BY <1>1, <1>4 DEF ReplayInv, RowsInv

(***************************************************************************)
(* Writing the metadata moves the snapshot's list of users from memory to  *)
(* disk; the file of the counters and a stuttering step move nothing.      *)
(***************************************************************************)
LEMMA SameSnapshotStep ==
  ASSUME RestartInv, TypeOK', Base' = Base,
         UNCHANGED <<proc, tablets, work, rp, log, blurred>>,
         \/ cp' = cp /\ todo' = todo
         \/ cp \notin {"metadata", "log"} /\ cp' # "rows" /\ (cp = "rows" => todo = {})
  PROVE  ReplayInv' /\ RowsInv'
<1>1. ReplayInv'
  BY DEF RestartInv, ReplayInv
<1>2. ASSUME proc' = "up", cp' \notin {"metadata", "log"}, NEW u \in Users, u \notin blurred'
      PROVE  RowInv(u)'
  <2>1. RowInv(u)
    BY <1>2 DEF RestartInv, RowsInv
  <2>2. ASSUME Restorable(u) PROVE Restorable(u)'
    BY <2>2, RestorableFrame DEF RestartInv
  <2>3. ASSUME Untouched(u) PROVE Untouched(u)'
    BY <2>3 DEF Untouched, Busy
  <2> QED BY <2>1, <2>2, <2>3 DEF RowInv
<1> QED BY <1>1, <1>2 DEF RowsInv

LEMMA RestartInvStep ==
  ASSUME RestartInv, [DNext]_dvars
  PROVE  RestartInv'
<1>1. TypeOK' /\ Shape'
  BY DStepIsStep, TypeStep DEF RestartInv
<1> SUFFICES ReplayInv' /\ RowsInv'
  BY <1>1 DEF RestartInv
<1>2. CASE DStartNew
  BY <1>1, <1>2, StartNewStep
<1>3. CASE DRestart
  BY <1>3, RestartStep
<1>4. CASE Keep(ReplayLine)
  BY <1>4, ReplayLineStep DEF Keep
<1>5. CASE Keep(Listen)
  BY <1>5, ListenStep
<1>6. ASSUME NEW w \in Workers, NEW r \in ClientRequest, DServe(w, r)
      PROVE  ReplayInv' /\ RowsInv'
  BY <1>1, <1>6, ServeStep
<1>7. ASSUME NEW w \in Workers, Keep(WriteLog(w)) PROVE ReplayInv' /\ RowsInv'
  BY <1>1, <1>7, WriteLogStep
<1>8. CASE Keep(ClearChunks)
  BY <1>8 DEF Keep, ClearChunks, ReplayInv, RowsInv
<1>9. CASE Keep(ClearMetadata)
  BY <1>9 DEF Keep, ClearMetadata, ReplayInv, RowsInv, RestartInv, Shape
<1>10. CASE DRemoveLog
  BY <1>10, RemoveLogStep
<1>11. CASE Keep(RemoveLogAndAbort)
  BY <1>11 DEF Keep, RemoveLogAndAbort, Die, ReplayInv, RowsInv
<1>12. ASSUME NEW u \in Users, Keep(WriteRow(u)) PROVE ReplayInv' /\ RowsInv'
  BY <1>1, <1>12, WriteRowStep
<1>13. CASE Keep(WriteMeta)
  <2>1. Base' = Base /\ UNCHANGED <<proc, tablets, work, rp, log, blurred>>
    BY <1>13 DEF Keep, WriteMeta, Base
  <2>2. cp = "rows" /\ cp' = "info" /\ todo = {}
    BY <1>13 DEF Keep, WriteMeta
  <2> QED BY <1>1, <2>1, <2>2, SameSnapshotStep
<1>14. CASE Keep(WriteChunkInfo)
  <2>1. Base' = Base /\ UNCHANGED <<proc, tablets, work, rp, log, blurred>>
    BY <1>14 DEF Keep, WriteChunkInfo, Base
  <2>2. cp = "info" /\ cp' = "sleep"
    BY <1>14 DEF Keep, WriteChunkInfo
  <2> QED BY <1>1, <2>1, <2>2, SameSnapshotStep
<1>15. CASE Keep(Crash)
  BY <1>15 DEF Keep, Crash, Die, ReplayInv, RowsInv
<1>16. CASE UNCHANGED dvars
  <2>1. /\ Base' = Base /\ UNCHANGED <<proc, tablets, work, rp, log, blurred>>
        /\ cp' = cp /\ todo' = todo
    BY <1>16 DEF dvars, vars, memory, disk, Base
  <2> QED BY <1>1, <2>1, SameSnapshotStep
<1> QED
  BY <1>2, <1>3, <1>4, <1>5, <1>6, <1>7, <1>8, <1>9, <1>10, <1>11, <1>12,
     <1>13, <1>14, <1>15, <1>16 DEF DNext

(***************************************************************************)
(* Outside the checkpointing window, load_checkpointing and replay_log     *)
(* would rebuild exactly the row in memory of every user who is not        *)
(* blurred and has no request between memory and log.                      *)
(***************************************************************************)
THEOREM RestartIsExact == DSpec => []RestartExact
<1>1. DInit => RestartInv
  <2>1. DInit => TypeOK /\ Shape
    BY TypeInit DEF DInit
  <2>2. DInit => proc = "down"
    BY DEF DInit, Init
  <2> QED BY <2>1, <2>2 DEF RestartInv, ReplayInv, RowsInv
<1>2. RestartInv /\ [DNext]_dvars => RestartInv'
  BY RestartInvStep
<1>3. RestartInv => RestartExact
  <2> SUFFICES ASSUME RestartInv, proc = "up", SnapshotWhole,
                      NEW u \in Users \ blurred, ~Busy(u)
               PROVE  Recovered[u] = tablets[u]
    BY DEF RestartExact
  <2>1. cp # "rows" /\ RowInv(u)
    BY DEF RestartInv, RowsInv, SnapshotWhole
  <2>2. Base = Loaded
    BY <2>1, BaseType DEF RestartInv
  <2> QED BY <2>1, <2>2 DEF RowInv, Restorable, Recovered
<1> QED BY <1>1, <1>2, <1>3, PTL DEF DSpec

-----------------------------------------------------------------------------
(***************************************************************************)
(* ValuesInv is inductive.  A request puts no payload into a row but its   *)
(* own: whatever else the row holds after it was there before.             *)
(***************************************************************************)
InRow(t, v) == \E f \in Files : \E i \in DOMAIN t[f] : t[f][i] = v

LEMMA RowPayloads ==
  ASSUME NEW t \in Tablet, NEW r \in Request, NEW v, InRow(ApplyRow(t, r), v)
  PROVE  InRow(t, v) \/ (r.kind \in {"put", "cput"} /\ v = r.val)
<1>1. PICK f \in Files : \E i \in DOMAIN ApplyRow(t, r)[f] : ApplyRow(t, r)[f][i] = v
  BY DEF InRow
<1>2. CASE ApplyRow(t, r)[f] = t[f]
  BY <1>1, <1>2 DEF InRow
<1>3. CASE ApplyRow(t, r)[f] = << >>
  BY <1>1, <1>3
<1>4. CASE r.kind = "put"
  <2>1. r.file \in Files /\ r.val \in Values /\ t[f] \in Seq(Values)
    BY <1>4 DEF Request, Tablet
  <2>2. ApplyRow(t, r) = [t EXCEPT ![r.file] = Append(t[r.file], r.val)]
    BY <1>4 DEF ApplyRow, Put
  <2>3. CASE f = r.file
    <3>1. ApplyRow(t, r)[f] = Append(t[f], r.val)
      BY <2>1, <2>2, <2>3 DEF Tablet
    <3>2. PICK i \in DOMAIN Append(t[f], r.val) : Append(t[f], r.val)[i] = v
      BY <1>1, <3>1
    <3>3. (i \in DOMAIN t[f] /\ t[f][i] = v) \/ v = r.val
      BY <2>1, <3>2
    <3> QED BY <1>4, <3>3 DEF InRow
  <2>4. CASE f # r.file
    BY <2>2, <2>4, <1>2 DEF Tablet
  <2> QED BY <2>3, <2>4
<1>5. CASE r.kind = "cput"
  <2>1. r.file \in Files
    BY <1>5 DEF Request
  <2>2. ApplyRow(t, r) = Cput(t, r)
    BY <1>5 DEF ApplyRow
  <2>3. CASE ApplyRow(t, r)[f] = <<r.val>>
    <3>1. v = r.val
      BY <1>1, <2>3
    <3> QED BY <1>5, <3>1
  <2>4. CASE ApplyRow(t, r)[f] # <<r.val>>
    <3>1. ApplyRow(t, r)[f] = t[f]
      BY <2>1, <2>2, <2>4 DEF Cput, Tablet
    <3> QED BY <3>1, <1>2
  <2> QED BY <2>3, <2>4
<1>6. CASE r.kind = "dele"
  <2>1. r.file \in Files
    BY <1>6 DEF Request
  <2>2. ApplyRow(t, r) = [t EXCEPT ![r.file] = << >>]
    BY <1>6 DEF ApplyRow, Dele
  <2>3. ApplyRow(t, r)[f] = t[f] \/ ApplyRow(t, r)[f] = << >>
    BY <2>1, <2>2 DEF Tablet
  <2> QED BY <2>3, <1>2, <1>3
<1>7. CASE r.kind = "rename"
  <2>1. r.file \in Files /\ r.to \in Files
    BY <1>7 DEF Request
  <2>2. ApplyRow(t, r) = Rename(t, r)
    BY <1>7 DEF ApplyRow
  <2>3. ApplyRow(t, r)[f] \in {t[f], << >>, t[r.file]}
    BY <2>1, <2>2 DEF Rename, Tablet
  <2>4. CASE ApplyRow(t, r)[f] = t[r.file]
    BY <1>1, <2>1, <2>4 DEF InRow
  <2> QED BY <2>3, <2>4, <1>2, <1>3
<1> QED BY <1>4, <1>5, <1>6, <1>7 DEF Request

LEMMA ReplayPayloads ==
  ASSUME NEW t \in Tablet, NEW r \in Request, NEW v, InRow(ReplayRow(t, r), v)
  PROVE  InRow(t, v) \/ (r.kind \in {"put", "cput"} /\ v = FirstLine[r.val])
<1>1. CASE r.kind \in {"put", "cput"}
  <2> DEFINE c == [r EXCEPT !.val = FirstLine[@]]
  <2>1. c \in Request
    BY <1>1, CutRequest
  <2>2. c.kind = r.kind /\ c.val = FirstLine[r.val]
    BY <1>1 DEF Request
  <2>3. ReplayRow(t, r) = ApplyRow(t, c)
    BY <1>1 DEF ReplayRow
  <2> HIDE DEF c
  <2> QED BY <1>1, <2>1, <2>2, <2>3, RowPayloads
<1>2. CASE r.kind = "dele"
  <2>1. ReplayRow(t, r) = ApplyRow(t, r)
    BY <1>2 DEF ReplayRow
  <2> QED BY <1>2, <2>1, RowPayloads
<1>3. CASE r.kind = "rename"
  BY <1>3 DEF ReplayRow
<1> QED BY <1>1, <1>2, <1>3 DEF Request

(***************************************************************************)
(* RowSecured, said of the payloads of the row.                            *)
(***************************************************************************)
LEMMA RowSecuredPayloads ==
  ASSUME NEW u \in Users
  PROVE  RowSecured(u) <=>
           \A v : InRow(tablets[u], v) => OnSnapshotOrLog(u, v) \/ AboutToLog(u, v)
BY DEF RowSecured, InRow

LEMMA RowSecuredPayloadsNext ==
  ASSUME NEW u \in Users
  PROVE  RowSecured(u)' <=>
           \A v : InRow(tablets'[u], v) => OnSnapshotOrLog(u, v)' \/ AboutToLog(u, v)'
BY DEF RowSecured, InRow

LEMMA EmptyRowSecured ==
  ASSUME NEW v
  PROVE  ~InRow(NoFiles, v)
BY StoreFacts DEF InRow

(***************************************************************************)
(* A payload stays accounted for while the snapshot's row, the log and the *)
(* requests in flight keep what they have.                                 *)
(***************************************************************************)
LEMMA SecuredFrame ==
  ASSUME NEW u \in Users, RowSecured(u), tablets'[u] = tablets[u],
         \A v : OnSnapshotOrLog(u, v) => OnSnapshotOrLog(u, v)',
         \A v : AboutToLog(u, v) => AboutToLog(u, v)' \/ OnSnapshotOrLog(u, v)'
  PROVE  RowSecured(u)'
BY RowSecuredPayloads, RowSecuredPayloadsNext

LEMMA SecuredReplay ==
  ASSUME ValuesInv, ReplayLine, NEW u \in Users
  PROVE  RowSecured(u)'
<1> USE DEF ValuesInv
<1>1. /\ proc = "replay" /\ log' = log /\ work' = work /\ cp' = cp /\ meta' = meta
      /\ cp_meta' = cp_meta /\ chunk' = chunk /\ rp \in DOMAIN log /\ log[rp] \in Request
      /\ tablets' = ReplayRecord(tablets, log[rp])
  BY DEF ReplayLine, disk, TypeOK
<1>2. RowSecured(u)
  BY <1>1 DEF SecuredInv
<1>3. \A v : OnSnapshotOrLog(u, v)' <=> OnSnapshotOrLog(u, v)
  BY <1>1 DEF OnSnapshotOrLog
<1>4. \A v : AboutToLog(u, v)' <=> AboutToLog(u, v)
  BY <1>1 DEF AboutToLog
<1>5. CASE log[rp].user # u
  <2>1. tablets'[u] = tablets[u]
    BY <1>1, <1>5, ReplayRecordType DEF TypeOK
  <2> QED BY <1>2, <1>3, <1>4, <2>1, SecuredFrame
<1>6. CASE log[rp].user = u
  <2>1. tablets'[u] = ReplayRow(tablets[u], log[rp]) /\ tablets[u] \in Tablet
    BY <1>1, <1>6, ReplayRecordType DEF TypeOK, Store
  <2>2. ASSUME NEW v, InRow(tablets'[u], v)
        PROVE  OnSnapshotOrLog(u, v)' \/ AboutToLog(u, v)'
    <3>1. CASE InRow(tablets[u], v)
      BY <1>2, <1>3, <1>4, <3>1, RowSecuredPayloads
    <3>2. CASE log[rp].kind \in {"put", "cput"} /\ v = FirstLine[log[rp].val]
      <4>1. log[rp].val \in Values
        BY <1>1, <3>2 DEF Request
      <4>2. FirstLine[v] = FirstLine[log[rp].val]
        BY <3>2, <4>1, FirstLineAssumption
      <4>3. Carries(log[rp], u, v)
        BY <1>6, <3>2, <4>2 DEF Carries
      <4> QED BY <1>1, <1>3, <4>3 DEF OnSnapshotOrLog
    <3> QED BY <1>1, <2>1, <2>2, <3>1, <3>2, ReplayPayloads
  <2> QED BY <2>2, RowSecuredPayloadsNext
<1> QED BY <1>5, <1>6

LEMMA SecuredServe ==
  ASSUME ValuesInv, NEW w \in Workers, NEW r \in ClientRequest, Serve(w, r),
         NEW u \in Users, RowSecured(u)
  PROVE  RowSecured(u)'
<1> USE DEF ValuesInv
<1>1. r \in Request /\ r # None
  BY NoneAssumption DEF ClientRequest
<1>2. /\ log' = log /\ cp' = cp /\ meta' = meta /\ cp_meta' = cp_meta /\ chunk' = chunk
      /\ work[w] = None /\ work' = [work EXCEPT ![w] = r]
      /\ tablets' = Apply(tablets, r)
  BY DEF Serve, disk
<1>3. work'[w] = r /\ \A x \in Workers \ {w} : work'[x] = work[x]
  BY <1>2 DEF TypeOK
<1>4. \A v : OnSnapshotOrLog(u, v)' <=> OnSnapshotOrLog(u, v)
  BY <1>2 DEF OnSnapshotOrLog
<1>5. \A v : AboutToLog(u, v) => AboutToLog(u, v)'
  <2> SUFFICES ASSUME NEW v, NEW x \in Workers, work[x] # None, Carries(work[x], u, v)
               PROVE  AboutToLog(u, v)'
    BY DEF AboutToLog
  <2>1. work'[x] # None /\ Carries(work'[x], u, v)
    BY <1>2, <1>3
  <2> QED BY <2>1 DEF AboutToLog, Carries
<1>6. CASE r.user # u
  <2>1. tablets'[u] = tablets[u]
    BY <1>1, <1>2, <1>6, ApplyType DEF TypeOK
  <2> QED BY <1>4, <1>5, <2>1, SecuredFrame
<1>7. CASE r.user = u
  <2>1. tablets'[u] = ApplyRow(tablets[u], r) /\ tablets[u] \in Tablet
    BY <1>1, <1>2, <1>7, ApplyType DEF TypeOK, Store
  <2>2. ASSUME NEW v, InRow(tablets'[u], v)
        PROVE  OnSnapshotOrLog(u, v)' \/ AboutToLog(u, v)'
    <3>1. CASE InRow(tablets[u], v)
      BY <1>4, <1>5, <3>1, RowSecuredPayloads
    <3>2. CASE r.kind \in {"put", "cput"} /\ v = r.val
      <4>1. Carries(r, u, v)
        BY <1>7, <3>2 DEF Carries
      <4> QED BY <1>1, <1>3, <4>1 DEF AboutToLog, Carries
    <3> QED BY <1>1, <2>1, <2>2, <3>1, <3>2, RowPayloads
  <2> QED BY <2>2, RowSecuredPayloadsNext
<1> QED BY <1>6, <1>7

LEMMA SecuredWriteLog ==
  ASSUME ValuesInv, NEW w \in Workers, WriteLog(w), NEW u \in Users, RowSecured(u)
  PROVE  RowSecured(u)'
<1> USE DEF ValuesInv
<1>1. /\ tablets' = tablets /\ cp' = cp /\ meta' = meta /\ cp_meta' = cp_meta
      /\ chunk' = chunk /\ log' = Append(log, work[w])
      /\ work[w] \in Request /\ log \in Seq(Request)
      /\ work' = [work EXCEPT ![w] = None]
  BY DEF WriteLog, TypeOK
<1>2. \A x \in Workers \ {w} : work'[x] = work[x]
  BY <1>1 DEF TypeOK
<1>3. /\ \A i \in DOMAIN log : i \in DOMAIN log' /\ log'[i] = log[i]
      /\ Len(log) + 1 \in DOMAIN log' /\ log'[Len(log) + 1] = work[w]
  BY <1>1
<1>4. \A v : OnSnapshotOrLog(u, v) => OnSnapshotOrLog(u, v)'
  BY <1>1, <1>3 DEF OnSnapshotOrLog, Carries
<1>5. \A v : AboutToLog(u, v) => AboutToLog(u, v)' \/ OnSnapshotOrLog(u, v)'
  <2> SUFFICES ASSUME NEW v, NEW x \in Workers, work[x] # None, Carries(work[x], u, v)
               PROVE  AboutToLog(u, v)' \/ OnSnapshotOrLog(u, v)'
    BY DEF AboutToLog
  <2>1. CASE x = w
    BY <1>3, <2>1 DEF OnSnapshotOrLog, Carries
  <2>2. CASE x # w
    BY <1>2, <2>2 DEF AboutToLog, Carries
  <2> QED BY <2>1, <2>2
<1> QED BY <1>1, <1>4, <1>5, SecuredFrame

LEMMA SecuredWriteRow ==
  ASSUME ValuesInv, NEW x \in Users, WriteRow(x), NEW u \in Users,
         u \notin todo', (cp = "rows" => u \notin todo) => RowSecured(u)
  PROVE  RowSecured(u)'
<1> USE DEF ValuesInv
<1>1. /\ cp = "rows" /\ cp' = "rows" /\ tablets' = tablets /\ log' = log /\ work' = work
      /\ todo' = todo \ {x} /\ cp_meta \subseteq cp_meta'
  BY DEF WriteRow
<1>2. \A v : AboutToLog(u, v)' <=> AboutToLog(u, v)
  BY <1>1 DEF AboutToLog
<1>3. CASE u # x
  <2>1. chunk'[u] = chunk[u]
    BY <1>3 DEF WriteRow, TypeOK, Store
  <2>2. \A v : OnSnapshotOrLog(u, v) => OnSnapshotOrLog(u, v)'
    BY <1>1, <2>1 DEF OnSnapshotOrLog, Holds
  <2>3. RowSecured(u)
    BY <1>1, <1>3
  <2> QED BY <1>1, <1>2, <2>2, <2>3, SecuredFrame
<1>4. CASE u = x /\ tablets[u] = NoFiles
  BY <1>1, <1>4, EmptyRowSecured, RowSecuredPayloadsNext
<1>5. CASE u = x /\ tablets[u] # NoFiles
  <2>1. u \in cp_meta' /\ chunk'[u] = tablets[u]
    BY <1>5 DEF WriteRow, TypeOK, Store
  <2>2. ASSUME NEW v, InRow(tablets'[u], v) PROVE OnSnapshotOrLog(u, v)'
    <3>1. Holds(chunk'[u], v)
      BY <1>1, <2>1, <2>2 DEF InRow, Holds
    <3> QED BY <1>1, <2>1, <3>1 DEF OnSnapshotOrLog
  <2> QED BY <2>2, RowSecuredPayloadsNext
<1> QED BY <1>3, <1>4, <1>5

(***************************************************************************)
(* Steps that leave rows, chunks, log and requests alone, and the snapshot *)
(* naming at least the users it named.                                     *)
(***************************************************************************)
LEMMA SecuredSame ==
  ASSUME NEW u \in Users, RowSecured(u),
         UNCHANGED <<tablets, chunk, log, work>>,
         (IF cp = "rows" THEN cp_meta ELSE meta) = (IF cp' = "rows" THEN cp_meta' ELSE meta')
  PROVE  RowSecured(u)'
<1>1. \A v : OnSnapshotOrLog(u, v) => OnSnapshotOrLog(u, v)'
  BY DEF OnSnapshotOrLog, Carries
<1>2. \A v : AboutToLog(u, v) => AboutToLog(u, v)'
  BY DEF AboutToLog, Carries
<1> QED BY <1>1, <1>2, SecuredFrame

LEMMA ValuesInvStep ==
  ASSUME ValuesInv, [Next]_vars
  PROVE  ValuesInv'
<1> USE DEF ValuesInv
<1>1. TypeOK' /\ Shape'
  BY TypeStep
<1> SUFFICES SecuredInv'
  BY <1>1
<1>2. CASE StartNew
  <2>1. tablets' = NoUsers /\ cp' = "sleep" /\ proc' = "up"
    BY <1>2 DEF StartNew, Shape
  <2>2. \A u \in Users : RowSecured(u)'
    BY <2>1, StoreFacts, EmptyRowSecured, RowSecuredPayloadsNext
  <2> QED BY <2>1, <2>2 DEF SecuredInv
<1>3. CASE Restart
  <2>1. tablets' = Loaded /\ cp' = "sleep" /\ proc' = "replay" /\ meta' = meta /\ chunk' = chunk
    BY <1>3 DEF Restart, disk, Shape
  <2>2. ASSUME NEW u \in Users PROVE RowSecured(u)'
    <3>1. CASE u \notin meta
      <4>1. tablets'[u] = NoFiles
        BY <2>1, <3>1 DEF Loaded
      <4> QED BY <4>1, EmptyRowSecured, RowSecuredPayloadsNext
    <3>2. CASE u \in meta
      <4>1. tablets'[u] = chunk'[u]
        BY <2>1, <3>2 DEF Loaded
      <4>2. ASSUME NEW v, InRow(tablets'[u], v) PROVE OnSnapshotOrLog(u, v)'
        BY <2>1, <3>2, <4>1, <4>2 DEF InRow, OnSnapshotOrLog, Holds
      <4> QED BY <4>2, RowSecuredPayloadsNext
    <3> QED BY <3>1, <3>2
  <2> QED BY <2>1, <2>2 DEF SecuredInv
<1>4. CASE ReplayLine
  <2>1. proc' = "replay"
    BY <1>4 DEF ReplayLine
  <2> QED BY <1>4, <2>1, SecuredReplay DEF SecuredInv
<1>5. CASE Listen
  <2>1. /\ proc = "replay" /\ proc' = "up" /\ UNCHANGED <<tablets, chunk, log, work>>
        /\ cp' = cp /\ cp_meta' = cp_meta /\ meta' = meta
    BY <1>5 DEF Listen, disk
  <2>2. \A u \in Users : RowSecured(u)'
    BY <2>1, SecuredSame DEF SecuredInv
  <2> QED BY <2>1, <2>2 DEF SecuredInv
<1>6. ASSUME NEW w \in Workers, NEW r \in ClientRequest, Serve(w, r) PROVE SecuredInv'
  <2>1. proc = "up" /\ proc' = "up" /\ cp' = cp /\ todo' = todo
    BY <1>6 DEF Serve
  <2>2. \A u \in Users : RowSecured(u) => RowSecured(u)'
    BY <1>6, SecuredServe
  <2> QED BY <2>1, <2>2 DEF SecuredInv
<1>7. ASSUME NEW w \in Workers, WriteLog(w) PROVE SecuredInv'
  <2>1. proc = "up" /\ proc' = "up" /\ cp' = cp /\ todo' = todo
    BY <1>7 DEF WriteLog
  <2>2. \A u \in Users : RowSecured(u) => RowSecured(u)'
    BY <1>7, SecuredWriteLog
  <2> QED BY <2>1, <2>2 DEF SecuredInv
<1>8. CASE ClearChunks
  BY <1>8 DEF ClearChunks, SecuredInv
<1>9. CASE ClearMetadata
  BY <1>9 DEF ClearMetadata, SecuredInv, Shape
<1>10. CASE RemoveLog
  BY <1>10 DEF RemoveLog, SecuredInv, Shape
<1>11. CASE RemoveLogAndAbort
  BY <1>11 DEF RemoveLogAndAbort, Die, SecuredInv
<1>12. ASSUME NEW x \in Users, WriteRow(x) PROVE SecuredInv'
  <2>1. proc = "up" /\ proc' = "up" /\ cp = "rows" /\ cp' = "rows"
    BY <1>12 DEF WriteRow, Shape
  <2>2. ASSUME NEW u \in Users, u \notin todo' PROVE RowSecured(u)'
    <3>1. (cp = "rows" => u \notin todo) => RowSecured(u)
      BY <2>1 DEF SecuredInv
    <3> QED BY <1>12, <2>2, <3>1, SecuredWriteRow
  <2> QED BY <2>1, <2>2 DEF SecuredInv
<1>13. CASE WriteMeta
  <2>1. /\ proc = "up" /\ proc' = "up" /\ cp = "rows" /\ cp' = "info" /\ todo = {}
        /\ meta' = cp_meta /\ UNCHANGED <<tablets, chunk, log, work>>
    BY <1>13 DEF WriteMeta, Shape
  <2>2. \A u \in Users : RowSecured(u)
    BY <2>1 DEF SecuredInv
  <2>3. \A u \in Users : RowSecured(u)'
    BY <2>1, <2>2, SecuredSame
  <2> QED BY <2>1, <2>3 DEF SecuredInv
<1>14. CASE WriteChunkInfo
  <2>1. /\ proc = "up" /\ proc' = "up" /\ cp = "info" /\ cp' = "sleep"
        /\ meta' = meta /\ UNCHANGED <<tablets, chunk, log, work>>
    BY <1>14 DEF WriteChunkInfo, Shape
  <2>2. \A u \in Users : RowSecured(u)'
    BY <2>1, SecuredSame DEF SecuredInv
  <2> QED BY <2>1, <2>2 DEF SecuredInv
<1>15. CASE Crash
  BY <1>15 DEF Crash, Die, SecuredInv
<1>16. CASE UNCHANGED vars
  <2>1. /\ UNCHANGED <<proc, cp, todo, cp_meta, meta>>
        /\ UNCHANGED <<tablets, chunk, log, work>>
    BY <1>16 DEF vars, memory, disk
  <2>2. \A u \in Users : RowSecured(u) => RowSecured(u)'
    BY <2>1, SecuredSame
  <2> QED BY <2>1, <2>2 DEF SecuredInv
<1> QED
  BY <1>2, <1>3, <1>4, <1>5, <1>6, <1>7, <1>8, <1>9, <1>10, <1>11, <1>12,
     <1>13, <1>14, <1>15, <1>16 DEF Next, Checkpoint

(***************************************************************************)
(* Outside the checkpointing window, whatever the requests, their order    *)
(* and the crashes, the first line of every payload a row holds is on disk *)
(* or in a request a worker is about to log.                               *)
(***************************************************************************)
THEOREM ValuesAreOnDisk == DSpec => []ValuesOnDisk
<1>1. Init => ValuesInv
  <2>1. Init => proc = "down"
    BY DEF Init
  <2> QED BY <2>1, TypeInit DEF ValuesInv, SecuredInv
<1>2. ValuesInv /\ [Next]_vars => ValuesInv'
  BY ValuesInvStep
<1>3. ValuesInv => ValuesOnDisk
  <2> SUFFICES ASSUME ValuesInv, proc = "up", SnapshotWhole, NEW u \in Users
               PROVE  Secured(u)
    BY DEF ValuesOnDisk
  <2>1. cp # "rows" /\ RowSecured(u)
    BY DEF ValuesInv, SecuredInv, SnapshotWhole
  <2>2. \A v : OnSnapshotOrLog(u, v) <=> OnDisk(u, v)
    BY <2>1 DEF OnSnapshotOrLog, OnDisk
  <2> QED BY <2>1, <2>2 DEF RowSecured, Secured
<1>4. Spec => []ValuesOnDisk
  BY <1>1, <1>2, <1>3, PTL DEF Spec
<1> QED BY <1>4, DSpecImpliesSpec, PTL
=============================================================================
