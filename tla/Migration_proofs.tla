-------------------------- MODULE Migration_proofs --------------------------
(***************************************************************************)
(* Theorems about a migration, for any finite set of users and any number  *)
(* of files, messages at a time and puts by clients.                       *)
(***************************************************************************)
EXTENDS Migration, FiniteSetTheorems, FunctionTheorems, TLAPS

(***************************************************************************)
(* A nonempty set of naturals has a least element: the intervals 0..n for  *)
(* n in T have one that strictly includes no other.                        *)
(***************************************************************************)
LEMMA Minimum ==
  ASSUME NEW T, T \subseteq Nat, T # {}
  PROVE  \E x \in T : \A y \in T : x <= y
<1> DEFINE F == {0 .. n : n \in T}
<1>1. F # {} /\ F \subseteq FiniteSubsetsOf(Nat)
  <2>1. \A n \in Nat : IsFiniteSet(0 .. n) /\ 0 .. n \subseteq Nat
    BY FS_Interval
  <2> QED BY <2>1 DEF FiniteSubsetsOf
<1>2. \E X \in F : \A Y \in F : <<Y, X>> \notin StrictSubsetOrdering(Nat)
  <2> HIDE DEF F
  <2> QED BY <1>1, FS_StrictSubsetOrderingWellFounded, WFMin, Zenon
<1>3. PICK x \in T : \A y \in T : <<0 .. y, 0 .. x>> \notin StrictSubsetOrdering(Nat)
  BY <1>2
<1>4. ASSUME NEW y \in T, y < x PROVE FALSE
  <2>1. 0 .. y \subseteq 0 .. x /\ 0 .. x \subseteq Nat /\ x \in 0 .. x /\ x \notin 0 .. y
    BY <1>4, SMT
  <2> QED BY <1>3, <2>1 DEF StrictSubsetOrdering
<1> QED BY <1>4

Rows  == [Users -> [Files -> Value]]
Marks == [garbled : SUBSET Users, overtaken : SUBSET Users, early : SUBSET Users,
          kept : SUBSET Users, hopeless : BOOLEAN]

-----------------------------------------------------------------------------
(***************************************************************************)
(* Sequences.                                                              *)
(***************************************************************************)
LEMMA SetToSeqIs ==
  ASSUME NEW S, IsFiniteSet(S)
  PROVE  /\ SetToSeq(S) \in Seq(S)
         /\ \A i, j \in DOMAIN SetToSeq(S) : SetToSeq(S)[i] = SetToSeq(S)[j] => i = j
         /\ Range(SetToSeq(S)) = S
<1> DEFINE n == Cardinality(S)
           G(g) == g \in [1 .. n -> S] /\ IsInjective(g)
           f == SetToSeq(S)
<1>1. n \in Nat /\ ExistsBijection(1 .. n, S)
  BY FS_CardinalityType
<1>2. PICK b : b \in Bijection(1 .. n, S)
  BY <1>1 DEF ExistsBijection
<1>3. G(b)
  <2>1. b \in [1 .. n -> S] /\ b \in Injection(1 .. n, S)
    BY <1>2, Fun_BijectionProperties
  <2> QED BY <2>1 DEF Injection
<1>4. f = CHOOSE g \in [1 .. n -> S] : IsInjective(g)
  BY DEF SetToSeq
<1>5. G(f)
  <2> HIDE DEF f
  <2>1. \E g \in [1 .. n -> S] : IsInjective(g)
    BY <1>3
  <2> QED BY <1>4, <2>1
<1>6. f \in Seq(S) /\ DOMAIN f = 1 .. n
  <2> HIDE DEF f, n
  <2> QED BY <1>1, <1>5
<1>7. \A i, j \in DOMAIN f : f[i] = f[j] => i = j
  BY <1>5, Zenon DEF IsInjective
<1>8. Range(f) = S
  <2>1. f \in Injection(1 .. n, S)
    BY <1>5 DEF Injection
  <2>2. Cardinality(1 .. n) = n
    BY <1>1, FS_Interval
  <2>3. f \in Surjection(1 .. n, S)
    BY <2>1, <2>2, FS_Injection
  <2> QED BY <2>3, Fun_SurjectionProperties
<1> QED BY <1>6, <1>7, <1>8

-----------------------------------------------------------------------------
(***************************************************************************)
(* The messages under way.                                                 *)
(***************************************************************************)
LEMMA MessageFields ==
  ASSUME NEW m \in Message
  PROVE  /\ m.kind \in {"put", "rest", "done"}
         /\ m.kind = "put" => /\ m.user \in Users /\ m.file \in Files /\ m.val \in Value
                              /\ m = PutMsg(m.user, m.file, m.val)
         /\ m.kind = "rest" => m = RestMsg
         /\ m.kind = "done" => m = DoneMsg
BY DEF Message, PutMsg, RestMsg, DoneMsg

LEMMA EndMessages ==
  RestMsg \in Message /\ DoneMsg \in Message /\ RestMsg.kind = "rest" /\ DoneMsg.kind = "done"
BY DEF Message, RestMsg, DoneMsg

LEMMA UsersOfAre ==
  ASSUME NEW msgs \in Seq(Message)
  PROVE  /\ UsersOf(msgs) \subseteq Users
         /\ \A i \in DOMAIN msgs : msgs[i].kind = "put" => msgs[i].user \in UsersOf(msgs)
<1>1. \A i \in DOMAIN msgs : msgs[i] \in Message
  OBVIOUS
<1>2. \A m \in Range(msgs) : m \in Message
  BY <1>1 DEF Range
<1>3. \A i \in DOMAIN msgs : msgs[i] \in Range(msgs)
  BY DEF Range
<1>4. \A m \in Range(msgs) : m.kind = "put" => m.user \in Users
  BY <1>2, MessageFields
<1> QED BY <1>3, <1>4 DEF UsersOf

(***************************************************************************)
(* A closed end keeps what is on the wire, but for users it damages.       *)
(***************************************************************************)
KeepsMarks == /\ mark.garbled \subseteq mark'.garbled /\ mark.overtaken \subseteq mark'.overtaken
              /\ mark.early \subseteq mark'.early /\ mark.kept \subseteq mark'.kept

LEMMA CloseEffect ==
  ASSUME TypeOK, NEW state, NEW msgs \in {<< >>, <<DoneMsg>>}, Close(state, msgs)
  PROVE  /\ wire' \in Seq(Message) /\ socket' \in {"open", "reset", "broken"}
         /\ unread' = unread /\ worker' = state
         /\ mark' \in Marks /\ KeepsMarks
         /\ \A i \in DOMAIN wire' :
              \/ i \in DOMAIN wire /\ wire'[i] = wire[i]
              \/ msgs # << >> /\ i = Len(wire') /\ wire'[i] = DoneMsg
         /\ \A i \in DOMAIN wire : wire[i].kind = "put" /\ wire[i].user \notin mark'.garbled =>
              i \in DOMAIN wire' /\ wire'[i] = wire[i]
<1> DEFINE all == wire \o msgs
           k == Len(wire)
<1>1. wire \in Seq(Message) /\ k \in Nat /\ mark \in Marks
  BY DEF TypeOK, Marks
<1>2. /\ msgs \in Seq(Message) /\ Len(msgs) \in {0, 1}
      /\ Len(msgs) = 1 => msgs # << >> /\ msgs[1] = DoneMsg
  <2>1. CASE msgs = << >>
    BY <2>1
  <2>2. CASE msgs = <<DoneMsg>>
    <3> DEFINE d == DoneMsg
    <3>1. d \in Message
      BY EndMessages
    <3> HIDE DEF d
    <3>2. <<d>> \in Seq(Message) /\ Len(<<d>>) = 1 /\ <<d>> # << >> /\ <<d>>[1] = d
      BY <3>1
    <3> QED BY <2>2, <3>2 DEF d
  <2> QED BY <2>1, <2>2
<1>3. /\ all \in Seq(Message) /\ Len(all) = k + Len(msgs) /\ Len(all) \in Nat
      /\ \A i \in 1 .. k : all[i] = wire[i]
      /\ Len(msgs) = 1 => all[k + 1] = DoneMsg
  BY <1>1, <1>2
<1>4. DOMAIN wire = 1 .. k
  BY <1>1
<1>0. \A n \in 0 .. Len(all), i \in Nat :
        i \in 1 .. n => i \in 1 .. k \/ (i = k + 1 /\ Len(msgs) = 1 /\ i = n)
  <2> DEFINE e == Len(msgs)
             q == Len(all)
  <2>1. e \in {0, 1} /\ q = k + e /\ k \in Nat /\ q \in Nat
    BY <1>1, <1>2, <1>3
  <2> HIDE DEF e, q, k
  <2>2. \A n \in 0 .. q, i \in Nat : i \in 1 .. n => i \in 1 .. k \/ (i = k + 1 /\ e = 1 /\ i = n)
    BY <2>1
  <2> QED BY <2>2 DEF e, q
<1> HIDE DEF all, k
<1>5. CASE ~unread
  <2>1. wire' = all /\ socket' = socket /\ mark' = mark /\ worker' = state /\ unread' = unread
    BY <1>5 DEF Close, all
  <2>2. DOMAIN wire' = 1 .. Len(all)
    BY <2>1, <1>3
  <2>3. \A i \in DOMAIN wire' : i \in 1 .. k \/ (i = k + 1 /\ Len(msgs) = 1 /\ i = Len(wire'))
    <3>1. Len(all) \in 0 .. Len(all) /\ Len(wire') = Len(all)
      BY <2>1, <1>3
    <3>2. \A i \in DOMAIN wire' : i \in Nat /\ i \in 1 .. Len(all)
      BY <2>2
    <3> QED BY <3>1, <3>2, <1>0
  <2>4. \A i \in DOMAIN wire : i \in DOMAIN wire' /\ wire'[i] = wire[i]
    BY <2>1, <2>2, <1>1, <1>2, <1>3, <1>4
  <2> QED BY <2>1, <2>3, <2>4, <1>1, <1>2, <1>3, <1>4 DEF KeepsMarks, TypeOK
<1>6. CASE unread
  <2>1. PICK n \in 0 .. Len(all) :
          LET lost == SubSeq(all, n + 1, Len(all)) IN
          /\ wire' = SubSeq(all, 1, n)
          /\ mark' = [mark EXCEPT !.garbled = @ \cup UsersOf(lost), !.hopeless = @ \/ lost # << >>]
    BY <1>6 DEF Close, all
  <2>2. socket' = "reset" /\ worker' = state /\ unread' = unread
    BY <1>6 DEF Close
  <2> DEFINE lost == SubSeq(all, n + 1, Len(all))
  <2>3. /\ wire' \in Seq(Message) /\ DOMAIN wire' = 1 .. n /\ Len(wire') = n
        /\ \A i \in 1 .. n : wire'[i] = all[i]
    BY <2>1, <1>3
  <2>4. /\ lost \in Seq(Message) /\ DOMAIN lost = 1 .. (Len(all) - n)
        /\ \A i \in 1 .. (Len(all) - n) : lost[i] = all[n + i]
    BY <1>3
  <2> HIDE DEF lost
  <2>5. UsersOf(lost) \subseteq Users
    BY <2>4, UsersOfAre
  <2>6. /\ mark' \in Marks /\ KeepsMarks
        /\ mark'.garbled = mark.garbled \cup UsersOf(lost)
    <3>1. mark' = [mark EXCEPT !.garbled = @ \cup UsersOf(lost), !.hopeless = @ \/ lost # << >>]
      BY <2>1 DEF lost
    <3> QED BY <3>1, <2>5, <1>1 DEF Marks, KeepsMarks
  <2>7. \A i \in 1 .. k : i > n => (wire[i].kind = "put" => wire[i].user \in mark'.garbled)
    <3> TAKE i \in 1 .. k
    <3> HAVE i > n
    <3>1. i - n \in 1 .. (Len(all) - n) /\ lost[i - n] = all[i] /\ all[i] = wire[i]
      BY <2>4, <1>1, <1>2, <1>3
    <3>2. lost[i - n].kind = "put" => lost[i - n].user \in UsersOf(lost)
      BY <3>1, <2>4, UsersOfAre
    <3> QED BY <3>1, <3>2, <2>6
  <2>8. \A i \in DOMAIN wire' : i \in 1 .. k \/ (i = k + 1 /\ Len(msgs) = 1 /\ i = Len(wire'))
    <3>1. \A i \in DOMAIN wire' : i \in Nat /\ i \in 1 .. n
      BY <2>3
    <3> QED BY <3>1, <2>3, <1>0
  <2>9. \A i \in 1 .. k : i <= n => i \in DOMAIN wire' /\ wire'[i] = wire[i]
    BY <2>3, <1>3
  <2>10. \A i \in 1 .. k : i <= n \/ i > n
    BY <1>1
  <2> QED BY <2>2, <2>3, <2>6, <2>7, <2>8, <2>9, <2>10, <1>1, <1>2, <1>3, <1>4
<1> QED BY <1>5, <1>6 DEF TypeOK

(***************************************************************************)
(* recv takes the first messages off the wire.  It stores the first, and   *)
(* damages the users of the puts it merges.                                *)
(***************************************************************************)
Taken(n) ==
  /\ n <= Len(wire) /\ Len(wire') = Len(wire) - n
  /\ \A i \in 1 .. Len(wire') : wire'[i] = wire[i + n]

StoresFirst(v) ==
  LET m == wire[1] IN new' = [new EXCEPT ![m.user][m.file] = @ \o v]

LEMMA TakenOff ==
  ASSUME NEW s \in Seq(Message), NEW n \in Nat, n <= Len(s)
  PROVE  LET t == SubSeq(s, n + 1, Len(s)) IN
         /\ t \in Seq(Message) /\ Len(t) = Len(s) - n
         /\ \A i \in 1 .. Len(t) : t[i] = s[i + n]
<1> DEFINE t == SubSeq(s, n + 1, Len(s))
<1>1. t \in Seq(Message) /\ Len(t) = Len(s) - n
  OBVIOUS
<1>2. ASSUME NEW i \in 1 .. Len(t) PROVE t[i] = s[i + n]
  BY <1>1
<1> QED BY <1>1, <1>2

LEMMA AnswerTypes ==
  ASSUME TypeOK, Answer
  PROVE  /\ unread' \in BOOLEAN /\ socket' \in {"open", "reset", "broken"}
         /\ fetcher' \in {fetcher, "dead"}
BY DEF TypeOK, Answer

LEMMA ReadEffect ==
  ASSUME TypeOK, Read
  PROVE  \E n \in 1 .. Batch :
           /\ wire' \in Seq(Message) /\ wire # << >> /\ Taken(n)
           /\ mark' \in Marks /\ KeepsMarks
           /\ \A i \in 1 .. n : wire[i].kind = "put" => n = 1 \/ wire[i].user \in mark'.garbled
           /\ wire[1].kind = "put" =>
                /\ \E v \in Value : (n = 1 => v = wire[1].val) /\ StoresFirst(v)
                /\ Answer
           /\ wire[1].kind = "rest" => UNCHANGED <<new, fetcher, unread, socket>>
           /\ wire[1].kind = "done" => fetcher' = "done" /\ UNCHANGED <<new, unread, socket>>
<1>1. PICK n \in 1 .. Batch :
        LET msgs == SubSeq(wire, 1, n)
            m    == wire[1]
        IN
        /\ fetcher = "fetch" /\ n <= Len(wire)
        /\ wire' = SubSeq(wire, n + 1, Len(wire))
        /\ mark' = [mark EXCEPT !.garbled = @ \cup (IF n = 1 /\ m.kind = "put" THEN {}
                                                   ELSE UsersOf(msgs)),
                                !.hopeless = @ \/ (n > 1 /\ DoneMsg \in Range(msgs))]
        /\ \/ /\ m.kind = "put"
              /\ Store(m.user, m.file, m.val \o (IF n > 1 THEN <<Junk>> ELSE <<>>))
              /\ Answer
           \/ /\ m.kind = "rest"
              /\ UNCHANGED <<new, fetcher, unread, socket>>
           \/ /\ m.kind = "done"
              /\ fetcher' = "done"
              /\ UNCHANGED <<new, unread, socket>>
  BY Zenon DEF Read
<1> DEFINE msgs == SubSeq(wire, 1, n)
           m == wire[1]
<1>2. wire \in Seq(Message) /\ mark \in Marks /\ n \in Nat /\ n >= 1 /\ n <= Len(wire)
  BY <1>1, BoundsAssumption DEF TypeOK, Marks
<1>3. /\ msgs \in Seq(Message) /\ DOMAIN msgs = 1 .. n
      /\ \A i \in 1 .. n : msgs[i] = wire[i]
  BY <1>2
<1>4. m \in Message /\ wire # << >>
  BY <1>2
<1>5. wire' \in Seq(Message) /\ Taken(n)
  <2>1. wire' = SubSeq(wire, n + 1, Len(wire))
    BY <1>1
  <2> QED BY <2>1, <1>2, TakenOff DEF Taken
<1> HIDE DEF msgs
<1>6. /\ UsersOf(msgs) \subseteq Users
      /\ \A i \in 1 .. n : wire[i].kind = "put" => wire[i].user \in UsersOf(msgs)
  BY <1>3, UsersOfAre
<1>7. /\ mark' \in Marks /\ KeepsMarks
      /\ mark'.garbled = mark.garbled \cup (IF n = 1 /\ m.kind = "put" THEN {} ELSE UsersOf(msgs))
  <2> DEFINE X == IF n = 1 /\ m.kind = "put" THEN {} ELSE UsersOf(msgs)
             b == mark.hopeless \/ (n > 1 /\ DoneMsg \in Range(msgs))
  <2>1. mark' = [mark EXCEPT !.garbled = @ \cup X, !.hopeless = b]
    BY <1>1 DEF msgs
  <2>2. X \subseteq Users /\ b \in BOOLEAN
    BY <1>6
  <2> HIDE DEF X, b
  <2>3. mark' \in Marks /\ KeepsMarks /\ mark'.garbled = mark.garbled \cup X
    BY <2>1, <2>2, <1>2 DEF Marks, KeepsMarks
  <2> QED BY <2>3 DEF X
<1>8. \A i \in 1 .. n : wire[i].kind = "put" => n = 1 \/ wire[i].user \in mark'.garbled
  BY <1>6, <1>7
<1>9. m.kind = "put" => /\ \E v \in Value : (n = 1 => v = m.val) /\ StoresFirst(v)
                        /\ Answer
  <2> SUFFICES ASSUME m.kind = "put"
               PROVE  (\E v \in Value : (n = 1 => v = m.val) /\ StoresFirst(v)) /\ Answer
    OBVIOUS
  <2> DEFINE w == IF n > 1 THEN <<Junk>> ELSE << >>
             v == m.val \o w
  <2>1. m.val \in Value /\ m.user \in Users /\ m.file \in Files
    BY <1>4, MessageFields
  <2>2. Store(m.user, m.file, v) /\ Answer
    BY <1>1
  <2>3. w \in Value /\ (n = 1 => w = << >>)
    <3>1. Junk \in Tokens
      BY BoundsAssumption DEF Tokens, Junk
    <3> HIDE DEF Tokens, Junk
    <3>2. << >> \in Seq(Tokens) /\ <<Junk>> \in Seq(Tokens)
      BY <3>1
    <3>3. n = 1 => ~(n > 1)
      OBVIOUS
    <3> QED BY <3>2, <3>3 DEF Value
  <2> HIDE DEF w
  <2>4. v \in Value /\ (n = 1 => v = m.val)
    BY <2>1, <2>3 DEF Value
  <2>5. StoresFirst(v)
    BY <2>2 DEF Store, StoresFirst
  <2> QED BY <2>2, <2>4, <2>5
<1>10. /\ m.kind = "rest" => UNCHANGED <<new, fetcher, unread, socket>>
       /\ m.kind = "done" => fetcher' = "done" /\ UNCHANGED <<new, unread, socket>>
  BY <1>1
<1> QED BY <1>4, <1>5, <1>7, <1>8, <1>9, <1>10

(***************************************************************************)
(* recv leaves the end of a put on the wire.                               *)
(***************************************************************************)
LEMMA ReadPartEffect ==
  ASSUME TypeOK, ReadPart
  PROVE  /\ wire' \in Seq(Message) /\ Len(wire') = Len(wire) /\ wire # << >>
         /\ wire[1].kind = "put" /\ wire'[1] = RestMsg
         /\ \A i \in 2 .. Len(wire) : wire'[i] = wire[i]
         /\ mark' \in Marks /\ KeepsMarks /\ wire[1].user \in mark'.garbled
         /\ (\E v \in Value : Store(wire[1].user, wire[1].file, v)) /\ Answer
<1> DEFINE m == wire[1]
           t == Tail(wire)
<1>1. wire \in Seq(Message) /\ wire # << >> /\ m.kind = "put" /\ mark \in Marks
  BY DEF TypeOK, ReadPart, Marks
<1>2. /\ Len(m.val) > 1 /\ Store(m.user, m.file, <<m.val[1]>>) /\ Answer
      /\ mark' = [mark EXCEPT !.garbled = @ \cup {m.user}] /\ wire' = <<RestMsg>> \o t
  BY DEF ReadPart
<1>3. m \in Message
  BY <1>1
<1>4. m.val \in Value /\ m.user \in Users /\ m.file \in Files
  BY <1>1, <1>3, MessageFields
<1>5. <<m.val[1]>> \in Value
  BY <1>2, <1>4 DEF Value
<1>6. /\ t \in Seq(Message) /\ Len(t) = Len(wire) - 1
      /\ \A i \in 1 .. Len(t) : t[i] = wire[i + 1]
  BY <1>1
<1> DEFINE r == RestMsg
<1>7. r \in Message
  BY EndMessages
<1> HIDE DEF r, t
<1>8. /\ wire' \in Seq(Message) /\ Len(wire') = Len(wire) /\ wire'[1] = r
      /\ \A i \in 2 .. Len(wire) : wire'[i] = t[i - 1]
  <2>1. wire' = <<r>> \o t
    BY <1>2 DEF r
  <2> QED BY <2>1, <1>1, <1>6, <1>7
<1>9. \A i \in 2 .. Len(wire) : t[i - 1] = wire[i]
  <2> TAKE i \in 2 .. Len(wire)
  <2>1. i - 1 \in 1 .. Len(t) /\ (i - 1) + 1 = i
    BY <1>1, <1>6
  <2> QED BY <2>1, <1>6
<1>10. mark' \in Marks /\ KeepsMarks /\ m.user \in mark'.garbled
  BY <1>1, <1>2, <1>4 DEF Marks, KeepsMarks
<1> QED BY <1>1, <1>2, <1>5, <1>8, <1>9, <1>10 DEF r

(***************************************************************************)
(* The loops over the files of a row.                                      *)
(***************************************************************************)
LEMMA UserIs ==
  ASSUME TypeOK, NEW state, Serving(state)
  PROVE  user \in Users /\ list # << >> /\ worker = state /\ list \in Seq(Users)
BY DEF TypeOK, Serving, user

LEMMA NextFileIs ==
  ASSUME TypeOK, NEW row, Ahead(row) # {}
  PROVE  /\ NextFile(row) \in Files /\ NextFile(row) > cursor /\ row[NextFile(row)] # NoFile
         /\ \A g \in Files : g > cursor /\ g < NextFile(row) => row[g] = NoFile
<1>1. Ahead(row) \subseteq Nat /\ cursor \in Nat /\ Files \subseteq Nat
  BY BoundsAssumption DEF Ahead, Files, TypeOK
<1>2. \E f \in Ahead(row) : \A g \in Ahead(row) : f <= g
  BY <1>1, Minimum
<1>3. NextFile(row) \in Ahead(row) /\ \A g \in Ahead(row) : NextFile(row) <= g
  <2> DEFINE f == NextFile(row)
  <2>1. f = CHOOSE f1 \in Ahead(row) : \A g \in Ahead(row) : f1 <= g
    BY DEF NextFile
  <2> HIDE DEF f
  <2>2. f \in Ahead(row) /\ \A g \in Ahead(row) : f <= g
    BY <1>2, <2>1
  <2> QED BY <2>2 DEF f
<1> QED
  <2> DEFINE f == NextFile(row)
  <2> HIDE DEF f
  <2>1. f \in Ahead(row) /\ \A g \in Ahead(row) : f <= g
    BY <1>3 DEF f
  <2>2. f \in Files /\ f > cursor /\ row[f] # NoFile
    BY <2>1 DEF Ahead
  <2>3. \A g \in Files : g > cursor /\ g < f => row[g] = NoFile
    <3> TAKE g \in Files
    <3>1. g \in Nat /\ f \in Nat
      BY <1>1, <2>2
    <3>2. g > cursor /\ row[g] # NoFile => f <= g
      BY <2>1 DEF Ahead
    <3> QED BY <3>1, <3>2
  <2> QED BY <2>2, <2>3 DEF f

-----------------------------------------------------------------------------
(***************************************************************************)
(* Types.                                                                  *)
(***************************************************************************)
LEMMA TypesInit ==
  ASSUME Init
  PROVE  TypeOK
<1>1. << >> \in Value /\ <<1, 2>> \in Value
  <2>1. 1 \in Tokens /\ 2 \in Tokens
    BY BoundsAssumption DEF Tokens
  <2> HIDE DEF Tokens
  <2> QED BY <2>1 DEF Value
<1>2. old \in [Users -> [Files -> Value]] /\ given = old
  <2>1. old \in [Users -> [Files -> {NoFile, <<1, 2>>}]] /\ given = old
    BY DEF Init
  <2>2. {NoFile, <<1, 2>>} \subseteq Value
    BY <1>1 DEF NoFile
  <2> DEFINE some == {NoFile, <<1, 2>>}
  <2>3. old \in [Users -> [Files -> some]] /\ some \subseteq Value
    BY <2>1, <2>2
  <2> HIDE DEF some
  <2> QED BY <2>1, <2>3
<1>3. new \in [Users -> [Files -> Value]]
  BY <1>1 DEF Init, NoRow, NoFile
<1>4. listed \subseteq Users /\ list \in Seq(Users)
  <2>1. listed \subseteq Users /\ list = SetToSeq(listed)
    BY DEF Init
  <2>2. list \in Seq(listed)
    BY <2>1, UsersAssumption, FS_Subset, SetToSeqIs
  <2> QED BY <2>1, <2>2
<1>5. wire \in Seq(Message)
  BY DEF Init
<1>6. cursor \in 0 .. NumFiles /\ puts \in 0 .. MaxPuts
  BY BoundsAssumption DEF Init
<1>7. mark \in Marks
  BY DEF Init, Marks
<1> QED BY <1>2, <1>3, <1>4, <1>5, <1>6, <1>7 DEF Init, TypeOK, Marks

\* What a client puts.
LEMMA GivenTypes ==
  ASSUME TypeOK, NEW u \in Users, NEW f \in Files, Given(u, f)
  PROVE  /\ puts' \in 0 .. MaxPuts /\ given' \in Rows
         /\ Piece \in Tokens /\ <<Piece>> \in Value
         /\ given' = [given EXCEPT ![u][f] = Append(@, Piece)]
<1>1. Piece \in Tokens /\ puts' \in 0 .. MaxPuts
  BY BoundsAssumption DEF Given, Piece, Tokens, TypeOK
<1> DEFINE p == Piece
<1> HIDE DEF p
<1>2. p \in Tokens
  BY <1>1 DEF p
<1>3. <<p>> \in Value /\ Append(given[u][f], p) \in Value
  BY <1>2 DEF Value, TypeOK
<1>4. given' = [given EXCEPT ![u][f] = Append(@, p)]
  BY DEF Given, p
<1>5. given' \in Rows
  BY <1>3, <1>4 DEF TypeOK, Rows
<1> QED BY <1>1, <1>3, <1>4, <1>5 DEF p

LEMMA StoreTypes ==
  ASSUME TypeOK, NEW u \in Users, NEW f \in Files, NEW v \in Value, Store(u, f, v)
  PROVE  new' \in Rows
<1>1. new[u][f] \o v \in Value
  BY DEF TypeOK, Value
<1> QED BY <1>1 DEF Store, TypeOK, Rows

LEMMA TypesStep ==
  ASSUME TypeOK, [Next]_vars
  PROVE  TypeOK'
<1> USE DEF oldNode, conn, newNode, story
<1>1. CASE UNCHANGED vars
  BY <1>1 DEF vars, TypeOK
<1>2. CASE Request
  BY <1>2 DEF Request, TypeOK
<1>3. CASE Read
  <2>1. PICK n \in 1 .. Batch :
           /\ wire' \in Seq(Message) /\ wire # << >>
           /\ mark' \in Marks
           /\ wire[1].kind = "put" =>
                /\ \E v \in Value : StoresFirst(v)
                /\ Answer
           /\ wire[1].kind = "rest" => UNCHANGED <<new, fetcher, unread, socket>>
           /\ wire[1].kind = "done" => fetcher' = "done" /\ UNCHANGED <<new, unread, socket>>
    BY <1>3, ReadEffect
  <2>2. wire[1] \in Message
    BY <2>1 DEF TypeOK
  <2>3. UNCHANGED <<oldNode, puts, given, listed>>
    BY <1>3 DEF Read
  <2>4. CASE wire[1].kind = "put"
    <3>1. new' \in Rows
      <4>1. wire[1].user \in Users /\ wire[1].file \in Files
        BY <2>2, <2>4, MessageFields
      <4>2. PICK v \in Value : StoresFirst(v)
        BY <2>1, <2>4
      <4>3. Store(wire[1].user, wire[1].file, v)
        BY <4>2 DEF StoresFirst, Store
      <4> QED BY <4>1, <4>3, StoreTypes
    <3> QED BY <2>1, <2>3, <2>4, <3>1, AnswerTypes DEF TypeOK, Marks, Rows
  <2>5. CASE wire[1].kind # "put"
    BY <2>1, <2>2, <2>3, <2>5, MessageFields DEF TypeOK, Marks, Rows
  <2> QED BY <2>4, <2>5
<1>4. CASE ReadPart
  <2>1. /\ wire' \in Seq(Message) /\ wire # << >> /\ wire[1].kind = "put" /\ mark' \in Marks
        /\ (\E v \in Value : Store(wire[1].user, wire[1].file, v)) /\ Answer
    BY <1>4, ReadPartEffect
  <2>2. wire[1] \in Message
    BY <2>1 DEF TypeOK
  <2>3. new' \in Rows
    BY <2>1, <2>2, MessageFields, StoreTypes
  <2>4. UNCHANGED <<oldNode, puts, given, listed>>
    BY <1>4 DEF ReadPart
  <2> QED BY <2>1, <2>3, <2>4, AnswerTypes DEF TypeOK, Marks, Rows
<1>5. ASSUME NEW state \in {"closed", "dead"}, NEW msgs \in {<< >>, <<DoneMsg>>},
             Close(state, msgs),
             UNCHANGED <<old, place, list, cursor, newNode, puts, given, listed>>
      PROVE  TypeOK'
  <2>1. /\ wire' \in Seq(Message) /\ socket' \in {"open", "reset", "broken"}
        /\ unread' = unread /\ worker' = state /\ mark' \in Marks
    BY <1>5, CloseEffect
  <2> QED BY <1>5, <2>1 DEF TypeOK, Marks
<1>6. CASE NoSuchRow
  BY <1>5, <1>6 DEF NoSuchRow
<1>7. CASE SendFile
  <2>1. user \in Users /\ list # << >>
    BY <1>7, UserIs DEF SendFile
  <2>2. cursor' = NextFile(old[user]) /\ cursor' \in Files
    BY <1>7, NextFileIs DEF SendFile
  <2>3. PutMsg(user, cursor', old[user][cursor']) \in Message
    BY <2>1, <2>2 DEF TypeOK, PutMsg, Message
  <2>4. wire' \in Seq(Message)
    <3> DEFINE m == PutMsg(user, cursor', old[user][cursor'])
    <3>1. wire' \in {Append(wire, m), wire}
      BY <1>7 DEF SendFile
    <3>2. m \in Message
      BY <2>3
    <3> HIDE DEF m
    <3>3. wire \in Seq(Message)
      BY DEF TypeOK
    <3> QED BY <3>1, <3>2, <3>3
  <2>5. cursor' \in 0 .. NumFiles
    BY <2>2, BoundsAssumption DEF Files
  <2>6. /\ worker' \in {"send", "dead"}
        /\ UNCHANGED <<old, place, list, unread, socket, newNode, story>>
    BY <1>7, UserIs DEF SendFile, Serving
  <2> QED BY <2>4, <2>5, <2>6 DEF TypeOK
<1>8. CASE SentAll
  BY <1>8, BoundsAssumption DEF SentAll, TypeOK
<1>9. CASE EraseFile
  <2> DEFINE f    == NextFile(old[user])
             left == [old[user] EXCEPT ![f] = NoFile]
  <2>1. user \in Users /\ list # << >> /\ list \in Seq(Users)
    BY <1>9, UserIs DEF EraseFile
  <2>2. f \in Files /\ old[user][f] # NoFile
    BY <1>9, NextFileIs DEF EraseFile
  <2>3. /\ old' = [old EXCEPT ![user] = left]
        /\ place' = IF left = NoRow THEN [place EXCEPT ![user] = "nowhere"] ELSE place
        /\ UNCHANGED <<newNode, puts, given, listed>>
    BY <1>9 DEF EraseFile
  <2>4. /\ old' \in Rows /\ place' \in [Users -> {"memory", "virmem", "nowhere"}]
        /\ \A u \in Users : (place'[u] = "nowhere") = (old'[u] = NoRow)
    <3>1. /\ left \in [Files -> Value] /\ old \in Rows
          /\ place \in [Users -> {"memory", "virmem", "nowhere"}]
      <4>1. old \in Rows /\ place \in [Users -> {"memory", "virmem", "nowhere"}]
        BY DEF TypeOK, Rows
      <4>2. NoFile \in Value
        BY DEF NoFile, Value
      <4> HIDE DEF f
      <4> QED BY <2>1, <2>2, <4>1, <4>2 DEF Rows
    <3>2. old[user] # NoRow
      BY <2>2 DEF NoRow
    <3> HIDE DEF left, f
    <3>3. old' \in Rows /\ old'[user] = left /\ \A u \in Users \ {user} : old'[u] = old[u]
      BY <2>1, <2>3, <3>1 DEF Rows
    <3>4. /\ place' \in [Users -> {"memory", "virmem", "nowhere"}]
          /\ \A u \in Users \ {user} : place'[u] = place[u]
          /\ place'[user] = IF left = NoRow THEN "nowhere" ELSE place[user]
      BY <2>1, <2>3, <3>1
    <3>5. place'[user] = "nowhere" <=> old'[user] = NoRow
      <4>1. place[user] # "nowhere"
        BY <2>1, <3>2 DEF TypeOK
      <4> QED BY <3>3, <3>4, <4>1
    <3>6. ASSUME NEW u \in Users \ {user} PROVE (place'[u] = "nowhere") = (old'[u] = NoRow)
      <4>1. (place[u] = "nowhere") = (old[u] = NoRow)
        BY DEF TypeOK
      <4> QED BY <3>3, <3>4, <4>1
    <3> QED BY <3>3, <3>4, <3>5, <3>6
  <2>5. CASE /\ left # NoRow
             /\ cursor' = f
             /\ UNCHANGED <<worker, list, conn, mark>>
    <3>1. cursor' \in 0 .. NumFiles
      BY <2>2, <2>5, BoundsAssumption DEF Files
    <3> QED BY <2>3, <2>4, <2>5, <3>1 DEF TypeOK, Rows
  <2>6. CASE /\ Leave
             /\ mark' = IF left = NoRow THEN mark ELSE [mark EXCEPT !.kept = @ \cup {user}]
             /\ UNCHANGED conn
    <3>1. mark' \in Marks
      BY <2>1, <2>6 DEF Marks, TypeOK
    <3>2. list' \in Seq(Users) /\ cursor' \in 0 .. NumFiles /\ worker' = "send"
      BY <2>1, <2>6, BoundsAssumption DEF Leave
    <3> QED BY <2>3, <2>4, <2>6, <3>1, <3>2 DEF TypeOK, Rows, Marks
  <2>7. CASE Close("dead", << >>) /\ UNCHANGED <<list, cursor>>
    <3>1. /\ wire' \in Seq(Message) /\ socket' \in {"open", "reset", "broken"}
          /\ unread' = unread /\ worker' = "dead" /\ mark' \in Marks
      BY <2>7, CloseEffect
    <3> QED BY <2>3, <2>4, <2>7, <3>1 DEF TypeOK, Rows, Marks
  <2> QED BY <1>9, <2>5, <2>6, <2>7 DEF EraseFile
<1>10. CASE ErasedAll
  <2>1. list # << >> /\ list \in Seq(Users)
    BY <1>10, UserIs DEF ErasedAll
  <2> QED BY <1>10, <2>1, BoundsAssumption DEF ErasedAll, Leave, TypeOK
<1>11. CASE Finish
  BY <1>5, <1>11 DEF Finish
<1>12. CASE Crash
  <2>1. CASE fetcher' = "dead" /\ UNCHANGED <<oldNode, conn, new, story>>
    BY <2>1 DEF TypeOK
  <2> QED BY <1>5, <1>12, <2>1 DEF Crash
<1>13. ASSUME NEW u \in Users, NEW f \in Files, PutNew(u, f) PROVE TypeOK'
  <2>1. /\ puts' \in 0 .. MaxPuts /\ given' \in Rows /\ <<Piece>> \in Value
    BY <1>13, GivenTypes DEF PutNew
  <2>2. new' \in Rows
    BY <1>13, <2>1, StoreTypes DEF PutNew
  <2>3. mark' \in Marks
    BY <1>13 DEF PutNew, TypeOK, Marks
  <2> QED BY <1>13, <2>1, <2>2, <2>3 DEF PutNew, TypeOK, Rows, Marks
<1>14. ASSUME NEW u \in Users, NEW f \in Files, PutOld(u, f) PROVE TypeOK'
  <2>1. /\ puts' \in 0 .. MaxPuts /\ given' \in Rows /\ Piece \in Tokens
    BY <1>14, GivenTypes DEF PutOld
  <2> DEFINE p == Piece
             v == Append(old[u][f], p)
  <2>2. old' = [old EXCEPT ![u][f] = v] /\ place' = [place EXCEPT ![u] = "memory"]
    BY <1>14 DEF PutOld
  <2>3. v \in Value /\ v # NoFile
    <3>1. p \in Tokens
      BY <2>1
    <3> HIDE DEF p
    <3>2. old[u][f] \in Seq(Tokens)
      BY DEF TypeOK, Value
    <3> QED BY <3>1, <3>2 DEF Value, NoFile
  <2> HIDE DEF v, p
  <2>4. /\ old' \in Rows /\ old'[u] # NoRow
        /\ \A w \in Users \ {u} : old'[w] = old[w]
    <3>1. old' \in Rows /\ old'[u][f] = v /\ \A w \in Users \ {u} : old'[w] = old[w]
      BY <2>2, <2>3 DEF TypeOK, Rows
    <3> QED BY <2>3, <3>1 DEF NoRow
  <2>5. /\ place' \in [Users -> {"memory", "virmem", "nowhere"}] /\ place'[u] = "memory"
        /\ \A w \in Users \ {u} : place'[w] = place[w]
    BY <2>2 DEF TypeOK
  <2>6. mark' \in Marks
    BY <1>14 DEF PutOld, TypeOK, Marks
  <2>7. UNCHANGED <<worker, list, cursor, conn, newNode, listed>>
    BY <1>14 DEF PutOld
  <2>8. \A w \in Users : (place'[w] = "nowhere") = (old'[w] = NoRow)
    BY <2>4, <2>5 DEF TypeOK
  <2> QED BY <2>1, <2>4, <2>5, <2>6, <2>7, <2>8 DEF TypeOK, Rows, Marks
<1> QED
  BY <1>1, <1>2, <1>3, <1>4, <1>6, <1>7, <1>8, <1>9, <1>10, <1>11, <1>12, <1>13, <1>14
  DEF Next, Fetcher, Worker, Client

(***************************************************************************)
(* The state of a migration has the types it is declared with: rows and    *)
(* messages are made of pieces, and a user's place says whether the old    *)
(* node has anything for him.                                              *)
(***************************************************************************)
THEOREM MigrationTypes == Spec => []TypeOK
<1> QED BY TypesInit, TypesStep, PTL DEF Spec

-----------------------------------------------------------------------------
(***************************************************************************)
(* What a step does to the puts of an undamaged user: it keeps them, in    *)
(* their order, or it stores the first of the wire whole.                  *)
(***************************************************************************)
IsFor(m, u) == m.kind = "put" /\ m.user = u

KeepsFor(u) ==
  /\ new'[u] = new[u]
  /\ \E d \in Int :
       /\ \A i \in DOMAIN wire :
            IsFor(wire[i], u) => i - d \in DOMAIN wire' /\ wire'[i - d] = wire[i]
       /\ \A i \in DOMAIN wire' :
            IsFor(wire'[i], u) => i + d \in DOMAIN wire /\ wire[i + d] = wire'[i]

StoresFor(u) == wire # << >> /\ IsFor(wire[1], u) /\ Taken(1) /\ StoresFirst(wire[1].val)

Passes(u) == KeepsFor(u) \/ StoresFor(u)

LEMMA StillPasses ==
  ASSUME TypeOK, NEW u \in Users, UNCHANGED <<wire, new>>
  PROVE  Passes(u)
<1>1. wire \in Seq(Message) /\ wire' = wire /\ new' = new
  BY DEF TypeOK
<1>2. \A i \in DOMAIN wire : i \in Int /\ i - 0 = i /\ i + 0 = i
  BY <1>1
<1>3. 0 \in Int
  OBVIOUS
<1> QED BY <1>1, <1>2, <1>3 DEF Passes, KeepsFor

LEMMA ClosePasses ==
  ASSUME TypeOK, NEW u \in Users, NEW state, NEW msgs \in {<< >>, <<DoneMsg>>}, Close(state, msgs),
         UNCHANGED new, u \notin mark'.garbled
  PROVE  Passes(u)
<1>1. /\ wire' \in Seq(Message)
      /\ \A i \in DOMAIN wire' :
           \/ i \in DOMAIN wire /\ wire'[i] = wire[i]
           \/ msgs # << >> /\ i = Len(wire') /\ wire'[i] = DoneMsg
      /\ \A i \in DOMAIN wire : wire[i].kind = "put" /\ wire[i].user \notin mark'.garbled =>
           i \in DOMAIN wire' /\ wire'[i] = wire[i]
  BY CloseEffect
<1>2. wire \in Seq(Message)
  BY DEF TypeOK
<1>3. \A i \in DOMAIN wire \cup DOMAIN wire' : i \in Int /\ i - 0 = i /\ i + 0 = i
  BY <1>1, <1>2
<1>4. \A i \in DOMAIN wire : IsFor(wire[i], u) => i - 0 \in DOMAIN wire' /\ wire'[i - 0] = wire[i]
  BY <1>1, <1>3 DEF IsFor
<1>5. \A i \in DOMAIN wire' : IsFor(wire'[i], u) => i + 0 \in DOMAIN wire /\ wire[i + 0] = wire'[i]
  BY <1>1, <1>3, EndMessages DEF IsFor
<1>6. 0 \in Int
  OBVIOUS
<1> QED BY <1>4, <1>5, <1>6 DEF Passes, KeepsFor

LEMMA ReadPasses ==
  ASSUME TypeOK, NEW u \in Users, Read, u \notin mark'.garbled
  PROVE  Passes(u)
<1>1. PICK n \in 1 .. Batch :
        /\ wire' \in Seq(Message) /\ wire # << >> /\ Taken(n)
        /\ \A i \in 1 .. n : wire[i].kind = "put" => n = 1 \/ wire[i].user \in mark'.garbled
        /\ wire[1].kind = "put" => \E v \in Value : (n = 1 => v = wire[1].val) /\ StoresFirst(v)
        /\ wire[1].kind = "rest" => UNCHANGED new
        /\ wire[1].kind = "done" => UNCHANGED new
  BY ReadEffect
<1>2. /\ wire \in Seq(Message) /\ wire[1] \in Message /\ n \in Nat /\ n >= 1 /\ n <= Len(wire)
      /\ 1 \in 1 .. n /\ new \in Rows
  BY <1>1, BoundsAssumption DEF TypeOK, Taken, Rows
<1> DEFINE k == Len(wire)
           l == Len(wire')
<1>3. /\ k \in Nat /\ l \in Nat /\ l = k - n /\ DOMAIN wire = 1 .. k /\ DOMAIN wire' = 1 .. l
      /\ \A i \in 1 .. l : wire'[i] = wire[i + n]
  BY <1>1, <1>2 DEF Taken
<1> HIDE DEF k, l
<1>4. CASE \A i \in 1 .. n : ~IsFor(wire[i], u)
  <2>1. \A i \in DOMAIN wire : IsFor(wire[i], u) => i - n \in DOMAIN wire' /\ wire'[i - n] = wire[i]
    <3> SUFFICES ASSUME NEW i \in 1 .. k, IsFor(wire[i], u)
                 PROVE  i - n \in 1 .. l /\ wire'[i - n] = wire[i]
      BY <1>3
    <3>1. i \notin 1 .. n
      BY <1>4
    <3>2. i - n \in 1 .. l /\ (i - n) + n = i
      BY <1>2, <1>3, <3>1
    <3> QED BY <1>3, <3>2
  <2>2. \A i \in DOMAIN wire' : i + n \in DOMAIN wire /\ wire[i + n] = wire'[i]
    <3> SUFFICES ASSUME NEW i \in 1 .. l PROVE i + n \in 1 .. k /\ wire[i + n] = wire'[i]
      BY <1>3
    <3>1. i + n \in 1 .. k
      BY <1>2, <1>3
    <3> QED BY <1>3, <3>1
  <2>3. new'[u] = new[u]
    <3>1. CASE wire[1].kind = "put"
      <4>1. wire[1].user # u /\ wire[1].user \in Users /\ wire[1].file \in Files
        BY <1>2, <1>4, <3>1, MessageFields DEF IsFor
      <4> QED BY <1>1, <1>2, <3>1, <4>1 DEF StoresFirst, Rows
    <3> QED BY <1>1, <1>2, <3>1, MessageFields
  <2>4. n \in Int
    BY <1>2
  <2> QED BY <2>1, <2>2, <2>3, <2>4 DEF Passes, KeepsFor
<1>5. CASE \E i \in 1 .. n : IsFor(wire[i], u)
  <2>1. n = 1
    BY <1>1, <1>5 DEF IsFor
  <2>2. IsFor(wire[1], u)
    BY <1>2, <1>5, <2>1
  <2>3. StoresFirst(wire[1].val)
    BY <1>1, <2>1, <2>2 DEF IsFor
  <2> QED BY <1>1, <2>1, <2>2, <2>3 DEF Passes, StoresFor
<1> QED BY <1>4, <1>5

LEMMA ReadPartPasses ==
  ASSUME TypeOK, NEW u \in Users, ReadPart, u \notin mark'.garbled
  PROVE  Passes(u)
<1>1. /\ wire' \in Seq(Message) /\ Len(wire') = Len(wire) /\ wire # << >>
      /\ wire[1].kind = "put" /\ wire'[1] = RestMsg
      /\ \A i \in 2 .. Len(wire) : wire'[i] = wire[i]
      /\ wire[1].user \in mark'.garbled
      /\ \E v \in Value : Store(wire[1].user, wire[1].file, v)
  BY ReadPartEffect
<1>2. wire \in Seq(Message) /\ wire[1] \in Message /\ new \in Rows
  BY <1>1 DEF TypeOK, Rows
<1>3. new'[u] = new[u]
  <2>1. wire[1].user # u /\ wire[1].user \in Users /\ wire[1].file \in Files
    BY <1>1, <1>2, MessageFields
  <2> QED BY <1>1, <1>2, <2>1 DEF Store, Rows
<1>4. ~IsFor(wire[1], u) /\ ~IsFor(wire'[1], u)
  BY <1>1, EndMessages DEF IsFor
<1>5. DOMAIN wire' = DOMAIN wire /\ \A i \in DOMAIN wire : i = 1 \/ wire'[i] = wire[i]
  BY <1>1, <1>2
<1>6. \A i \in DOMAIN wire : i \in Int /\ i - 0 = i /\ i + 0 = i
  BY <1>2
<1>7. /\ \A i \in DOMAIN wire :
           IsFor(wire[i], u) => i - 0 \in DOMAIN wire' /\ wire'[i - 0] = wire[i]
      /\ \A i \in DOMAIN wire' :
           IsFor(wire'[i], u) => i + 0 \in DOMAIN wire /\ wire[i + 0] = wire'[i]
  BY <1>4, <1>5, <1>6
<1>8. 0 \in Int
  OBVIOUS
<1> QED BY <1>3, <1>7, <1>8 DEF Passes, KeepsFor

(***************************************************************************)
(* All steps but the sending of a file and a client's put at the new node. *)
(***************************************************************************)
Passing == \/ Request \/ Read \/ ReadPart \/ NoSuchRow \/ SentAll \/ EraseFile \/ ErasedAll
           \/ Finish \/ Crash \/ \E u \in Users, f \in Files : PutOld(u, f)

LEMMA Passage ==
  ASSUME TypeOK, Passing, NEW u \in Users, u \notin mark'.garbled
  PROVE  Passes(u) /\ KeepsMarks
<1> USE DEF oldNode, conn, newNode, story
<1>1. ASSUME UNCHANGED mark PROVE KeepsMarks
  BY <1>1 DEF KeepsMarks
<1>2. CASE Request \/ SentAll \/ ErasedAll
  <2>1. UNCHANGED <<wire, new, mark>>
    BY <1>2 DEF Request, SentAll, ErasedAll
  <2> QED BY <1>1, <2>1, StillPasses
<1>3. CASE Read
  BY <1>3, ReadPasses, ReadEffect
<1>4. CASE ReadPart
  BY <1>4, ReadPartPasses, ReadPartEffect
<1>5. ASSUME NEW state, NEW msgs \in {<< >>, <<DoneMsg>>}, Close(state, msgs), UNCHANGED new
      PROVE  Passes(u) /\ KeepsMarks
  BY <1>5, ClosePasses, CloseEffect
<1>6. CASE NoSuchRow
  BY <1>5, <1>6 DEF NoSuchRow
<1>7. CASE Finish
  BY <1>5, <1>7 DEF Finish
<1>8. CASE Crash
  <2>1. CASE UNCHANGED <<oldNode, conn, new, story>>
    BY <1>1, <2>1, StillPasses
  <2> QED BY <1>5, <1>8, <2>1 DEF Crash
<1>9. CASE EraseFile
  <2>1. UNCHANGED new
    BY <1>9 DEF EraseFile
  <2>2. CASE UNCHANGED wire /\ mark' \in {mark, [mark EXCEPT !.kept = @ \cup {user}]}
    <3>1. mark \in Marks
      BY DEF TypeOK, Marks
    <3>2. KeepsMarks
      BY <2>2, <3>1 DEF KeepsMarks, Marks
    <3> QED BY <2>1, <2>2, <3>2, StillPasses
  <2> QED BY <1>5, <1>9, <2>1, <2>2 DEF EraseFile
<1>10. CASE \E w \in Users, f \in Files : PutOld(w, f)
  <2>1. PICK w \in Users, f \in Files : PutOld(w, f)
    BY <1>10
  <2>2. UNCHANGED <<wire, new>>
    BY <2>1 DEF PutOld
  <2>3. \E s, t : mark' = [mark EXCEPT !.overtaken = IF s THEN @ \cup {w} ELSE @,
                                     !.kept = IF t THEN @ \cup {w} ELSE @]
    BY <2>1 DEF PutOld
  <2>4. KeepsMarks
    <3>1. mark \in Marks
      BY DEF TypeOK, Marks
    <3> QED BY <2>3, <3>1 DEF KeepsMarks, Marks
  <2> QED BY <2>2, <2>4, StillPasses
<1> QED BY <1>2, <1>3, <1>4, <1>6, <1>7, <1>8, <1>9, <1>10 DEF Passing

-----------------------------------------------------------------------------
(***************************************************************************)
(* For NothingLost.  The pieces of a file that have left the old node: a   *)
(* passing step keeps them.  What the worker is about to erase has left.   *)
(***************************************************************************)
Away(u, f) == OnItsWay(u, f) \cup Range(new[u][f])

ToErase(u, f) ==
  /\ list # << >> /\ u = user
  /\ \/ worker = "send" /\ f <= cursor
     \/ worker = "erase" /\ f > cursor

SafeFile(u, f) ==
  /\ Range(given[u][f]) \subseteq Range(old[u][f]) \cup Away(u, f)
  /\ ToErase(u, f) => Range(old[u][f]) \subseteq Away(u, f)

LostInv ==
  fetcher # "dead" =>
    \A u \in Users \ (mark.garbled \cup mark.overtaken), f \in Files : SafeFile(u, f)

\* A piece is on its way in one of the messages.
LEMMA WayIs ==
  ASSUME NEW w, NEW u, NEW f, NEW t
  PROVE  t \in UNION {Range(m.val) :
                       m \in {m \in Range(w) : m.kind = "put" /\ m.user = u /\ m.file = f}}
           <=> \E i \in DOMAIN w : IsFor(w[i], u) /\ w[i].file = f /\ t \in Range(w[i].val)
<1> DEFINE M == {m \in Range(w) : m.kind = "put" /\ m.user = u /\ m.file = f}
<1>1. \A m : m \in M <=> \E i \in DOMAIN w : m = w[i] /\ IsFor(w[i], u) /\ w[i].file = f
  BY DEF Range, IsFor
<1> HIDE DEF M
<1>2. t \in UNION {Range(m.val) : m \in M} <=> \E m \in M : t \in Range(m.val)
  OBVIOUS
<1>3. (\E m \in M : t \in Range(m.val))
        <=> \E i \in DOMAIN w : IsFor(w[i], u) /\ w[i].file = f /\ t \in Range(w[i].val)
  BY <1>1
<1> QED BY <1>2, <1>3 DEF M

LEMMA RangeConcat ==
  ASSUME NEW a \in Value, NEW b \in Value
  PROVE  Range(a \o b) = Range(a) \cup Range(b)
<1>1. /\ a \o b \in Value /\ Len(a \o b) = Len(a) + Len(b)
      /\ Len(a) \in Nat /\ Len(b) \in Nat
      /\ DOMAIN a = 1 .. Len(a) /\ DOMAIN b = 1 .. Len(b) /\ DOMAIN (a \o b) = 1 .. Len(a) + Len(b)
      /\ \A i \in 1 .. Len(a) : (a \o b)[i] = a[i]
      /\ \A i \in 1 .. Len(b) : (a \o b)[Len(a) + i] = b[i]
  BY DEF Value
<1> DEFINE c == a \o b
           k == Len(a)
           l == Len(b)
<1> HIDE DEF c, k, l
<1>2. /\ k \in Nat /\ l \in Nat /\ DOMAIN a = 1 .. k /\ DOMAIN b = 1 .. l /\ DOMAIN c = 1 .. k + l
      /\ \A i \in 1 .. k : c[i] = a[i]
      /\ \A i \in 1 .. l : c[k + i] = b[i]
  BY <1>1 DEF c, k, l
<1>3. \A i \in 1 .. k + l : i \in 1 .. k \/ (i - k \in 1 .. l /\ k + (i - k) = i)
  BY <1>2
<1>4. \A i \in 1 .. k : i \in 1 .. k + l
  BY <1>2
<1>5. \A i \in 1 .. l : k + i \in 1 .. k + l
  BY <1>2
<1>6. Range(c) \subseteq Range(a) \cup Range(b)
  <2>1. ASSUME NEW i \in 1 .. k + l PROVE c[i] \in Range(a) \cup Range(b)
    <3>1. CASE i \in 1 .. k
      BY <1>2, <3>1 DEF Range
    <3>2. CASE i - k \in 1 .. l /\ k + (i - k) = i
      BY <1>2, <3>2 DEF Range
    <3> QED BY <1>3, <2>1, <3>1, <3>2
  <2> QED BY <1>2, <2>1 DEF Range
<1>7. Range(a) \subseteq Range(c)
  BY <1>2, <1>4 DEF Range
<1>8. Range(b) \subseteq Range(c)
  BY <1>2, <1>5 DEF Range
<1> QED BY <1>6, <1>7, <1>8 DEF c

LEMMA RangeAppend ==
  ASSUME NEW a \in Value, NEW t \in Tokens
  PROVE  Range(Append(a, t)) = Range(a) \cup {t} /\ Append(a, t) \in Value
<1>1. <<t>> \in Value /\ Append(a, t) = a \o <<t>> /\ Append(a, t) \in Value
  BY DEF Value
<1>2. Range(<<t>>) = {t}
  BY DEF Range
<1> QED BY <1>1, <1>2, RangeConcat

LEMMA AwayKept ==
  ASSUME TypeOK, TypeOK', NEW u \in Users, NEW f \in Files, Passes(u)
  PROVE  Away(u, f) \subseteq Away(u, f)'
<1> DEFINE Way(w, t) == \E i \in DOMAIN w : IsFor(w[i], u) /\ w[i].file = f /\ t \in Range(w[i].val)
<1>1. \A t : t \in OnItsWay(u, f) <=> Way(wire, t)
  BY WayIs DEF OnItsWay
<1>2. \A t : t \in OnItsWay(u, f)' <=> Way(wire', t)
  BY WayIs DEF OnItsWay
<1>3. CASE KeepsFor(u)
  <2>1. \A i \in DOMAIN wire : IsFor(wire[i], u) => \E j \in DOMAIN wire' : wire'[j] = wire[i]
    BY <1>3 DEF KeepsFor
  <2>2. \A t : Way(wire, t) => Way(wire', t)
    BY <2>1
  <2>3. new'[u] = new[u]
    BY <1>3 DEF KeepsFor
  <2> QED BY <1>1, <1>2, <2>2, <2>3 DEF Away
<1>4. CASE StoresFor(u)
  <2> DEFINE m == wire[1]
  <2>1. /\ wire \in Seq(Message) /\ wire # << >> /\ m \in Message /\ wire' \in Seq(Message)
        /\ Taken(1) /\ IsFor(m, u) /\ StoresFirst(m.val)
    BY <1>4 DEF StoresFor, TypeOK
  <2>2. m.user = u /\ m.file \in Files /\ m.val \in Value
    BY <2>1, MessageFields DEF IsFor
  <2>3. new' = [new EXCEPT ![u][m.file] = @ \o m.val]
    BY <2>1, <2>2 DEF StoresFirst
  <2> HIDE DEF m
  <2>4. new \in Rows /\ new[u][f] \in Value /\ new[u][m.file] \in Value
    BY <2>2 DEF TypeOK, Rows
  <2>5. Range(new[u][f]) \subseteq Range(new'[u][f])
    <3>1. CASE f = m.file
      <4>1. new'[u][f] = new[u][f] \o m.val
        BY <2>3, <2>4, <3>1 DEF Rows
      <4> QED BY <4>1, <2>2, <2>4, RangeConcat
    <3>2. CASE f # m.file
      BY <2>2, <2>3, <2>4, <3>2 DEF Rows
    <3> QED BY <3>1, <3>2
  <2>6. ASSUME NEW t, Way(wire, t) PROVE Way(wire', t) \/ t \in Range(new'[u][f])
    <3>1. PICK i \in DOMAIN wire : IsFor(wire[i], u) /\ wire[i].file = f /\ t \in Range(wire[i].val)
      BY <2>6
    <3>2. CASE i = 1
      <4>1. f = m.file /\ t \in Range(m.val)
        BY <3>1, <3>2 DEF m
      <4>2. new'[u][f] = new[u][f] \o m.val
        BY <2>3, <2>4, <4>1 DEF Rows
      <4> QED BY <4>1, <4>2, <2>2, <2>4, RangeConcat
    <3>3. CASE i # 1
      <4>1. i - 1 \in DOMAIN wire' /\ wire'[i - 1] = wire[i]
        <5> DEFINE k == Len(wire)
                   l == Len(wire')
        <5>1. /\ k \in Nat /\ l = k - 1
              /\ DOMAIN wire = 1 .. k /\ DOMAIN wire' = 1 .. l /\ i \in 1 .. k
              /\ \A j \in 1 .. l : wire'[j] = wire[j + 1]
          BY <2>1, <3>1 DEF Taken
        <5> HIDE DEF k, l
        <5>2. i - 1 \in 1 .. l /\ (i - 1) + 1 = i
          BY <3>3, <5>1
        <5> QED BY <5>1, <5>2
      <4> QED BY <3>1, <4>1
    <3> QED BY <3>2, <3>3
  <2> QED BY <1>1, <1>2, <2>5, <2>6 DEF Away
<1> QED BY <1>3, <1>4 DEF Passes

-----------------------------------------------------------------------------
(***************************************************************************)
(* The list: no user is in it twice, and the worker begins with all of it. *)
(***************************************************************************)
ListInv ==
  /\ \A i, j \in DOMAIN list : list[i] = list[j] => i = j
  /\ worker = "idle" => cursor = 0 /\ Range(list) = listed
  /\ worker = "closed" => list = << >>
  /\ fetcher = "told" => worker \in {"idle", "dead"}

LEMMA ListInit ==
  ASSUME Init
  PROVE  ListInv
<1>1. IsFiniteSet(listed) /\ list = SetToSeq(listed)
  BY UsersAssumption, FS_Subset DEF Init
<1>2. (\A i, j \in DOMAIN list : list[i] = list[j] => i = j) /\ Range(list) = listed
  BY <1>1, SetToSeqIs
<1> QED BY <1>2 DEF Init, ListInv

LEMMA LeaveList ==
  ASSUME TypeOK, ListInv, Leave, list # << >>
  PROVE  /\ \A i, j \in DOMAIN list' : list'[i] = list'[j] => i = j
         /\ Range(list') = Range(list) \ {user}
         /\ list \in Seq(Users) /\ list' \in Seq(Users)
<1> DEFINE k == Len(list)
           l == Len(list')
<1>1. list \in Seq(Users) /\ list' = Tail(list)
  BY DEF TypeOK, Leave
<1>2. /\ list' \in Seq(Users) /\ k \in Nat /\ l = k - 1 /\ k >= 1
      /\ DOMAIN list = 1 .. k /\ DOMAIN list' = 1 .. l
      /\ \A i \in 1 .. l : list'[i] = list[i + 1]
  BY <1>1
<1> HIDE DEF k, l
<1>3. \A i \in 1 .. l : i + 1 \in 1 .. k /\ i + 1 # 1
  BY <1>2
<1>4. \A i \in 1 .. k : i = 1 \/ (i - 1 \in 1 .. l /\ (i - 1) + 1 = i)
  BY <1>2
<1>5. \A i, j \in 1 .. l : list'[i] = list'[j] => i = j
  <2> TAKE i, j \in 1 .. l
  <2>1. list'[i] = list'[j] => i + 1 = j + 1
    <3>1. \A i1, j1 \in 1 .. k : list[i1] = list[j1] => i1 = j1
      BY <1>2 DEF ListInv
    <3>2. i + 1 \in 1 .. k /\ j + 1 \in 1 .. k
      BY <1>3
    <3>3. list'[i] = list[i + 1] /\ list'[j] = list[j + 1]
      BY <1>2
    <3> QED BY <3>1, <3>2, <3>3
  <2>2. i \in Nat /\ j \in Nat
    BY <1>2
  <2> QED BY <2>1, <2>2
<1>6. Range(list') \subseteq Range(list) \ {user}
  <2>1. ASSUME NEW i \in 1 .. l PROVE list'[i] = list[i + 1] /\ list[i + 1] # list[1]
    <3>1. \A i1, j1 \in 1 .. k : list[i1] = list[j1] => i1 = j1
      BY <1>2 DEF ListInv
    <3>2. i + 1 \in 1 .. k /\ i + 1 # 1 /\ 1 \in 1 .. k
      BY <1>2, <1>3
    <3>3. list[i + 1] # list[1]
      BY <3>1, <3>2
    <3> QED BY <1>2, <3>3
  <2>2. ASSUME NEW x \in Range(list') PROVE x \in Range(list) /\ x # list[1]
    <3>1. PICK i \in 1 .. l : x = list'[i]
      BY <1>2 DEF Range
    <3>2. x = list[i + 1] /\ x # list[1] /\ i + 1 \in DOMAIN list
      BY <2>1, <3>1, <1>2, <1>3
    <3> QED BY <3>2 DEF Range
  <2> QED BY <2>2 DEF user
<1>7. Range(list) \ {user} \subseteq Range(list')
  <2>1. ASSUME NEW i \in 1 .. k, list[i] # list[1] PROVE \E j \in 1 .. l : list'[j] = list[i]
    <3>1. i - 1 \in 1 .. l /\ (i - 1) + 1 = i
      BY <2>1, <1>4
    <3> QED BY <3>1, <1>2
  <2>2. ASSUME NEW x \in Range(list), x # list[1] PROVE x \in Range(list')
    <3>1. PICK i \in 1 .. k : x = list[i]
      BY <1>2 DEF Range
    <3>2. PICK j \in 1 .. l : list'[j] = x
      BY <2>1, <2>2, <3>1
    <3> QED BY <1>2, <3>2 DEF Range
  <2> QED BY <2>2 DEF user
<1>8. Range(list') = Range(list) \ {user}
  BY <1>6, <1>7
<1>9. \A i, j \in DOMAIN list' : list'[i] = list'[j] => i = j
  BY <1>2, <1>5
<1> QED BY <1>1, <1>2, <1>8, <1>9

LEMMA ListStep ==
  ASSUME TypeOK, ListInv, [Next]_vars
  PROVE  ListInv'
<1> USE DEF oldNode, conn, newNode, story
<1>1. CASE UNCHANGED <<worker, list, cursor, listed>> /\ (fetcher' = "told" => fetcher = "told")
  BY <1>1 DEF ListInv
<1>2. CASE UNCHANGED vars
  BY <1>1, <1>2 DEF vars
<1>3. CASE Request
  BY <1>3 DEF Request, ListInv
<1>4. CASE Read
  <2>1. fetcher = "fetch" /\ UNCHANGED <<worker, list, cursor, listed>>
    BY <1>4 DEF Read
  <2>2. fetcher' # "told"
    BY <1>4, <2>1 DEF Read, Answer
  <2> QED BY <1>1, <2>1, <2>2
<1>5. CASE ReadPart
  BY <1>1, <1>5 DEF ReadPart, Answer
<1>6. ASSUME NEW state \in {"closed", "dead"}, NEW msgs, Close(state, msgs),
             UNCHANGED <<list, fetcher>>,
             state = "closed" => worker = "send" /\ list = << >>
      PROVE  ListInv'
  BY <1>6 DEF Close, ListInv
<1>7. CASE NoSuchRow
  BY <1>6, <1>7 DEF NoSuchRow
<1>8. CASE SendFile
  BY <1>8 DEF SendFile, Serving, ListInv
<1>9. CASE SentAll
  BY <1>9 DEF SentAll, Serving, ListInv
<1>10. ASSUME Leave, UNCHANGED fetcher, Serving("erase")
       PROVE  ListInv'
  <2>1. \A i, j \in DOMAIN list' : list'[i] = list'[j] => i = j
    BY <1>10, UserIs, LeaveList
  <2> QED BY <1>10, <2>1 DEF Leave, Serving, ListInv
<1>11. CASE EraseFile
  <2>1. CASE UNCHANGED <<worker, list, mark>> /\ worker = "erase"
    BY <1>11, <2>1 DEF EraseFile, ListInv
  <2> QED BY <1>6, <1>10, <1>11, <2>1 DEF EraseFile, Serving
<1>12. CASE ErasedAll
  BY <1>10, <1>12 DEF ErasedAll
<1>13. CASE Finish
  BY <1>6, <1>13 DEF Finish
<1>14. CASE Crash
  BY <1>1, <1>6, <1>14 DEF Crash
<1>15. CASE Client
  <2>1. UNCHANGED <<worker, list, cursor, listed, fetcher>>
    BY <1>15 DEF Client, PutNew, PutOld
  <2> QED BY <1>1, <2>1
<1> QED
  BY <1>2, <1>3, <1>4, <1>5, <1>7, <1>8, <1>9, <1>11, <1>12, <1>13, <1>14, <1>15
  DEF Next, Fetcher, Worker

-----------------------------------------------------------------------------
(***************************************************************************)
(* NothingLost.                                                            *)
(***************************************************************************)
LEMMA EmptyRange == Range(NoFile) = {}
BY DEF Range, NoFile

\* A put of a client, at either node.
PutsOne(rows, rows2, u, f, t) == rows2 = [rows EXCEPT ![u][f] = Append(@, t)]

LEMMA PutRange ==
  ASSUME NEW rows \in Rows, NEW rows2, NEW u \in Users, NEW f \in Files,
         NEW v \in Users, NEW g \in Files, NEW t \in Tokens, PutsOne(rows, rows2, u, f, t)
  PROVE  /\ Range(rows[v][g]) \subseteq Range(rows2[v][g])
         /\ v = u /\ g = f => Range(rows2[v][g]) = Range(rows[v][g]) \cup {t}
         /\ ~(v = u /\ g = f) => rows2[v][g] = rows[v][g]
<1>1. rows[u][f] \in Value
  BY DEF Rows
<1>2. rows2[u][f] = Append(rows[u][f], t)
  BY DEF Rows, PutsOne
<1>3. ~(v = u /\ g = f) => rows2[v][g] = rows[v][g]
  BY DEF Rows, PutsOne
<1>4. Range(rows2[u][f]) = Range(rows[u][f]) \cup {t}
  BY <1>1, <1>2, RangeAppend
<1> QED BY <1>3, <1>4

LEMMA LostStep ==
  ASSUME TypeOK, TypeOK', ListInv, LostInv, Next
  PROVE  LostInv'
<1> SUFFICES ASSUME fetcher' # "dead", NEW u \in Users, NEW f \in Files,
                    u \notin mark'.garbled, u \notin mark'.overtaken
             PROVE  SafeFile(u, f)'
  BY DEF LostInv
<1> USE DEF oldNode, conn, newNode, story
<1>1. ASSUME fetcher # "dead", KeepsMarks PROVE SafeFile(u, f)
  BY <1>1 DEF LostInv, KeepsMarks
<1>2. f \in Nat /\ f > 0 /\ cursor \in Nat
  BY BoundsAssumption DEF Files, TypeOK
<1>3. ASSUME fetcher # "dead", Passing, UNCHANGED given,
             old'[u][f] = old[u][f],
             ToErase(u, f)' => ToErase(u, f) \/ old[u][f] = NoFile
      PROVE  SafeFile(u, f)'
  <2>1. SafeFile(u, f) /\ Away(u, f) \subseteq Away(u, f)'
    BY <1>1, <1>3, Passage, AwayKept
  <2> QED BY <2>1, <1>3, EmptyRange DEF SafeFile
<1>4. CASE Request
  <2>1. fetcher = "told" /\ worker' = "send" /\ worker \in {"idle", "dead"} /\ worker # "dead"
        /\ UNCHANGED <<old, list, cursor, given>>
    BY <1>4 DEF Request, ListInv
  <2>2. cursor' = 0
    BY <2>1 DEF ListInv
  <2>3. ~ToErase(u, f)'
    BY <2>1, <2>2, <1>2 DEF ToErase
  <2> QED BY <1>3, <1>4, <2>1, <2>3 DEF Passing
<1>5. CASE Read
  <2>1. fetcher # "dead" /\ UNCHANGED <<old, list, cursor, worker, given>>
    BY <1>5 DEF Read
  <2> QED BY <1>3, <1>5, <2>1 DEF Passing, ToErase, user
<1>6. CASE ReadPart
  BY <1>3, <1>6 DEF ReadPart, Passing, ToErase, user
<1>7. ASSUME Close("dead", << >>) \/ Close("closed", <<DoneMsg>>) PROVE ~ToErase(u, f)'
  <2>1. worker' \in {"dead", "closed"}
    BY <1>7 DEF Close
  <2> QED BY <2>1 DEF ToErase
<1>8. CASE NoSuchRow
  BY <1>3, <1>7, <1>8 DEF NoSuchRow, Passing
<1>9. CASE SendFile
  <2> DEFINE m == PutMsg(user, cursor', old[user][cursor'])
  <2>1. user \in Users /\ worker = "send" /\ list # << >>
    BY <1>9, UserIs DEF SendFile
  <2>2. /\ cursor' = NextFile(old[user]) /\ cursor' \in Files
        /\ \A g \in Files : g > cursor /\ g < cursor' => old[user][g] = NoFile
    BY <1>9, NextFileIs DEF SendFile
  <2>3. /\ fetcher # "dead" /\ wire' = Append(wire, m) /\ worker' = "send"
        /\ UNCHANGED <<old, list, new, given, mark>>
    BY <1>9, <2>1 DEF SendFile
  <2>4. /\ m.kind = "put" /\ m.user = user /\ m.file = cursor' /\ m.val = old[user][cursor']
        /\ m \in Message
    BY <2>1, <2>2 DEF PutMsg, Message, TypeOK
  <2> HIDE DEF m
  <2>5. /\ \A i \in DOMAIN wire : i \in DOMAIN wire' /\ wire'[i] = wire[i]
        /\ \E i \in DOMAIN wire' : wire'[i] = m
    <3>1. wire \in Seq(Message)
      BY DEF TypeOK
    <3>2. /\ Len(wire) + 1 \in DOMAIN wire' /\ wire'[Len(wire) + 1] = m
          /\ \A i \in DOMAIN wire : i \in DOMAIN wire' /\ wire'[i] = wire[i]
      BY <2>3, <2>4, <3>1
    <3> QED BY <3>2
  <2> DEFINE Way(w, t) ==
               \E i \in DOMAIN w : IsFor(w[i], u) /\ w[i].file = f /\ t \in Range(w[i].val)
  <2>6. \A t : t \in OnItsWay(u, f) <=> Way(wire, t)
    BY WayIs DEF OnItsWay
  <2>7. \A t : t \in OnItsWay(u, f)' <=> Way(wire', t)
    BY WayIs DEF OnItsWay
  <2>8. \A t : Way(wire, t) => Way(wire', t)
    BY <2>5
  <2>9. u = user /\ f = cursor' => \A t \in Range(old[u][f]) : Way(wire', t)
    BY <2>4, <2>5 DEF IsFor
  <2> HIDE DEF Way
  <2>10. /\ Away(u, f) \subseteq Away(u, f)'
         /\ u = user /\ f = cursor' => Range(old[u][f]) \subseteq Away(u, f)'
    BY <2>3, <2>6, <2>7, <2>8, <2>9 DEF Away
  <2>11. SafeFile(u, f)
    BY <1>1, <2>3 DEF KeepsMarks
  <2>12. ToErase(u, f)' => ToErase(u, f) \/ old[u][f] = NoFile \/ (u = user /\ f = cursor')
    <3> SUFFICES ASSUME ToErase(u, f)', f # cursor', ~(f <= cursor)
                 PROVE  u = user /\ old[u][f] = NoFile
      BY <2>1, <2>3 DEF ToErase, user
    <3>1. u = user /\ f <= cursor'
      BY <2>3 DEF ToErase, user
    <3>2. f > cursor /\ f < cursor'
      BY <1>2, <2>2, <3>1 DEF Files
    <3> QED BY <3>1, <3>2, <2>2
  <2> QED BY <2>3, <2>10, <2>11, <2>12, EmptyRange DEF SafeFile
<1>10. CASE SentAll
  <2>1. /\ worker = "send" /\ list # << >> /\ worker' = "erase" /\ cursor' = 0
        /\ Ahead(old[user]) = {} /\ UNCHANGED <<old, list, fetcher, given>>
    BY <1>10 DEF SentAll, Serving
  <2>2. ToErase(u, f)' => ToErase(u, f) \/ old[u][f] = NoFile
    <3> SUFFICES ASSUME u = user, ~(f <= cursor) PROVE old[u][f] = NoFile
      BY <2>1 DEF ToErase, user
    <3>1. f > cursor
      BY <1>2
    <3> QED BY <2>1, <3>1 DEF Ahead
  <2> QED BY <1>3, <1>10, <2>1, <2>2 DEF Passing
<1>11. ASSUME Leave PROVE ~ToErase(u, f)'
  <2>1. worker' = "send" /\ cursor' = 0
    BY <1>11 DEF Leave
  <2> QED BY <2>1, <1>2 DEF ToErase
<1>12. CASE EraseFile
  <2> DEFINE g    == NextFile(old[user])
             left == [old[user] EXCEPT ![g] = NoFile]
  <2>1. user \in Users /\ worker = "erase" /\ list # << >>
    BY <1>12, UserIs DEF EraseFile
  <2>2. g \in Files /\ g > cursor
    BY <1>12, NextFileIs DEF EraseFile
  <2>3. /\ old' = [old EXCEPT ![user] = left] /\ UNCHANGED <<fetcher, given>>
        /\ \/ cursor' = g /\ UNCHANGED <<worker, list>>
           \/ Leave
           \/ Close("dead", << >>)
    BY <1>12 DEF EraseFile
  <2> HIDE DEF g
  <2>4. old \in Rows
    BY DEF TypeOK, Rows
  <2>5. ToErase(u, f)' => u = user /\ f > g
    <3>1. CASE cursor' = g /\ UNCHANGED <<worker, list>>
      BY <2>1, <3>1 DEF ToErase, user
    <3> QED BY <2>3, <3>1, <1>7, <1>11
  <2>6. CASE u # user \/ f # g
    <3>1. old'[u][f] = old[u][f]
      BY <2>1, <2>2, <2>3, <2>4, <2>6 DEF Rows
    <3>2. ToErase(u, f)' => ToErase(u, f)
      <4>1. f > g => f > cursor
        BY <1>2, <2>2 DEF Files
      <4> QED BY <2>1, <2>5, <4>1 DEF ToErase
    <3> QED BY <1>3, <1>12, <2>3, <3>1, <3>2 DEF Passing
  <2>7. CASE u = user /\ f = g
    <3>1. SafeFile(u, f) /\ Away(u, f) \subseteq Away(u, f)'
      BY <1>1, <1>12, <2>3, Passage, AwayKept DEF Passing
    <3>2. ToErase(u, f)
      BY <2>1, <2>2, <2>7 DEF ToErase
    <3>3. old'[u][f] = NoFile
      BY <2>1, <2>2, <2>3, <2>4, <2>7 DEF Rows
    <3> QED BY <2>3, <3>1, <3>2, <3>3, EmptyRange DEF SafeFile
  <2> QED BY <2>6, <2>7
<1>13. CASE ErasedAll
  <2>1. Leave /\ UNCHANGED <<old, fetcher, given>>
    BY <1>13 DEF ErasedAll
  <2> QED BY <1>3, <1>11, <1>13, <2>1 DEF Passing
<1>14. CASE Finish
  BY <1>3, <1>7, <1>14 DEF Finish, Passing
<1>15. CASE Crash
  <2>1. Close("dead", << >>) /\ UNCHANGED <<old, fetcher, given>>
    BY <1>15 DEF Crash
  <2> QED BY <1>3, <1>7, <1>15, <2>1 DEF Passing
<1>16. ASSUME NEW w \in Users, NEW g \in Files, PutNew(w, g) PROVE SafeFile(u, f)'
  <2>1. /\ PutsOne(given, given', w, g, Piece) /\ Piece \in Tokens
        /\ new' = [new EXCEPT ![w][g] = @ \o <<Piece>>]
    BY <1>16, GivenTypes DEF PutNew, Store, PutsOne
  <2>2. fetcher # "dead" /\ UNCHANGED <<wire, old, list, cursor, worker>> /\ KeepsMarks
    BY <1>16 DEF PutNew, KeepsMarks, TypeOK
  <2>3. new \in Rows /\ given \in Rows
    BY DEF TypeOK, Rows
  <2>4. PutsOne(new, new', w, g, Piece) /\ Piece \in Tokens
    <3>1. new[w][g] \o <<Piece>> = Append(new[w][g], Piece)
      BY <2>1, <2>3 DEF Rows, Value
    <3> QED BY <2>1, <3>1 DEF PutsOne
  <2>5. SafeFile(u, f)
    BY <1>1, <2>2
  <2>6. OnItsWay(u, f)' = OnItsWay(u, f)
    BY <2>2 DEF OnItsWay
  <2>7. Range(new'[u][f]) = Range(new[u][f]) \cup (IF u = w /\ f = g THEN {Piece} ELSE {})
    BY <2>3, <2>4, PutRange
  <2>8. Range(given'[u][f]) = Range(given[u][f]) \cup (IF u = w /\ f = g THEN {Piece} ELSE {})
    BY <2>1, <2>3, PutRange
  <2>9. ToErase(u, f)' => ToErase(u, f)
    BY <2>2 DEF ToErase, user
  <2> QED BY <2>2, <2>5, <2>6, <2>7, <2>8, <2>9 DEF SafeFile, Away
<1>17. ASSUME NEW w \in Users, NEW g \in Files, PutOld(w, g) PROVE SafeFile(u, f)'
  <2>1. /\ PutsOne(given, given', w, g, Piece) /\ Piece \in Tokens
        /\ PutsOne(old, old', w, g, Piece)
    BY <1>17, GivenTypes DEF PutOld, PutsOne
  <2>2. fetcher # "dead" /\ UNCHANGED <<list, cursor, worker>> /\ Passing
    BY <1>17 DEF PutOld, Passing
  <2>3. old \in Rows /\ given \in Rows
    BY DEF TypeOK, Rows
  <2>4. SafeFile(u, f) /\ Away(u, f) \subseteq Away(u, f)'
    BY <1>1, <2>2, Passage, AwayKept
  <2>5. ToErase(u, f)' <=> ToErase(u, f)
    BY <2>2 DEF ToErase, user
  <2>6. CASE u = w /\ f = g
    <3>1. Range(given'[u][f]) = Range(given[u][f]) \cup {Piece}
      BY <2>1, <2>3, <2>6, PutRange
    <3>2. Range(old'[u][f]) = Range(old[u][f]) \cup {Piece}
      BY <2>1, <2>3, <2>6, PutRange
    <3>3. ~ToErase(u, f)
      <4> SUFFICES ASSUME ToErase(u, f) PROVE FALSE
        OBVIOUS
      <4>1. worker \in {"send", "erase"} /\ list # << >> /\ u = list[1]
            /\ IF worker = "send" THEN f <= cursor ELSE f > cursor
        BY DEF ToErase, user
      <4>2. u \in mark'.overtaken
        BY <1>17, <2>6, <4>1 DEF PutOld, TypeOK
      <4> QED BY <4>2
    <3> QED BY <2>4, <2>5, <3>1, <3>2, <3>3 DEF SafeFile
  <2>7. CASE ~(u = w /\ f = g)
    <3>1. given'[u][f] = given[u][f] /\ old'[u][f] = old[u][f]
      BY <2>1, <2>3, <2>7, PutRange
    <3> QED BY <2>4, <2>5, <3>1 DEF SafeFile
  <2> QED BY <2>6, <2>7
<1> QED
  BY <1>4, <1>5, <1>6, <1>8, <1>9, <1>10, <1>12, <1>13, <1>14, <1>15, <1>16, <1>17
  DEF Next, Fetcher, Worker, Client

(***************************************************************************)
(* NothingLost, from what the worker sends before it erases.               *)
(***************************************************************************)
LEMMA LostInit ==
  ASSUME Init
  PROVE  LostInv
<1>1. cursor = 0 /\ worker = "idle" /\ given = old
  BY DEF Init
<1>2. \A u \in Users, f \in Files : SafeFile(u, f)
  BY <1>1 DEF SafeFile, ToErase
<1> QED BY <1>2 DEF LostInv

LEMMA LostSame ==
  ASSUME LostInv, UNCHANGED vars
  PROVE  LostInv'
BY DEF LostInv, SafeFile, ToErase, Away, OnItsWay, user, vars, oldNode, conn, newNode, story

(***************************************************************************)
(* Every piece stored at either node is at one of them or on its way, but  *)
(* for the rows that recv, a reset or an overtaking put have damaged       *)
(* (migrate_data sends a file before it deletes it).                       *)
(***************************************************************************)
THEOREM RowsAreNotLost == Spec => []NothingLost
<1>1. Init => TypeOK /\ ListInv /\ LostInv
  BY TypesInit, ListInit, LostInit
<1>2. TypeOK /\ ListInv /\ LostInv /\ [Next]_vars => (TypeOK /\ ListInv /\ LostInv)'
  BY TypesStep, ListStep, LostStep, LostSame
<1>3. LostInv => NothingLost
  BY DEF LostInv, SafeFile, Away, NothingLost
<1> QED BY <1>1, <1>2, <1>3, PTL DEF Spec

-----------------------------------------------------------------------------
(***************************************************************************)
(* For HandedOver.  The end of the migration is the last message.          *)
(***************************************************************************)
EndInv ==
  /\ fetcher = "done" => worker = "closed" /\ wire = << >>
  /\ \A i \in DOMAIN wire : wire[i].kind = "done" => i = Len(wire) /\ worker = "closed"

LEMMA EndStep ==
  ASSUME TypeOK, TypeOK', ListInv, EndInv, [Next]_vars
  PROVE  EndInv'
<1> USE DEF oldNode, conn, newNode, story
<1>1. ASSUME UNCHANGED wire, worker # "closed", fetcher' \in {fetcher, "dead", "fetch"}
      PROVE  EndInv'
  BY <1>1 DEF EndInv
<1>2. ASSUME UNCHANGED <<wire, worker>>, fetcher' \in {fetcher, "dead"}
      PROVE  EndInv'
  BY <1>2 DEF EndInv
<1>3. CASE Request
  BY <1>1, <1>3 DEF Request, ListInv
<1>4. CASE Read
  <2>1. PICK n \in 1 .. Batch :
          /\ wire' \in Seq(Message) /\ wire # << >> /\ Taken(n)
          /\ wire[1].kind = "put" => Answer
          /\ wire[1].kind = "rest" => UNCHANGED fetcher
          /\ wire[1].kind = "done" => fetcher' = "done"
    BY <1>4, ReadEffect
  <2> DEFINE k == Len(wire)
             l == Len(wire')
  <2>2. /\ wire \in Seq(Message) /\ wire[1] \in Message /\ n \in Nat /\ n >= 1
        /\ fetcher = "fetch" /\ UNCHANGED worker
    BY <1>4, <2>1, BoundsAssumption DEF TypeOK, Read
  <2>3. /\ k \in Nat /\ l \in Nat /\ l = k - n /\ DOMAIN wire = 1 .. k /\ DOMAIN wire' = 1 .. l
        /\ 1 \in DOMAIN wire
        /\ \A i \in 1 .. l : wire'[i] = wire[i + n]
    BY <2>1, <2>2 DEF Taken
  <2> HIDE DEF k
  <2>4. \A i \in 1 .. l : i + n \in 1 .. k /\ (i + n = k => i = l)
    <3> HIDE DEF l
    <3> QED BY <2>2, <2>3
  <2>5. \A i \in DOMAIN wire' : wire'[i].kind = "done" => i = Len(wire') /\ worker' = "closed"
    <3> HIDE DEF l
    <3>1. \A i \in 1 .. k : wire[i].kind = "done" => i = k /\ worker = "closed"
      BY <2>3 DEF EndInv, k
    <3>2. \A i \in 1 .. l : wire'[i].kind = "done" => i = l /\ worker' = "closed"
      BY <2>2, <2>3, <2>4, <3>1
    <3> QED BY <2>3, <3>2 DEF l
  <2>6. ASSUME fetcher' = "done" PROVE worker' = "closed" /\ wire' = << >>
    <3>1. wire[1].kind = "done"
      BY <2>1, <2>2, <2>6, AnswerTypes, MessageFields
    <3>2. k = 1 /\ worker = "closed"
      BY <2>3, <3>1 DEF EndInv, k
    <3>3. l = 0
      <4> HIDE DEF l
      <4> QED BY <2>2, <2>3, <3>2
    <3> QED BY <2>1, <2>2, <3>2, <3>3
  <2> QED BY <2>5, <2>6 DEF EndInv
<1>5. CASE ReadPart
  <2>1. /\ wire' \in Seq(Message) /\ Len(wire') = Len(wire) /\ wire # << >>
        /\ wire'[1] = RestMsg /\ \A i \in 2 .. Len(wire) : wire'[i] = wire[i]
        /\ Answer /\ fetcher = "fetch" /\ UNCHANGED worker
    BY <1>5, ReadPartEffect DEF ReadPart
  <2>2. fetcher' # "done"
    BY <2>1, AnswerTypes
  <2>3. wire \in Seq(Message)
    BY DEF TypeOK
  <2>4. \A i \in DOMAIN wire' : i \in DOMAIN wire /\ (i = 1 \/ wire'[i] = wire[i])
    BY <2>1, <2>3
  <2> QED BY <2>1, <2>2, <2>4, EndMessages DEF EndInv
<1>6. ASSUME NEW state, NEW msgs \in {<< >>, <<DoneMsg>>}, Close(state, msgs), UNCHANGED fetcher,
             worker # "closed", msgs # << >> => state = "closed"
      PROVE  EndInv'
  <2>1. /\ worker' = state
        /\ \A i \in DOMAIN wire' :
             \/ i \in DOMAIN wire /\ wire'[i] = wire[i]
             \/ msgs # << >> /\ i = Len(wire') /\ wire'[i] = DoneMsg
    BY <1>6, CloseEffect
  <2> QED BY <1>6, <2>1 DEF EndInv
<1>7. CASE NoSuchRow
  BY <1>6, <1>7 DEF NoSuchRow, Serving
<1>8. CASE SendFile
  <2> DEFINE m == PutMsg(user, cursor', old[user][cursor'])
  <2>1. /\ worker = "send" /\ worker' # "closed" /\ UNCHANGED fetcher
        /\ wire' \in {Append(wire, m), wire}
    BY <1>8 DEF SendFile, Serving
  <2>2. user \in Users /\ cursor' \in Files
    BY <1>8, UserIs, NextFileIs DEF SendFile
  <2>3. m \in Message /\ m.kind = "put"
    BY <2>2 DEF PutMsg, Message, TypeOK
  <2> HIDE DEF m
  <2>4. \A i \in DOMAIN wire' : (i \in DOMAIN wire /\ wire'[i] = wire[i]) \/ wire'[i] = m
    <3>1. wire \in Seq(Message)
      BY DEF TypeOK
    <3>2. CASE wire' = Append(wire, m)
      BY <2>3, <3>1, <3>2
    <3>3. CASE wire' = wire
      BY <3>3
    <3> QED BY <2>1, <3>2, <3>3
  <2> QED BY <2>1, <2>3, <2>4 DEF EndInv
<1>9. CASE SentAll
  BY <1>1, <1>9 DEF SentAll, Serving
<1>10. CASE EraseFile
  <2>1. worker = "erase" /\ UNCHANGED fetcher
    BY <1>10 DEF EraseFile, Serving
  <2> QED BY <1>1, <1>6, <1>10, <2>1 DEF EraseFile
<1>11. CASE ErasedAll
  BY <1>1, <1>11 DEF ErasedAll, Serving
<1>12. CASE Finish
  BY <1>6, <1>12 DEF Finish
<1>13. CASE Crash
  BY <1>2, <1>6, <1>13 DEF Crash
<1>14. CASE Client
  <2>1. UNCHANGED <<wire, worker, fetcher>>
    BY <1>14 DEF Client, PutNew, PutOld
  <2> QED BY <1>2, <2>1
<1>15. CASE UNCHANGED vars
  BY <1>2, <1>15 DEF vars
<1> QED
  BY <1>3, <1>4, <1>5, <1>7, <1>8, <1>9, <1>10, <1>11, <1>12, <1>13, <1>14, <1>15
  DEF Next, Fetcher, Worker

(***************************************************************************)
(* A file the worker has sent is at the new node or in one message, as it  *)
(* was given; one not yet sent is nowhere on the way.  The old node has    *)
(* what was given until it erases it.                                      *)
(***************************************************************************)
Coming(u, f) == {i \in DOMAIN wire : IsFor(wire[i], u) /\ wire[i].file = f}

Arrives(u, f) ==
  \/ new[u][f] = given[u][f] /\ Coming(u, f) = {}
  \/ new[u][f] = NoFile /\ \E i \in DOMAIN wire : Coming(u, f) = {i} /\ wire[i].val = given[u][f]

Waits(u, f) == new[u][f] = NoFile /\ Coming(u, f) = {}

Here(u) == list # << >> /\ u = user

Sent(u, f) == u \notin Range(list) \/ (Here(u) /\ (worker = "erase" \/ f <= cursor))
Gone(u, f) == u \notin Range(list) \/ (Here(u) /\ worker = "erase" /\ f <= cursor)

FileInv(u, f) ==
  /\ Sent(u, f) => Arrives(u, f)
  /\ ~Sent(u, f) => Waits(u, f)
  /\ old[u][f] = IF Gone(u, f) THEN NoFile ELSE given[u][f]

Damaged == mark.garbled \cup mark.overtaken \cup mark.early \cup mark.kept

RowsInv ==
  worker # "dead" /\ fetcher # "dead" =>
    \A u \in listed \ Damaged, f \in Files : FileInv(u, f)

LEMMA ComingKept ==
  ASSUME TypeOK, TypeOK', NEW u \in Users, NEW f \in Files, Passes(u), given'[u][f] = given[u][f]
  PROVE  /\ Arrives(u, f) => Arrives(u, f)'
         /\ Waits(u, f) => Waits(u, f)'
<1>1. CASE KeepsFor(u)
  <2>1. PICK d \in Int :
          /\ \A i \in DOMAIN wire :
               IsFor(wire[i], u) => i - d \in DOMAIN wire' /\ wire'[i - d] = wire[i]
          /\ \A i \in DOMAIN wire' :
               IsFor(wire'[i], u) => i + d \in DOMAIN wire /\ wire[i + d] = wire'[i]
    BY <1>1 DEF KeepsFor
  <2>2. new'[u] = new[u]
    BY <1>1 DEF KeepsFor
  <2>3. Coming(u, f) = {} => Coming(u, f)' = {}
    BY <2>1 DEF Coming
  <2>4. ASSUME NEW i \in DOMAIN wire, Coming(u, f) = {i}
        PROVE  i - d \in DOMAIN wire' /\ wire'[i - d] = wire[i] /\ Coming(u, f)' = {i - d}
    <3>1. IsFor(wire[i], u) /\ wire[i].file = f
      BY <2>4 DEF Coming
    <3>2. i - d \in DOMAIN wire' /\ wire'[i - d] = wire[i]
      BY <2>1, <3>1
    <3>3. i - d \in Coming(u, f)'
      BY <3>1, <3>2 DEF Coming
    <3>4. ASSUME NEW j \in Coming(u, f)' PROVE j = i - d
      <4>1. j \in DOMAIN wire' /\ j + d \in DOMAIN wire /\ wire[j + d] = wire'[j]
        BY <2>1, <3>4 DEF Coming
      <4>2. j + d \in Coming(u, f)
        BY <4>1, <3>4 DEF Coming
      <4>3. j + d = i
        BY <2>4, <4>2
      <4>4. j \in Int
        BY <4>1 DEF TypeOK
      <4> QED BY <4>3, <4>4
    <3> QED BY <3>2, <3>3, <3>4
  <2>5. ASSUME NEW i \in DOMAIN wire, Coming(u, f) = {i}, wire[i].val = given[u][f]
        PROVE  \E j \in DOMAIN wire' : Coming(u, f)' = {j} /\ wire'[j].val = given'[u][f]
    BY <2>4, <2>5
  <2> QED BY <2>2, <2>3, <2>5 DEF Arrives, Waits
<1>2. CASE StoresFor(u)
  <2> DEFINE m == wire[1]
             k == Len(wire)
             l == Len(wire')
  <2>1. /\ wire \in Seq(Message) /\ wire # << >> /\ m \in Message /\ wire' \in Seq(Message)
        /\ Taken(1) /\ IsFor(m, u) /\ StoresFirst(m.val)
    BY <1>2 DEF StoresFor, TypeOK
  <2>2. m.user = u /\ m.file \in Files /\ m.val \in Value
    BY <2>1, MessageFields DEF IsFor
  <2>3. /\ k \in Nat /\ l = k - 1 /\ DOMAIN wire = 1 .. k /\ DOMAIN wire' = 1 .. l /\ 1 \in 1 .. k
        /\ \A j \in 1 .. l : wire'[j] = wire[j + 1]
    BY <2>1 DEF Taken
  <2>4. new' = [new EXCEPT ![u][m.file] = @ \o m.val] /\ new \in Rows
    BY <2>1, <2>2 DEF StoresFirst, TypeOK, Rows
  <2> HIDE DEF k, l
  <2>5. \A j \in 1 .. l : j + 1 \in 1 .. k /\ j + 1 # 1
    BY <2>3
  <2>6. \A j \in Coming(u, f)' : j + 1 \in Coming(u, f) /\ j + 1 # 1
    BY <2>3, <2>5 DEF Coming
  <2>7. CASE f = m.file
    <3>1. 1 \in Coming(u, f)
      BY <2>1, <2>3, <2>7 DEF Coming
    <3> SUFFICES ASSUME Arrives(u, f) PROVE Arrives(u, f)'
      BY <3>1 DEF Waits
    <3>2. new[u][f] = NoFile /\ Coming(u, f) = {1} /\ m.val = given[u][f]
      BY <3>1 DEF Arrives
    <3>3. Coming(u, f)' = {}
      BY <2>6, <3>2
    <3>4. new'[u][f] = new[u][f] \o m.val
      BY <2>2, <2>4, <2>7 DEF Rows
    <3>5. new'[u][f] = m.val
      <4> DEFINE v == m.val
      <4>1. v \in Value
        BY <2>2
      <4> HIDE DEF v
      <4>2. << >> \o v = v
        BY <4>1 DEF Value
      <4> QED BY <3>2, <3>4, <4>2 DEF NoFile, v
    <3> QED BY <3>2, <3>3, <3>5 DEF Arrives
  <2>8. CASE f # m.file
    <3>1. new'[u][f] = new[u][f]
      BY <2>2, <2>4, <2>8 DEF Rows
    <3>2. Coming(u, f) = {} => Coming(u, f)' = {}
      BY <2>6
    <3>3. ASSUME NEW i \in DOMAIN wire, Coming(u, f) = {i}, wire[i].val = given[u][f]
          PROVE  \E j \in DOMAIN wire' : Coming(u, f)' = {j} /\ wire'[j].val = given'[u][f]
      <4>1. i \in 1 .. k /\ i # 1 /\ IsFor(wire[i], u) /\ wire[i].file = f
        <5>1. IsFor(wire[i], u) /\ wire[i].file = f
          BY <3>3 DEF Coming
        <5> QED BY <2>3, <2>8, <5>1
      <4>2. i - 1 \in 1 .. l /\ (i - 1) + 1 = i
        BY <2>3, <4>1
      <4>3. wire'[i - 1] = wire[i]
        BY <2>3, <4>2
      <4>4. i - 1 \in Coming(u, f)'
        BY <2>3, <4>1, <4>2, <4>3 DEF Coming
      <4>5. ASSUME NEW j \in Coming(u, f)' PROVE j = i - 1
        <5>1. j + 1 = i
          BY <2>6, <3>3
        <5>2. j \in Int
          BY <2>3 DEF Coming
        <5> QED BY <5>1, <5>2
      <4>6. Coming(u, f)' = {i - 1}
        BY <4>4, <4>5
      <4> QED BY <2>3, <3>3, <4>2, <4>3, <4>6
    <3> QED BY <3>1, <3>2, <3>3 DEF Arrives, Waits
  <2> QED BY <2>7, <2>8
<1> QED BY <1>1, <1>2 DEF Passes

LEMMA RowsInit ==
  ASSUME Init
  PROVE  EndInv /\ RowsInv
<1>1. fetcher = "told" /\ wire = << >> /\ worker = "idle" /\ cursor = 0 /\ given = old
      /\ new = [u \in Users |-> NoRow] /\ listed \subseteq Users
  BY DEF Init
<1>2. Range(list) = listed
  BY <1>1, ListInit DEF ListInv
<1>3. ASSUME NEW u \in listed, NEW f \in Files PROVE FileInv(u, f)
  <2>1. f > 0
    BY BoundsAssumption DEF Files
  <2>2. ~(f <= 0)
    BY <2>1, BoundsAssumption DEF Files
  <2>3. ~Sent(u, f) /\ ~Gone(u, f)
    BY <1>1, <1>2, <1>3, <2>2 DEF Sent, Gone
  <2>4. new[u][f] = NoFile /\ Coming(u, f) = {}
    BY <1>1, <1>3 DEF NoRow, Coming
  <2> QED BY <1>1, <2>3, <2>4 DEF FileInv, Waits
<1> QED BY <1>1, <1>3 DEF EndInv, RowsInv

LEMMA UserInList ==
  ASSUME TypeOK, list # << >>
  PROVE  user \in Range(list)
<1>1. list \in Seq(Users) /\ 1 \in DOMAIN list
  BY DEF TypeOK
<1> QED BY <1>1 DEF Range, user

LEMMA RowsStep ==
  ASSUME TypeOK, TypeOK', ListInv, EndInv, RowsInv, Next
  PROVE  RowsInv'
<1> SUFFICES ASSUME worker' # "dead", fetcher' # "dead",
                    NEW u \in listed', u \notin Damaged', NEW f \in Files
             PROVE  FileInv(u, f)'
  BY DEF RowsInv
<1> USE DEF oldNode, conn, newNode, story
<1>0. u \in Users /\ f \in Nat /\ f > 0 /\ ~(f <= 0) /\ cursor \in Nat
      /\ u \notin mark'.garbled /\ u \notin mark'.overtaken
      /\ u \notin mark'.early /\ u \notin mark'.kept
  BY BoundsAssumption DEF Files, TypeOK, Damaged
<1>1. ASSUME worker # "dead", fetcher # "dead", KeepsMarks, UNCHANGED listed PROVE FileInv(u, f)
  BY <1>0, <1>1 DEF RowsInv, KeepsMarks, Damaged
<1>2. ASSUME worker # "dead", fetcher # "dead", Passing, UNCHANGED <<given, listed>>
      PROVE  /\ FileInv(u, f)
             /\ Arrives(u, f) => Arrives(u, f)'
             /\ Waits(u, f) => Waits(u, f)'
  BY <1>0, <1>1, <1>2, Passage, ComingKept
<1>3. ASSUME worker # "dead", fetcher # "dead", Passing, UNCHANGED <<given, listed>>,
             old'[u][f] = old[u][f],
             Sent(u, f)' <=> Sent(u, f), Gone(u, f)' <=> Gone(u, f)
      PROVE  FileInv(u, f)'
  BY <1>2, <1>3 DEF FileInv
<1>4. CASE Request
  <2>1. /\ fetcher = "told" /\ worker' = "send" /\ worker = "idle"
        /\ UNCHANGED <<old, list, cursor, given, listed>>
    BY <1>4 DEF Request, ListInv
  <2>2. cursor = 0
    BY <2>1 DEF ListInv
  <2>3. (Sent(u, f)' <=> Sent(u, f)) /\ (Gone(u, f)' <=> Gone(u, f))
    BY <1>0, <2>1, <2>2 DEF Sent, Gone, Here, user
  <2> QED BY <1>3, <1>4, <2>1, <2>3 DEF Passing
<1>5. ASSUME Read \/ ReadPart PROVE FileInv(u, f)'
  <2>1. fetcher = "fetch" /\ UNCHANGED <<old, worker, list, cursor, given, listed>>
    BY <1>5 DEF Read, ReadPart
  <2>2. (Sent(u, f)' <=> Sent(u, f)) /\ (Gone(u, f)' <=> Gone(u, f))
    BY <2>1 DEF Sent, Gone, Here, user
  <2> QED BY <1>3, <1>5, <2>1, <2>2 DEF Passing
<1>6. CASE NoSuchRow
  BY <1>6 DEF NoSuchRow, Close
<1>7. CASE Crash
  BY <1>7 DEF Crash, Close
<1>8. CASE SentAll
  <2>1. /\ worker = "send" /\ list # << >> /\ worker' = "erase" /\ cursor' = 0
        /\ Ahead(old[user]) = {} /\ UNCHANGED <<old, list, fetcher, given, listed>>
    BY <1>8 DEF SentAll, Serving
  <2>2. /\ FileInv(u, f)
        /\ Arrives(u, f) => Arrives(u, f)'
        /\ Waits(u, f) => Waits(u, f)'
    BY <1>2, <1>8, <2>1 DEF Passing
  <2>3. CASE u # user
    <3>1. (Sent(u, f)' <=> Sent(u, f)) /\ (Gone(u, f)' <=> Gone(u, f))
      BY <2>1, <2>3 DEF Sent, Gone, Here, user
    <3> QED BY <1>3, <1>8, <2>1, <3>1 DEF Passing
  <2>4. CASE u = user
    <3>1. Sent(u, f)' /\ ~Gone(u, f) /\ ~Gone(u, f)'
      BY <1>0, <2>1, <2>4, UserInList DEF Sent, Gone, Here, user
    <3>2. Waits(u, f) => Arrives(u, f) \/ f <= cursor
      <4>1. f <= cursor \/ old[u][f] = NoFile
        BY <1>0, <2>1, <2>4 DEF Ahead
      <4>2. old[u][f] = given[u][f]
        BY <2>2, <3>1 DEF FileInv
      <4> QED BY <4>1, <4>2 DEF Waits, Arrives
    <3>3. f <= cursor => Sent(u, f)
      BY <2>1, <2>4 DEF Sent, Here
    <3>4. Arrives(u, f)
      BY <2>2, <3>2, <3>3 DEF FileInv
    <3> QED BY <2>1, <2>2, <3>1, <3>4 DEF FileInv
  <2> QED BY <2>3, <2>4
<1>9. ASSUME Leave, list # << >>, worker = "erase", UNCHANGED <<fetcher, given, listed>>, Passing,
             u = user => \A g \in Files : old'[u][g] = NoFile,
             u # user => old'[u] = old[u]
      PROVE  FileInv(u, f)'
  <2>1. /\ FileInv(u, f)
        /\ Arrives(u, f) => Arrives(u, f)'
    BY <1>2, <1>9
  <2>2. Range(list') = Range(list) \ {user} /\ worker' = "send" /\ cursor' = 0
    BY <1>9, LeaveList DEF Leave
  <2>3. CASE u # user
    <3>1. Sent(u, f) <=> u \notin Range(list)
      BY <2>3 DEF Sent, Here
    <3>2. Gone(u, f) <=> u \notin Range(list)
      BY <2>3 DEF Gone, Here
    <3>3. (Sent(u, f)' <=> u \notin Range(list)) /\ (Gone(u, f)' <=> u \notin Range(list))
      BY <1>0, <2>2, <2>3 DEF Sent, Gone
    <3> QED BY <1>3, <1>9, <2>3, <3>1, <3>2, <3>3
  <2>4. CASE u = user
    <3>1. Sent(u, f) /\ Sent(u, f)' /\ Gone(u, f)'
      BY <1>9, <2>2, <2>4 DEF Sent, Gone, Here
    <3> QED BY <1>9, <2>1, <2>4, <3>1 DEF FileInv
  <2> QED BY <2>3, <2>4
<1>10. CASE EraseFile
  <2> DEFINE g    == NextFile(old[user])
             left == [old[user] EXCEPT ![g] = NoFile]
  <2>1. user \in Users /\ worker = "erase" /\ list # << >>
    BY <1>10, UserIs DEF EraseFile
  <2>2. /\ g \in Files /\ g > cursor
        /\ \A h \in Files : h > cursor /\ h < g => old[user][h] = NoFile
    BY <1>10, NextFileIs DEF EraseFile
  <2>3. /\ old' = [old EXCEPT ![user] = left] /\ UNCHANGED <<fetcher, given, listed>>
        /\ \/ cursor' = g /\ UNCHANGED <<worker, list>>
           \/ /\ Leave
              /\ mark' = IF left = NoRow THEN mark ELSE [mark EXCEPT !.kept = @ \cup {user}]
           \/ Close("dead", << >>)
    BY <1>10 DEF EraseFile
  <2> HIDE DEF g
  <2>4. old \in Rows
    BY DEF TypeOK, Rows
  <2>5. u # user => old'[u] = old[u]
    BY <2>3, <2>4, <1>0 DEF Rows
  <2>6. CASE Leave /\ mark' = IF left = NoRow THEN mark ELSE [mark EXCEPT !.kept = @ \cup {user}]
    <3>1. ASSUME u = user PROVE \A h \in Files : old'[u][h] = NoFile
      <4>1. left = NoRow
        BY <1>0, <2>6, <3>1 DEF TypeOK
      <4>2. old'[u] = NoRow
        BY <2>1, <2>3, <2>4, <3>1, <4>1 DEF Rows
      <4> QED BY <4>2 DEF NoRow
    <3> QED BY <1>9, <1>10, <2>1, <2>3, <2>5, <2>6, <3>1 DEF Passing
  <2>7. CASE cursor' = g /\ UNCHANGED <<worker, list>>
    <3>1. CASE u # user
      <4>1. (Sent(u, f)' <=> Sent(u, f)) /\ (Gone(u, f)' <=> Gone(u, f))
        BY <2>7, <3>1 DEF Sent, Gone, Here, user
      <4> QED BY <1>3, <1>10, <2>1, <2>3, <2>5, <3>1, <4>1 DEF Passing
    <3>2. CASE u = user
      <4>1. Sent(u, f) /\ Sent(u, f)'
        BY <2>1, <2>7, <3>2 DEF Sent, Here, user
      <4>2. /\ FileInv(u, f)
            /\ Arrives(u, f) => Arrives(u, f)'
        BY <1>2, <1>10, <2>1, <2>3 DEF Passing
      <4>3. u \in Range(list)
        BY <2>1, <3>2, UserInList
      <4>4. (Gone(u, f)' <=> f <= g) /\ (Gone(u, f) <=> f <= cursor)
        BY <2>1, <2>7, <3>2, <4>3 DEF Gone, Here, user
      <4>5. old'[u][f] = IF f = g THEN NoFile ELSE old[u][f]
        BY <2>1, <2>3, <2>4, <3>2 DEF Rows
      <4>6. f <= cursor => f <= g
        BY <1>0, <2>2 DEF Files
      <4>7. f <= g /\ ~(f <= cursor) /\ f # g => old[u][f] = NoFile
        <5>1. f <= g /\ ~(f <= cursor) /\ f # g => f > cursor /\ f < g
          BY <1>0, <2>2 DEF Files
        <5> QED BY <2>2, <3>2, <5>1
      <4>8. g <= g
        BY <2>2 DEF Files
      <4> HIDE DEF left
      <4>9. old'[u][f] = IF f <= g THEN NoFile ELSE given[u][f]
        <5>1. CASE f <= g
          <6>1. CASE f = g
            BY <4>5, <6>1, <5>1
          <6>2. CASE f # g
            <7>1. old[u][f] = NoFile
              BY <4>2, <4>4, <4>7, <5>1, <6>2 DEF FileInv
            <7> QED BY <4>5, <5>1, <6>2, <7>1
          <6> QED BY <6>1, <6>2
        <5>2. CASE ~(f <= g)
          <6>1. f # g /\ ~(f <= cursor)
            BY <4>6, <4>8, <5>2
          <6> QED BY <4>2, <4>4, <4>5, <5>2, <6>1 DEF FileInv
        <5> QED BY <5>1, <5>2
      <4> QED BY <2>3, <4>1, <4>2, <4>4, <4>9 DEF FileInv
    <3> QED BY <3>1, <3>2
  <2>8. CASE Close("dead", << >>)
    BY <2>8 DEF Close
  <2> QED BY <2>3, <2>6, <2>7, <2>8
<1>11. CASE ErasedAll
  <2>1. /\ worker = "erase" /\ list # << >> /\ Leave /\ Ahead(old[user]) = {}
        /\ UNCHANGED <<old, fetcher, given, listed>> /\ Passing
    BY <1>11 DEF ErasedAll, Serving, Passing
  <2>2. ASSUME u = user, NEW g \in Files PROVE old'[u][g] = NoFile
    <3>1. u \in Range(list)
      BY <2>1, <2>2, UserInList
    <3>2. FileInv(u, g)
      BY <1>0, <2>1, <2>2, Passage DEF RowsInv, KeepsMarks, Damaged
    <3>3. g \in Nat
      BY BoundsAssumption DEF Files
    <3>4. CASE g <= cursor
      BY <2>1, <2>2, <3>2, <3>4 DEF FileInv, Gone, Here
    <3>5. CASE ~(g <= cursor)
      <4>1. g > cursor
        BY <1>0, <3>3, <3>5
      <4> QED BY <2>1, <2>2, <4>1 DEF Ahead
    <3> QED BY <3>4, <3>5
  <2> QED BY <1>9, <2>1, <2>2
<1>12. CASE Finish
  <2>1. worker = "send" /\ list = << >> /\ UNCHANGED <<old, list, fetcher, given, listed>>
    BY <1>12 DEF Finish
  <2>2. Sent(u, f) /\ Gone(u, f) /\ Sent(u, f)' /\ Gone(u, f)'
    BY <2>1 DEF Sent, Gone, Range
  <2> QED BY <1>3, <1>12, <2>1, <2>2 DEF Passing
<1>13. CASE SendFile
  <2> DEFINE g == NextFile(old[user])
             m == PutMsg(user, g, old[user][g])
             k == Len(wire)
  <2>1. user \in Users /\ list # << >> /\ worker = "send"
    BY <1>13, UserIs DEF SendFile
  <2>2. /\ g \in Files /\ g > cursor
        /\ \A h \in Files : h > cursor /\ h < g => old[user][h] = NoFile
    BY <1>13, NextFileIs DEF SendFile
  <2>3. /\ cursor' = g /\ UNCHANGED <<old, new, given, worker, list, fetcher, mark, listed>>
        /\ wire' = Append(wire, m)
    BY <1>13 DEF SendFile
  <2>4. FileInv(u, f)
    BY <1>1, <2>1, <2>3 DEF KeepsMarks
  <2> HIDE DEF g
  <2>5. IsFor(m, user) /\ m.kind = "put" /\ m.user = user /\ m.file = g /\ m.val = old[user][g]
    BY DEF PutMsg, IsFor
  <2> HIDE DEF m
  <2>6. /\ k \in Nat /\ DOMAIN wire = 1 .. k /\ DOMAIN wire' = 1 .. (k + 1)
        /\ wire'[k + 1] = m /\ \A i \in 1 .. k : wire'[i] = wire[i]
    <3>1. wire \in Seq(Message)
      BY DEF TypeOK
    <3> QED BY <2>3, <3>1
  <2> HIDE DEF k
  <2>7. /\ k + 1 \in 1 .. (k + 1) /\ k + 1 \notin 1 .. k
        /\ \A i \in 1 .. (k + 1) : i \in 1 .. k \/ i = k + 1
        /\ \A i \in 1 .. k : i \in 1 .. (k + 1)
    BY <2>6
  <2>8. \A i \in 1 .. k : i \in Coming(u, f)' <=> i \in Coming(u, f)
    BY <2>6, <2>7 DEF Coming
  <2>9. k + 1 \in Coming(u, f)' <=> u = user /\ f = g
    BY <2>5, <2>6, <2>7 DEF Coming, IsFor
  <2>10. Coming(u, f) \subseteq 1 .. k /\ Coming(u, f)' \subseteq 1 .. (k + 1)
    BY <2>6 DEF Coming
  <2>11. ASSUME ~(u = user /\ f = g)
         PROVE  /\ Arrives(u, f) => Arrives(u, f)'
                /\ Waits(u, f) => Waits(u, f)'
    <3>1. Coming(u, f)' = Coming(u, f)
      BY <2>7, <2>8, <2>9, <2>10, <2>11
    <3>2. \A i \in DOMAIN wire : i \in DOMAIN wire' /\ wire'[i] = wire[i]
      BY <2>6, <2>7
    <3> QED BY <2>3, <3>1, <3>2 DEF Arrives, Waits
  <2>12. CASE u # user
    <3>1. (Sent(u, f)' <=> Sent(u, f)) /\ (Gone(u, f)' <=> Gone(u, f))
      BY <2>3, <2>12 DEF Sent, Gone, Here, user
    <3> QED BY <2>3, <2>4, <2>11, <2>12, <3>1 DEF FileInv
  <2>13. CASE u = user
    <3>1. u \in Range(list)
      BY <2>1, <2>13, UserInList
    <3>2. (Sent(u, f) <=> f <= cursor) /\ (Sent(u, f)' <=> f <= g) /\ ~Gone(u, f) /\ ~Gone(u, f)'
      BY <2>1, <2>3, <2>13, <3>1 DEF Sent, Gone, Here, user
    <3>3. old'[u][f] = given'[u][f] /\ old[u][f] = given[u][f]
      BY <2>3, <2>4, <3>2 DEF FileInv
    <3>4. CASE f = g
      <4>1. ~(f <= cursor) /\ f <= g
        BY <1>0, <2>2, <3>4 DEF Files
      <4>2. new[u][f] = NoFile /\ Coming(u, f) = {}
        BY <2>4, <3>2, <4>1 DEF FileInv, Waits
      <4>3. Coming(u, f)' = {k + 1}
        BY <2>7, <2>8, <2>9, <2>10, <2>13, <3>4, <4>2
      <4>4. new'[u][f] = NoFile /\ k + 1 \in DOMAIN wire' /\ wire'[k + 1].val = given'[u][f]
        BY <2>3, <2>5, <2>6, <2>7, <2>13, <3>3, <3>4, <4>2
      <4>5. Arrives(u, f)'
        BY <4>3, <4>4 DEF Arrives
      <4> QED BY <3>2, <3>3, <4>1, <4>5 DEF FileInv
    <3>5. CASE f # g /\ f <= cursor
      <4>1. f <= g
        BY <1>0, <2>2, <3>5 DEF Files
      <4> QED BY <2>4, <2>11, <3>2, <3>3, <3>5, <4>1 DEF FileInv
    <3>6. CASE f # g /\ ~(f <= cursor) /\ f <= g
      <4>1. f > cursor /\ f < g
        BY <1>0, <2>2, <3>6 DEF Files
      <4>2. Arrives(u, f)
        BY <2>2, <2>4, <2>13, <3>2, <3>3, <3>6, <4>1 DEF FileInv, Waits, Arrives
      <4> QED BY <2>11, <3>2, <3>3, <3>6, <4>2 DEF FileInv
    <3>7. CASE f # g /\ ~(f <= cursor) /\ ~(f <= g)
      BY <2>4, <2>11, <3>2, <3>3, <3>7 DEF FileInv
    <3> QED BY <3>4, <3>5, <3>6, <3>7
  <2> QED BY <2>12, <2>13
<1>14. ASSUME NEW w \in Users, NEW g \in Files, PutOld(w, g) PROVE FileInv(u, f)'
  <2>1. /\ PutsOne(given, given', w, g, Piece) /\ Piece \in Tokens
        /\ PutsOne(old, old', w, g, Piece)
    BY <1>14, GivenTypes DEF PutOld, PutsOne
  <2>2. /\ fetcher # "dead" /\ worker # "dead" /\ Passing
        /\ UNCHANGED <<list, cursor, worker, wire, new, listed>>
    BY <1>14 DEF PutOld, Passing
  <2>3. Passes(u) /\ KeepsMarks
    BY <1>0, <2>2, Passage
  <2>4. FileInv(u, f)
    BY <1>1, <2>2, <2>3
  <2>5. (Sent(u, f)' <=> Sent(u, f)) /\ (Gone(u, f)' <=> Gone(u, f))
    BY <2>2 DEF Sent, Gone, Here, user
  <2>6. old \in Rows /\ given \in Rows
    BY DEF TypeOK, Rows
  <2>7. CASE ~(u = w /\ f = g)
    <3>1. given'[u][f] = given[u][f] /\ old'[u][f] = old[u][f]
      <4>1. PutsOne(given, given', w, g, Piece) /\ given \in Rows /\ Piece \in Tokens
        BY <2>1, <2>6
      <4>2. PutsOne(old, old', w, g, Piece) /\ old \in Rows
        BY <2>1, <2>6
      <4>3. given'[u][f] = given[u][f]
        BY <1>0, <2>7, <4>1, PutRange
      <4>4. old'[u][f] = old[u][f]
        BY <1>0, <2>7, <4>1, <4>2, PutRange
      <4> QED BY <4>3, <4>4
    <3>2. (Arrives(u, f) => Arrives(u, f)') /\ (Waits(u, f) => Waits(u, f)')
      BY <1>0, <2>3, <3>1, ComingKept
    <3> QED BY <2>4, <2>5, <3>1, <3>2 DEF FileInv
  <2>8. CASE u = w /\ f = g
    <3>1. ~Sent(u, f)
      <4>1. u \in Range(list)
        <5> SUFFICES ASSUME u \notin Range(list) PROVE FALSE
          OBVIOUS
        <5>1. worker # "idle"
          BY <2>2 DEF ListInv
        <5>2. worker \in {"send", "erase", "closed"}
          BY <2>2, <5>1 DEF TypeOK
        <5>3. u \in mark'.kept
          BY <1>14, <2>8, <5>2 DEF PutOld, TypeOK
        <5> QED BY <1>0, <5>3
      <4>2. ASSUME Here(u), worker = "erase" PROVE FALSE
        <5>1. list # << >> /\ u = list[1]
          BY <4>2 DEF Here, user
        <5>2. f > cursor \/ f <= cursor
          BY <1>0
        <5>3. u \in mark'.overtaken \/ u \in mark'.kept
          BY <1>14, <2>8, <4>2, <5>1, <5>2 DEF PutOld, TypeOK
        <5> QED BY <1>0, <5>3
      <4>3. ASSUME Here(u), worker # "erase", f <= cursor PROVE FALSE
        <5>1. list # << >> /\ u = list[1]
          BY <4>3 DEF Here, user
        <5>2. worker = "send"
          BY <1>0, <2>2, <4>3, <5>1 DEF TypeOK, ListInv
        <5>3. u \in mark'.overtaken
          BY <1>14, <2>8, <4>3, <5>1, <5>2 DEF PutOld, TypeOK
        <5> QED BY <1>0, <5>3
      <4> QED BY <4>1, <4>2, <4>3 DEF Sent
    <3>2. ~Gone(u, f)
      BY <3>1 DEF Sent, Gone
    <3>3. old[u][f] = given[u][f] /\ Waits(u, f)
      BY <2>4, <3>1, <3>2 DEF FileInv
    <3>4. old'[u][f] = Append(old[u][f], Piece) /\ given'[u][f] = Append(given[u][f], Piece)
      BY <1>0, <2>1, <2>6, <2>8 DEF Rows, PutsOne
    <3>5. Waits(u, f)'
      BY <2>2, <3>3 DEF Waits, Coming
    <3> QED BY <2>5, <3>1, <3>2, <3>3, <3>4, <3>5 DEF FileInv
  <2> QED BY <2>7, <2>8
<1>15. ASSUME NEW w \in Users, NEW g \in Files, PutNew(w, g) PROVE FileInv(u, f)'
  <2>1. /\ PutsOne(given, given', w, g, Piece) /\ Piece \in Tokens
        /\ new' = [new EXCEPT ![w][g] = @ \o <<Piece>>]
    BY <1>15, GivenTypes DEF PutNew, Store, PutsOne
  <2>2. fetcher # "dead" /\ UNCHANGED <<wire, old, list, cursor, worker, listed>> /\ KeepsMarks
    BY <1>15 DEF PutNew, KeepsMarks, TypeOK
  <2>3. new \in Rows /\ given \in Rows
    BY DEF TypeOK, Rows
  <2>4. PutsOne(new, new', w, g, Piece)
    <3>1. new[w][g] \o <<Piece>> = Append(new[w][g], Piece)
      BY <2>1, <2>3 DEF Rows, Value
    <3> QED BY <2>1, <3>1 DEF PutsOne
  <2>5. FileInv(u, f)
    BY <1>1, <2>2
  <2>6. /\ Sent(u, f)' <=> Sent(u, f)
        /\ Gone(u, f)' <=> Gone(u, f)
        /\ Coming(u, f)' = Coming(u, f)
    BY <2>2 DEF Sent, Gone, Here, user, Coming
  <2>7. CASE ~(u = w /\ f = g)
    <3>1. given'[u][f] = given[u][f] /\ new'[u][f] = new[u][f]
      <4>1. PutsOne(given, given', w, g, Piece) /\ given \in Rows /\ Piece \in Tokens
        BY <2>1, <2>3
      <4>2. PutsOne(new, new', w, g, Piece) /\ new \in Rows
        BY <2>3, <2>4
      <4>3. given'[u][f] = given[u][f]
        BY <1>0, <2>7, <4>1, PutRange
      <4>4. new'[u][f] = new[u][f]
        BY <1>0, <2>7, <4>1, <4>2, PutRange
      <4> QED BY <4>3, <4>4
    <3> QED BY <2>2, <2>5, <2>6, <3>1 DEF FileInv, Arrives, Waits
  <2>8. CASE u = w /\ f = g
    <3>1. fetcher = "done"
      BY <1>0, <1>15, <2>8 DEF PutNew, TypeOK
    <3>2. wire = << >> /\ list = << >>
      BY <3>1 DEF EndInv, ListInv
    <3>3. Sent(u, f) /\ Gone(u, f) /\ Coming(u, f) = {} /\ DOMAIN wire = {}
      BY <3>2 DEF Sent, Gone, Range, Coming
    <3>4. new[u][f] = given[u][f]
      BY <2>5, <3>3 DEF FileInv, Arrives
    <3>5. new'[u][f] = Append(new[u][f], Piece) /\ given'[u][f] = Append(given[u][f], Piece)
      BY <1>0, <2>1, <2>3, <2>4, <2>8 DEF Rows, PutsOne
    <3>6. Arrives(u, f)'
      BY <2>6, <3>3, <3>4, <3>5 DEF Arrives
    <3>7. old'[u][f] = NoFile
      BY <2>2, <2>5, <3>3 DEF FileInv
    <3> QED BY <2>6, <3>3, <3>6, <3>7 DEF FileInv
  <2> QED BY <2>7, <2>8
<1> QED
  BY <1>4, <1>5, <1>6, <1>7, <1>8, <1>10, <1>11, <1>12, <1>13, <1>14, <1>15
  DEF Next, Fetcher, Worker, Client

LEMMA RowsSame ==
  ASSUME RowsInv, UNCHANGED vars
  PROVE  RowsInv'
<1> USE DEF vars, oldNode, conn, newNode, story
<1> SUFFICES ASSUME worker' # "dead", fetcher' # "dead",
                    NEW u \in listed', u \notin Damaged', NEW f \in Files
             PROVE  FileInv(u, f)'
  BY DEF RowsInv
<1>1. FileInv(u, f)
  BY DEF RowsInv, Damaged
<1>2. UNCHANGED <<old, new, given, wire, list, cursor, worker>>
  OBVIOUS
<1>3. /\ (Sent(u, f)' <=> Sent(u, f)) /\ (Gone(u, f)' <=> Gone(u, f))
      /\ Coming(u, f)' = Coming(u, f)
  BY <1>2 DEF Sent, Gone, Here, user, Coming
<1>4. (Arrives(u, f) => Arrives(u, f)') /\ (Waits(u, f) => Waits(u, f)')
  BY <1>2, <1>3 DEF Arrives, Waits
<1> QED BY <1>1, <1>2, <1>3, <1>4 DEF FileInv

(***************************************************************************)
(* At the end the row of a listed user is at the new node alone, as it was *)
(* given, but for the rows damaged on the way, put at the new node before  *)
(* the end, or left behind (migrate_data, migrate_worker).                 *)
(***************************************************************************)
THEOREM RowsAreHandedOver == Spec => []HandedOver
<1>1. Init => TypeOK /\ ListInv /\ EndInv /\ RowsInv
  BY TypesInit, ListInit, RowsInit
<1>2. TypeOK /\ ListInv /\ EndInv /\ RowsInv /\ [Next]_vars
        => (TypeOK /\ ListInv /\ EndInv /\ RowsInv)'
  BY TypesStep, ListStep, EndStep, RowsStep, RowsSame
<1>3. TypeOK /\ ListInv /\ EndInv /\ RowsInv => HandedOver
  <2> SUFFICES ASSUME TypeOK, ListInv, EndInv, RowsInv, fetcher = "done",
                      NEW u \in listed, u \notin Damaged
               PROVE  old[u] = NoRow /\ new[u] = given[u]
    BY DEF HandedOver, Damaged
  <2>1. worker = "closed" /\ wire = << >> /\ list = << >>
    BY DEF EndInv, ListInv
  <2>2. ASSUME NEW f \in Files PROVE old[u][f] = NoFile /\ new[u][f] = given[u][f]
    <3>1. FileInv(u, f)
      BY <2>1 DEF RowsInv
    <3>2. Sent(u, f) /\ Gone(u, f) /\ DOMAIN wire = {}
      BY <2>1 DEF Sent, Gone, Range
    <3> QED BY <3>1, <3>2 DEF FileInv, Arrives
  <2>3. u \in Users
    BY DEF TypeOK
  <2>4. old[u] \in [Files -> Value] /\ new[u] \in [Files -> Value] /\ given[u] \in [Files -> Value]
    BY <2>3 DEF TypeOK
  <2>5. old[u] = NoRow
    BY <2>2, <2>4 DEF NoRow
  <2>6. new[u] = given[u]
    BY <2>2, <2>4
  <2> QED BY <2>5, <2>6
<1> QED BY <1>1, <1>2, <1>3, PTL DEF Spec
=============================================================================
