------------------------- MODULE SmtpServer_proofs -------------------------
(***************************************************************************)
(* Theorems about the SMTP server, for any sessions, receivers and number  *)
(* of mails, and whatever lines the clients send.                          *)
(***************************************************************************)
EXTENDS SmtpServer, FiniteSetTheorems, SequenceTheorems, TLAPS

MailRecord == [to : Receivers, done : Seq(Nat), ok : BOOLEAN]

(***************************************************************************)
(* A list of receivers is a sequence of local and remote names.            *)
(***************************************************************************)
LEMMA ReceiversType ==
  ASSUME NEW to \in Receivers
  PROVE  to \in Seq(Local \cup Remote)
<1>1. PICK S \in SUBSET (Local \cup Remote) : to \in SetToSeqs(S)
  BY DEF Receivers
<1>2. IsFiniteSet(S) /\ Cardinality(S) \in Nat
  BY NamesAssumption, FS_Subset, FS_CardinalityType
<1>3. to \in [1 .. Cardinality(S) -> S]
  BY <1>1 DEF SetToSeqs
<1> QED BY <1>2, <1>3

(***************************************************************************)
(* What HandOn does to the mails: one more place, of the mail of s.        *)
(***************************************************************************)
LEMMA HandOnEffect ==
  ASSUME TypeOK, NEW s \in Sessions, phase[s] = "loop", NEW ok \in BOOLEAN, HandOn(s, ok)
  PROVE  /\ mails' \in Seq(MailRecord) /\ Len(mails') = Len(mails)
         /\ DOMAIN mails' = DOMAIN mails
         /\ \A i \in DOMAIN mails : mails'[i].to = mails[i].to
         /\ \A i \in DOMAIN mails \ {mail[s]} : mails'[i] = mails[i]
         /\ mails'[mail[s]].done = Append(mails[mail[s]].done, pos[s])
         /\ mails'[mail[s]].ok = ok
<1> DEFINE i == mail[s]
           m == mails[i]
           new == [to |-> m.to, done |-> Append(m.done, pos[s]), ok |-> ok]
<1>1. mails \in Seq(MailRecord) /\ i \in DOMAIN mails /\ pos[s] \in Nat
  BY DEF TypeOK, MailRecord
<1>2. m \in MailRecord
  BY <1>1
<1>3. Append(m.done, pos[s]) \in Seq(Nat)
  BY <1>1, <1>2 DEF MailRecord
<1>4. /\ new \in MailRecord /\ new.to = m.to
      /\ new.done = Append(m.done, pos[s]) /\ new.ok = ok
  BY <1>2, <1>3 DEF MailRecord
<1>5. mails' = [mails EXCEPT ![i] = new]
  BY DEF HandOn, List
<1> HIDE DEF new, m, i
<1>6. mails'[i] = new /\ \A j \in DOMAIN mails \ {i} : mails'[j] = mails[j]
  BY <1>1, <1>5
<1>7. mails' \in Seq(MailRecord) /\ Len(mails') = Len(mails) /\ DOMAIN mails' = DOMAIN mails
  BY <1>1, <1>4, <1>5
<1> QED BY <1>4, <1>6, <1>7 DEF m, i

LEMMA ReadMessageEffect ==
  ASSUME TypeOK, NEW s \in Sessions, ReadMessage(s), ~Overrun
  PROVE  /\ mails' \in Seq(MailRecord) /\ Len(mails') = Len(mails) + 1 /\ Len(mails') <= MaxMails
         /\ \A i \in DOMAIN mails : i \in DOMAIN mails' /\ mails'[i] = mails[i]
         /\ DOMAIN mails' = DOMAIN mails \cup {Len(mails')} /\ Len(mails') \notin DOMAIN mails
         /\ mails'[Len(mails')].done = << >> /\ mails'[Len(mails')].ok = FALSE
         /\ mails'[Len(mails')].to \in Seq(Local \cup Remote)
<1>1. mails \in Seq(MailRecord) /\ Len(mails) < MaxMails
  BY DEF TypeOK, MailRecord, ReadMessage
<1>2. PICK to \in Receivers : mails' = Append(mails, [to |-> to, done |-> << >>, ok |-> FALSE])
  BY DEF ReadMessage
<1> DEFINE new == [to |-> to, done |-> << >>, ok |-> FALSE]
<1>3. new \in MailRecord /\ new.to = to /\ new.done = << >> /\ new.ok = FALSE
  BY DEF MailRecord
<1>4. to \in Seq(Local \cup Remote)
  BY ReceiversType
<1> HIDE DEF new
<1>5. mails' = Append(mails, new)
  BY <1>2 DEF new
<1> QED BY <1>1, <1>3, <1>4, <1>5, MailsAssumption

-----------------------------------------------------------------------------
(***************************************************************************)
(* Types.  Those of the mails, and of the places a session has in one, are *)
(* apart from the rest: only three actions touch them.                     *)
(***************************************************************************)
MailTypes ==
  /\ mail \in [Sessions -> 0 .. MaxMails]
  /\ pos \in [Sessions -> Nat]
  /\ mails \in Seq(MailRecord) /\ Len(mails) <= MaxMails
  /\ \A s \in Sessions : phase[s] = "loop" =>
       mail[s] \in DOMAIN mails /\ pos[s] \in 1 .. Len(mails[mail[s]].to) + 1

OtherTypes ==
  /\ alive \in BOOLEAN
  /\ flags \in [Sessions -> SUBSET Flags]
  /\ rcvrs \in [Sessions -> SUBSET {Garbage}]
  /\ phase \in [Sessions -> Phases]
  /\ buf \in [Sessions -> Lines \cup {None}]
  /\ peer \in [Sessions -> {"there", "gone", "reset"}]
  /\ agreed \in [Sessions -> Seq(Flags \cup {"data"})]
  /\ cleared \subseteq Sessions

LEMMA TypesSplit ==
  (TypeOK <=> MailTypes /\ OtherTypes) /\ (TypeOK' <=> MailTypes' /\ OtherTypes')
BY DEF TypeOK, MailTypes, OtherTypes, MailRecord

LEMMA MailIn ==
  ASSUME MailTypes, NEW i \in DOMAIN mails
  PROVE  /\ mails[i] \in MailRecord
         /\ mails[i].to \in Seq(Local \cup Remote) /\ Len(mails[i].to) \in Nat
<1>1. mails \in Seq(MailRecord)
  BY DEF MailTypes
<1>2. mails[i] \in MailRecord
  BY <1>1
<1>3. mails[i].to \in Receivers
  BY <1>2 DEF MailRecord
<1>4. mails[i].to \in Seq(Local \cup Remote)
  BY <1>3, ReceiversType
<1> QED BY <1>2, <1>4

LEMMA AgreeType ==
  ASSUME OtherTypes, NEW s \in Sessions, NEW what \in Flags \cup {"data"}, Agree(s, what)
  PROVE  agreed' \in [Sessions -> Seq(Flags \cup {"data"})]
<1>1. Append(agreed[s], what) \in Seq(Flags \cup {"data"})
  BY DEF OtherTypes
<1> QED BY <1>1 DEF Agree, OtherTypes

\* Steps that leave the mails and the places in them, and start no loop.
LEMMA MailTypesKept ==
  ASSUME MailTypes, UNCHANGED <<mail, pos, mails>>,
         \A s \in Sessions : phase'[s] = "loop" => phase[s] = "loop"
  PROVE  MailTypes'
BY DEF MailTypes

LEMMA SaysTypes ==
  ASSUME OtherTypes, NEW s \in Sessions, NEW ln \in Lines, Says(s, ln)
  PROVE  /\ buf' \in [Sessions -> Lines \cup {None}]
         /\ peer' \in [Sessions -> {"there", "gone", "reset"}]
         /\ UNCHANGED alive
<1>1. buf' \in [Sessions -> Lines \cup {None}]
  BY DEF Says, OtherTypes
<1>2. peer' \in [Sessions -> {"there", "gone", "reset"}]
  BY DEF Says, Write, OtherTypes
<1> QED BY <1>1, <1>2 DEF Says, Lives

LEMMA RaiseTypes ==
  ASSUME OtherTypes, NEW s \in Sessions, NEW flag \in Flags, Raise(s, flag) \/ UNCHANGED flags
  PROVE  flags' \in [Sessions -> SUBSET Flags]
<1> DEFINE new == flags[s] \cup {flag}
<1>1. flags \in [Sessions -> SUBSET Flags] /\ new \in SUBSET Flags
  BY DEF OtherTypes
<1>2. flags' = [flags EXCEPT ![s] = new] \/ flags' = flags
  BY DEF Raise
<1> HIDE DEF new
<1> QED BY <1>1, <1>2

LEMMA ExecuteTypes ==
  ASSUME TypeOK, NEW s \in Sessions, NEW ln \in Lines, phase[s] = "command", Execute(s, ln)
  PROVE  TypeOK'
<1> USE TypesSplit
<1>1. CASE Helo(s, ln)
  <2>1. agreed' \in [Sessions -> Seq(Flags \cup {"data"})]
    BY <1>1, AgreeType DEF Helo, Flags, OtherTypes
  <2>2. OtherTypes'
    <3>1. /\ Says(s, ln)
          /\ Raise(s, "helo") \/ UNCHANGED flags
          /\ UNCHANGED <<rcvrs, phase, cleared>> /\ "helo" \in Flags
      BY <1>1 DEF Helo, Flags
    <3>2. flags' \in [Sessions -> SUBSET Flags]
      BY <3>1, RaiseTypes
    <3>3. /\ buf' \in [Sessions -> Lines \cup {None}] /\ UNCHANGED alive
          /\ peer' \in [Sessions -> {"there", "gone", "reset"}]
      BY <3>1, SaysTypes
    <3> QED BY <2>1, <3>1, <3>2, <3>3 DEF OtherTypes
  <2> QED BY <1>1, <2>2, MailTypesKept DEF Helo
<1>2. CASE Mail(s, ln)
  <2>1. agreed' \in [Sessions -> Seq(Flags \cup {"data"})]
    BY <1>2, AgreeType DEF Mail, Flags, OtherTypes
  <2>2. OtherTypes'
    <3>1. /\ Says(s, ln)
          /\ Raise(s, "mail") \/ UNCHANGED flags
          /\ UNCHANGED <<rcvrs, phase, cleared>> /\ "mail" \in Flags
      BY <1>2 DEF Mail, Flags
    <3>2. flags' \in [Sessions -> SUBSET Flags]
      BY <3>1, RaiseTypes
    <3>3. /\ buf' \in [Sessions -> Lines \cup {None}] /\ UNCHANGED alive
          /\ peer' \in [Sessions -> {"there", "gone", "reset"}]
      BY <3>1, SaysTypes
    <3> QED BY <2>1, <3>1, <3>2, <3>3 DEF OtherTypes
  <2> QED BY <1>2, <2>2, MailTypesKept DEF Mail
<1>3. CASE Rcpt(s, ln)
  <2>1. CASE Dies
    <3>1. OtherTypes'
      BY <2>1 DEF Dies, session, OtherTypes
    <3> QED BY <2>1, <3>1, MailTypesKept DEF Dies, session
  <2>2. CASE ~Dies
    <3>1. agreed' \in [Sessions -> Seq(Flags \cup {"data"})]
      BY <1>3, <2>2, AgreeType DEF Rcpt, Flags, OtherTypes
    <3>2. /\ Says(s, ln) /\ rcvrs' = [rcvrs EXCEPT ![s] = @ \cup {Garbage}]
          /\ UNCHANGED flags \/ Raise(s, "rcpt")
          /\ UNCHANGED phase /\ cleared' \subseteq cleared
      BY <1>3, <2>2 DEF Rcpt
    <3>3. rcvrs' \in [Sessions -> SUBSET {Garbage}]
      BY <3>2 DEF OtherTypes
    <3>4. flags' \in [Sessions -> SUBSET Flags]
      BY <3>2 DEF Raise, OtherTypes, Flags
    <3>5. buf' \in [Sessions -> Lines \cup {None}] /\ UNCHANGED alive
      BY <3>2 DEF Says, Lives, OtherTypes
    <3>6. peer' \in [Sessions -> {"there", "gone", "reset"}]
      BY <3>2 DEF Says, Write, OtherTypes
    <3>7. OtherTypes'
      BY <3>1, <3>2, <3>3, <3>4, <3>5, <3>6 DEF OtherTypes
    <3> QED BY <1>3, <2>2, <3>7, MailTypesKept DEF Rcpt
  <2> QED BY <2>1, <2>2
<1>4. CASE BadAddress(s, ln) \/ Broken(s)
  <2>1. OtherTypes'
    BY <1>4 DEF BadAddress, Broken, Dies, session, OtherTypes
  <2> QED BY <1>4, <2>1, MailTypesKept DEF BadAddress, Broken, Dies, session
<1>5. CASE Data(s, ln)
  <2>1. agreed' \in [Sessions -> Seq(Flags \cup {"data"})]
    BY <1>5, AgreeType DEF Data
  <2>2. OtherTypes'
    BY <1>5, <2>1 DEF Data, Says, Write, Lives, Goes, OtherTypes, Phases
  <2>3. \A t \in Sessions : phase'[t] = "loop" => phase[t] = "loop"
    BY <1>5 DEF Data, Goes, OtherTypes
  <2> QED BY <1>5, <2>2, <2>3, MailTypesKept DEF Data
<1>6. CASE Send(s, ln) \/ Quit(s, ln)
  <2>1. OtherTypes'
    <3>1. CASE Send(s, ln)
      BY <3>1 DEF Send, Goes, OtherTypes, Phases
    <3>2. CASE Quit(s, ln)
      <4>1. Says(s, ln) /\ Goes(s, "closed") /\ UNCHANGED <<flags, rcvrs, agreed, cleared>>
        BY <3>2 DEF Quit
      <4>2. phase' \in [Sessions -> Phases]
        BY <4>1 DEF Goes, OtherTypes, Phases
      <4> QED BY <4>1, <4>2, SaysTypes DEF OtherTypes
    <3> QED BY <1>6, <3>1, <3>2
  <2>2. \A t \in Sessions : phase'[t] = "loop" => phase[t] = "loop"
    BY <1>6 DEF Send, Quit, Goes, OtherTypes
  <2> QED BY <1>6, <2>1, <2>2, MailTypesKept DEF Send, Quit
<1>7. CASE Rset(s, ln)
  <2>1. OtherTypes'
    BY <1>7 DEF Rset, Write, Lives, OtherTypes
  <2> QED BY <1>7, <2>1, MailTypesKept DEF Rset
<1>8. CASE NotNow(s, ln)
  <2>1. OtherTypes'
    BY <1>8 DEF NotNow, Says, Write, Lives, OtherTypes
  <2> QED BY <1>8, <2>1, MailTypesKept DEF NotNow
<1> QED BY <1>1, <1>2, <1>3, <1>4, <1>5, <1>6, <1>7, <1>8 DEF Execute

\* Steps that end the process.
LEMMA DiesTypes ==
  ASSUME TypeOK, Dies
  PROVE  TypeOK'
<1>1. OtherTypes'
  BY TypesSplit DEF Dies, session, OtherTypes
<1> QED BY <1>1, TypesSplit, MailTypesKept DEF Dies, session

\* Steps of a session that leaves the loop or was not in it.
LEMMA SilentTypes ==
  ASSUME TypeOK, NEW s \in Sessions, Silent(s)
  PROVE  TypeOK'
<1>1. OtherTypes'
  BY TypesSplit DEF Silent, Goes, Lives, OtherTypes, Phases
<1>2. \A t \in Sessions : phase'[t] = "loop" => phase[t] = "loop"
  BY TypesSplit DEF Silent, Goes, OtherTypes
<1> QED BY <1>1, <1>2, TypesSplit, MailTypesKept DEF Silent

LEMMA NextTypes == TypeOK /\ [Next]_vars => TypeOK'
<1> SUFFICES ASSUME TypeOK, [Next]_vars PROVE TypeOK'
  OBVIOUS
<1> USE TypesSplit
<1>1. CASE UNCHANGED vars
  BY <1>1 DEF vars, session, TypeOK
<1>2. ASSUME NEW s \in Sessions, Command(s) PROVE TypeOK'
  BY <1>2, ExecuteTypes, DiesTypes, HeardAssumption DEF Command, Ready, Overrun
<1>3. ASSUME NEW s \in Sessions, Leave(s) PROVE TypeOK'
  <2>1. OtherTypes'
    BY <1>3 DEF Leave, OtherTypes
  <2> QED BY <1>3, <2>1, MailTypesKept DEF Leave
<1>4. ASSUME NEW s \in Sessions, ReadAgain(s) PROVE TypeOK'
  BY <1>4, ExecuteTypes, DiesTypes DEF ReadAgain, Ready, OtherTypes
<1>5. ASSUME NEW s \in Sessions, ReadData(s) PROVE TypeOK'
  <2>1. CASE Overrun
    BY <2>1, DiesTypes DEF Overrun
  <2>2. CASE ~Overrun
    <3>1. OtherTypes'
      BY <1>5, <2>2 DEF ReadData, Goes, Lives, OtherTypes, Phases
    <3>2. \A t \in Sessions : phase'[t] = "loop" => phase[t] = "loop"
      BY <1>5, <2>2 DEF ReadData, Goes, OtherTypes
    <3> QED BY <1>5, <2>2, <3>1, <3>2, MailTypesKept DEF ReadData
  <2> QED BY <2>1, <2>2
<1>6. ASSUME NEW s \in Sessions, PutData(s) PROVE TypeOK'
  <2>1. CASE Silent(s)
    BY <2>1, SilentTypes
  <2>2. CASE Broken(s) \/ Unreachable(s)
    BY <2>2, DiesTypes DEF Broken, Unreachable
  <2>3. CASE ~Silent(s) /\ ~Broken(s) /\ ~Unreachable(s)
    <3>1. OtherTypes'
      BY <1>6, <2>3 DEF PutData, Goes, Write, Lives, OtherTypes, Phases
    <3>2. \A t \in Sessions : phase'[t] = "loop" => phase[t] = "loop"
      BY <1>6, <2>3 DEF PutData, Goes, OtherTypes
    <3> QED BY <1>6, <2>3, <3>1, <3>2, MailTypesKept DEF PutData
  <2> QED BY <2>1, <2>2, <2>3
<1>7. ASSUME NEW s \in Sessions, NoData(s) PROVE TypeOK'
  BY <1>7, SilentTypes, DiesTypes DEF NoData
<1>8. ASSUME NEW s \in Sessions, ReadMessage(s), ~Overrun PROVE TypeOK'
  <2>1. OtherTypes'
    BY <1>8 DEF ReadMessage, Goes, Lives, OtherTypes, Phases
  <2>2. mails' \in Seq(MailRecord) /\ Len(mails') <= MaxMails
    BY <1>8, ReadMessageEffect
  <2>3. Len(mails') \in 0 .. MaxMails
    BY <2>2, MailsAssumption
  <2>4. mail' = [mail EXCEPT ![s] = Len(mails')] /\ pos' = [pos EXCEPT ![s] = 1]
    BY <1>8 DEF ReadMessage
  <2>5. mail' \in [Sessions -> 0 .. MaxMails] /\ pos' \in [Sessions -> Nat]
    BY <2>3, <2>4 DEF MailTypes
  <2>6. ASSUME NEW t \in Sessions, phase'[t] = "loop"
        PROVE  mail'[t] \in DOMAIN mails' /\ pos'[t] \in 1 .. Len(mails'[mail'[t]].to) + 1
    <3>1. CASE t = s
      <4>1. mail'[t] = Len(mails') /\ pos'[t] = 1
        BY <1>8, <3>1 DEF ReadMessage, MailTypes
      <4>2. mails'[Len(mails')].to \in Seq(Local \cup Remote) /\ Len(mails') \in DOMAIN mails'
        BY <1>8, ReadMessageEffect
      <4> QED BY <4>1, <4>2
    <3>2. CASE t # s
      <4>1. mail'[t] = mail[t] /\ pos'[t] = pos[t] /\ phase[t] = "loop"
        BY <1>8, <2>6, <3>2 DEF ReadMessage, Goes, MailTypes, OtherTypes
      <4> QED BY <1>8, <4>1, ReadMessageEffect DEF MailTypes
    <3> QED BY <3>1, <3>2
  <2> QED BY <2>1, <2>2, <2>5, <2>6 DEF MailTypes
<1>9. ASSUME NEW s \in Sessions, Relay(s) PROVE TypeOK'
  <2>1. CASE Panic \/ Silent(s)
    BY <2>1, DiesTypes, SilentTypes DEF Panic
  <2>2. CASE ~Panic /\ ~Silent(s)
    <3>1. HandOn(s, FALSE) /\ pos' = [pos EXCEPT ![s] = @ + 1] /\ UNCHANGED <<phase, mail>>
      BY <1>9, <2>2 DEF Relay
    <3>2. OtherTypes'
      BY <1>9, <2>2 DEF Relay, Lives, OtherTypes
    <3>3. phase[s] = "loop" /\ pos[s] <= Len(mails[mail[s]].to)
      BY <1>9 DEF Relay, InLoop, Ready, List
    <3>4. /\ mails' \in Seq(MailRecord) /\ Len(mails') <= MaxMails
          /\ DOMAIN mails' = DOMAIN mails
          /\ \A i \in DOMAIN mails : mails'[i].to = mails[i].to
      BY <3>1, <3>3, HandOnEffect DEF MailTypes
    <3>5. \A i \in DOMAIN mails : Len(mails[i].to) \in Nat
      BY MailIn
    <3>6. pos' \in [Sessions -> Nat] /\ mail' = mail
      BY <3>1 DEF MailTypes
    <3>7. ASSUME NEW t \in Sessions, phase'[t] = "loop"
          PROVE  mail[t] \in DOMAIN mails' /\ pos'[t] \in 1 .. Len(mails'[mail[t]].to) + 1
      <4>1. mail[t] \in DOMAIN mails /\ pos[t] \in 1 .. Len(mails[mail[t]].to) + 1
        BY <3>1, <3>7 DEF MailTypes
      <4>2. pos'[t] = IF t = s THEN pos[t] + 1 ELSE pos[t]
        BY <3>1 DEF MailTypes
      <4> QED BY <3>3, <3>4, <3>5, <4>1, <4>2
    <3>8. MailTypes'
      BY <3>4, <3>6, <3>7 DEF MailTypes
    <3> QED BY <3>2, <3>8
  <2> QED BY <2>1, <2>2
<1>10. ASSUME NEW s \in Sessions, Store(s) PROVE TypeOK'
  <2>1. CASE Silent(s)
    BY <2>1, SilentTypes
  <2>2. CASE Broken(s) \/ Unreachable(s)
    BY <2>2, DiesTypes DEF Broken, Unreachable
  <2>3. CASE ~Silent(s) /\ ~Broken(s) /\ ~Unreachable(s)
    <3>1. HandOn(s, TRUE) /\ Goes(s, "command") /\ UNCHANGED <<mail, pos>>
      BY <1>10, <2>3 DEF Store
    <3>2. OtherTypes'
      BY <1>10, <2>3 DEF Store, Goes, Write, Lives, OtherTypes, Phases
    <3>3. phase[s] = "loop"
      BY <1>10 DEF Store, InLoop, Ready
    <3>4. /\ mails' \in Seq(MailRecord) /\ Len(mails') <= MaxMails
          /\ DOMAIN mails' = DOMAIN mails
          /\ \A i \in DOMAIN mails : mails'[i].to = mails[i].to
      BY <3>1, <3>3, HandOnEffect DEF MailTypes
    <3>5. \A t \in Sessions : phase'[t] = "loop" => phase[t] = "loop"
      BY <3>1 DEF Goes, OtherTypes
    <3>6. MailTypes'
      BY <3>1, <3>4, <3>5 DEF MailTypes
    <3> QED BY <3>2, <3>6
  <2> QED BY <2>1, <2>2, <2>3
<1>11. ASSUME NEW s \in Sessions, EndOfList(s) PROVE TypeOK'
  <2>1. OtherTypes'
    BY <1>11 DEF EndOfList, Goes, Lives, OtherTypes, Phases
  <2>2. \A t \in Sessions : phase'[t] = "loop" => phase[t] = "loop"
    BY <1>11 DEF EndOfList, Goes, OtherTypes
  <2> QED BY <1>11, <2>1, <2>2, MailTypesKept DEF EndOfList
<1>12. CASE Overrun
  BY <1>12, DiesTypes DEF Overrun
<1> QED BY <1>1, <1>2, <1>3, <1>4, <1>5, <1>6, <1>7, <1>8, <1>9, <1>10, <1>11, <1>12
        DEF Next, Thread, Client

\* The state of the mail server is well typed (worker's local variables).
THEOREM MailServerTypes == Spec => []TypeOK
<1>1. Init => TypeOK
  BY MailsAssumption DEF Init, TypeOK, Flags, Phases, Lines
<1>2. TypeOK /\ [Next]_vars => TypeOK'
  BY NextTypes
<1> QED BY <1>1, <1>2, PTL DEF Spec

-----------------------------------------------------------------------------
(***************************************************************************)
(* The flags of a session are the commands it has agreed to, which come    *)
(* one after the other.                                                    *)
(***************************************************************************)
Agreed(n) == SubSeq(<<"helo", "mail", "rcpt", "data">>, 1, n)

InOrder(list, flgs) ==
  \/ list = Agreed(0) /\ flgs = {}
  \/ list = Agreed(1) /\ flgs = {"helo"}
  \/ list = Agreed(2) /\ flgs = {"helo", "mail"}
  \/ list \in {Agreed(3), Agreed(4)} /\ flgs = {"helo", "mail", "rcpt"}

OrderInv ==
  \A s \in Sessions :
    /\ InOrder(agreed[s], flags[s])
    /\ phase[s] \in {"data", "put"} => agreed[s] = Agreed(4)

Words == {"helo", "mail", "rcpt", "data"}

LEMMA WordsAppend ==
  ASSUME NEW sq \in Seq(Words), NEW e \in Words
  PROVE  /\ Append(sq, e) = sq \o <<e>>
         /\ Range(Append(sq, e)) = Range(sq) \cup {e}
<1>1. /\ DOMAIN Append(sq, e) = DOMAIN sq \cup {Len(sq) + 1}
      /\ Append(sq, e)[Len(sq) + 1] = e
      /\ \A i \in DOMAIN sq : Append(sq, e)[i] = sq[i]
  BY AppendProperties
<1>2. Append(sq, e) = sq \o <<e>>
  BY AppendIsConcat
<1> QED BY <1>1, <1>2 DEF Range

LEMMA AgreedNext ==
  /\ \A n \in 0 .. 4 : Agreed(n) \in Seq(Words) /\ Len(Agreed(n)) = n
  /\ Agreed(1) = Append(Agreed(0), "helo") /\ Agreed(2) = Append(Agreed(1), "mail")
  /\ Agreed(3) = Append(Agreed(2), "rcpt") /\ Agreed(4) = Append(Agreed(3), "data")
<1> DEFINE all == <<"helo", "mail", "rcpt", "data">>
<1>1. Len(all) = 4 /\ DOMAIN all = 1 .. 4
  OBVIOUS
<1>2. all[1] = "helo" /\ all[2] = "mail" /\ all[3] = "rcpt" /\ all[4] = "data"
  OBVIOUS
<1>3. all \in Seq(Words)
  BY DEF Words
<1>0. \A i \in 1 .. 4 : all[i] \in Words
  BY <1>2 DEF Words
<1> HIDE DEF all
<1>4. ASSUME NEW n \in 0 .. 4
      PROVE  SubSeq(all, 1, n) \in Seq(Words) /\ Len(SubSeq(all, 1, n)) = n
  <2>1. \A i \in 1 .. n : all[i] \in Words
    BY <1>0
  <2>2. 1 \in Int /\ n \in Int
    OBVIOUS
  <2>3. /\ SubSeq(all, 1, n) \in Seq(Words)
        /\ Len(SubSeq(all, 1, n)) = IF 1 <= n THEN n-1+1 ELSE 0
    BY <2>1, <2>2, SubSeqProperties
  <2> QED BY <2>3
<1>5. ASSUME NEW n \in 1 .. 4
      PROVE  SubSeq(all, 1, n) = Append(SubSeq(all, 1, n-1), all[n])
  <2>1. SubSeq(all, 1, n) = SubSeq(all, 1, n-1) \o <<all[n]>>
    BY <1>1, <1>3, SubSeqRecursiveSecond
  <2>2. SubSeq(all, 1, n-1) \in Seq(Words) /\ all[n] \in Words
    BY <1>1, <1>3, <1>4
  <2> QED BY <2>1, <2>2, WordsAppend
<1>6. \A n : Agreed(n) = SubSeq(all, 1, n)
  BY DEF Agreed, all
<1>7. \A n \in 1 .. 4 : Agreed(n) = Append(Agreed(n-1), all[n])
  BY <1>5, <1>6
<1>8. /\ Agreed(1) = Append(Agreed(1-1), all[1]) /\ Agreed(2) = Append(Agreed(2-1), all[2])
      /\ Agreed(3) = Append(Agreed(3-1), all[3]) /\ Agreed(4) = Append(Agreed(4-1), all[4])
  BY <1>7
<1>9. \A n \in 0 .. 4 : Agreed(n) \in Seq(Words) /\ Len(Agreed(n)) = n
  BY <1>4, <1>6
<1> QED BY <1>2, <1>8, <1>9

LEMMA AgreedRanges ==
  /\ Range(Agreed(0)) = {} /\ Range(Agreed(1)) = {"helo"}
  /\ Range(Agreed(2)) = {"helo", "mail"} /\ Range(Agreed(3)) = {"helo", "mail", "rcpt"}
  /\ Range(Agreed(4)) = {"helo", "mail", "rcpt", "data"}
<1>1. Range(Agreed(0)) = {}
  BY AgreedNext DEF Range
<1>2. Range(Agreed(1)) = Range(Agreed(0)) \cup {"helo"}
  <2>1. Agreed(0) \in Seq(Words) /\ "helo" \in Words
    BY AgreedNext DEF Words
  <2> QED BY <2>1, AgreedNext, WordsAppend
<1>3. Range(Agreed(2)) = Range(Agreed(1)) \cup {"mail"}
  <2>1. Agreed(1) \in Seq(Words) /\ "mail" \in Words
    BY AgreedNext DEF Words
  <2> QED BY <2>1, AgreedNext, WordsAppend
<1>4. Range(Agreed(3)) = Range(Agreed(2)) \cup {"rcpt"}
  <2>1. Agreed(2) \in Seq(Words) /\ "rcpt" \in Words
    BY AgreedNext DEF Words
  <2> QED BY <2>1, AgreedNext, WordsAppend
<1>5. Range(Agreed(4)) = Range(Agreed(3)) \cup {"data"}
  <2>1. Agreed(3) \in Seq(Words) /\ "data" \in Words
    BY AgreedNext DEF Words
  <2> QED BY <2>1, AgreedNext, WordsAppend
<1> QED BY <1>1, <1>2, <1>3, <1>4, <1>5

(***************************************************************************)
(* A command agreed to once more changes nothing; agreed to for the first  *)
(* time it is the next one in order.                                       *)
(***************************************************************************)
LEMMA AgreeInOrder ==
  ASSUME OtherTypes, NEW s \in Sessions, InOrder(agreed[s], flags[s]),
         NEW what \in Flags, Agree(s, what), Raise(s, what),
         what # "helo" => "helo" \in flags[s], what = "rcpt" => "mail" \in flags[s]
  PROVE  /\ InOrder(agreed'[s], flags'[s])
         /\ agreed[s] = Agreed(4) => agreed'[s] = Agreed(4)
<1>1. flags'[s] = flags[s] \cup {what}
  BY DEF Raise, OtherTypes
<1>2. agreed'[s] = IF what \in Range(agreed[s]) THEN agreed[s] ELSE Append(agreed[s], what)
  BY DEF Agree, OtherTypes
<1>3. CASE agreed[s] = Agreed(0)
  BY <1>1, <1>2, <1>3, AgreedRanges, AgreedNext DEF InOrder, Flags
<1>4. CASE agreed[s] = Agreed(1)
  BY <1>1, <1>2, <1>4, AgreedRanges, AgreedNext DEF InOrder, Flags
<1>5. CASE agreed[s] = Agreed(2)
  BY <1>1, <1>2, <1>5, AgreedRanges, AgreedNext DEF InOrder, Flags
<1>6. CASE agreed[s] \in {Agreed(3), Agreed(4)}
  BY <1>1, <1>2, <1>6, AgreedRanges, AgreedNext DEF InOrder, Flags
<1> QED BY <1>3, <1>4, <1>5, <1>6 DEF InOrder

LEMMA OrderKept ==
  ASSUME OrderInv, UNCHANGED <<flags, agreed>>,
         \A s \in Sessions : phase'[s] \in {"data", "put"} => phase[s] \in {"data", "put"}
  PROVE  OrderInv'
BY DEF OrderInv

\* A step in which s alone changes its flags and its list, and its phase
\* stays or becomes one to which the whole list belongs.
LEMMA OrderMoves ==
  ASSUME OtherTypes, OrderInv, NEW s \in Sessions,
         \A t \in Sessions \ {s} : flags'[t] = flags[t] /\ agreed'[t] = agreed[t]
                                     /\ phase'[t] = phase[t],
         InOrder(agreed'[s], flags'[s]),
         phase'[s] \in {"data", "put"} => agreed'[s] = Agreed(4)
  PROVE  OrderInv'
BY DEF OrderInv

LEMMA ExecuteOrder ==
  ASSUME OtherTypes, OrderInv, NEW s \in Sessions, NEW ln \in Lines,
         phase[s] = "command", Execute(s, ln)
  PROVE  OrderInv'
<1> DEFINE Others == \A t \in Sessions \ {s} : flags'[t] = flags[t] /\ agreed'[t] = agreed[t]
                                                 /\ phase'[t] = phase[t]
<1>0. InOrder(agreed[s], flags[s])
  BY DEF OrderInv
<1>1. ASSUME NEW what \in Flags, Agree(s, what), Raise(s, what), UNCHANGED phase,
             what # "helo" => "helo" \in flags[s], what = "rcpt" => "mail" \in flags[s]
      PROVE  OrderInv'
  <2>1. InOrder(agreed'[s], flags'[s])
    BY <1>0, <1>1, AgreeInOrder
  <2>2. Others
    BY <1>1 DEF Agree, Raise, OtherTypes
  <2>3. phase'[s] \notin {"data", "put"}
    BY <1>1
  <2> QED BY <2>1, <2>2, <2>3, OrderMoves
<1>2. CASE Helo(s, ln)
  BY <1>1, <1>2, OrderKept DEF Helo, Flags
<1>3. CASE Mail(s, ln)
  BY <1>1, <1>3, OrderKept DEF Mail, Flags
<1>4. CASE Rcpt(s, ln)
  BY <1>1, <1>4, OrderKept DEF Rcpt, Flags, Dies, session
<1>5. CASE BadAddress(s, ln) \/ Broken(s)
  BY <1>5, OrderKept DEF BadAddress, Broken, Dies, session
<1>6. CASE Data(s, ln)
  <2>1. flags' = flags /\ "rcpt" \in flags[s] /\ agreed[s] \in {Agreed(3), Agreed(4)}
    BY <1>0, <1>6 DEF Data, InOrder
  <2>2. agreed'[s] = IF "data" \in Range(agreed[s]) THEN agreed[s] ELSE Append(agreed[s], "data")
    BY <1>6 DEF Data, Agree, OtherTypes
  <2>3. agreed'[s] = Agreed(4)
    BY <2>1, <2>2, AgreedRanges, AgreedNext
  <2>4. InOrder(agreed'[s], flags'[s])
    BY <1>0, <2>1, <2>3, AgreedNext DEF InOrder
  <2>5. Others
    BY <1>6 DEF Data, Agree, Goes, OtherTypes
  <2> QED BY <2>3, <2>4, <2>5, OrderMoves
<1>7. CASE Send(s, ln) \/ Quit(s, ln)
  <2>1. UNCHANGED <<flags, agreed>>
    BY <1>7 DEF Send, Quit
  <2>2. \A t \in Sessions : phase'[t] \in {"data", "put"} => phase[t] \in {"data", "put"}
    BY <1>7 DEF Send, Quit, Goes, OtherTypes
  <2> QED BY <2>1, <2>2, OrderKept
<1>8. CASE Rset(s, ln) \/ NotNow(s, ln)
  BY <1>8, OrderKept DEF Rset, NotNow
<1> QED BY <1>2, <1>3, <1>4, <1>5, <1>6, <1>7, <1>8 DEF Execute

LEMMA NextOrder == TypeOK /\ OrderInv /\ [Next]_vars => OrderInv'
<1> SUFFICES ASSUME OtherTypes, OrderInv, [Next]_vars PROVE OrderInv'
  BY TypesSplit
<1>0. CASE Dies
  BY <1>0, OrderKept DEF Dies, session
<1>1. CASE UNCHANGED vars
  BY <1>1, OrderKept DEF vars, session
<1>2. ASSUME NEW s \in Sessions, Command(s) PROVE OrderInv'
  BY <1>0, <1>2, ExecuteOrder, HeardAssumption DEF Command, Ready, Overrun
<1>3. ASSUME NEW s \in Sessions, Leave(s) PROVE OrderInv'
  BY <1>3, OrderKept DEF Leave
<1>4. ASSUME NEW s \in Sessions, ReadAgain(s) PROVE OrderInv'
  BY <1>0, <1>4, ExecuteOrder DEF ReadAgain, Ready, OtherTypes
<1>5. ASSUME NEW s \in Sessions, ReadData(s), ~Dies PROVE OrderInv'
  <2>1. UNCHANGED <<flags, agreed>>
    BY <1>5 DEF ReadData, Overrun
  <2>2. \A t \in Sessions : phase'[t] \in {"data", "put"} => phase[t] \in {"data", "put"}
    BY <1>5 DEF ReadData, Overrun, Ready, Goes, OtherTypes
  <2> QED BY <2>1, <2>2, OrderKept
<1>6. ASSUME NEW s \in Sessions, PutData(s) \/ NoData(s) \/ Relay(s) \/ Store(s) \/ EndOfList(s)
      PROVE  OrderInv'
  <2>1. UNCHANGED <<flags, agreed>>
    BY <1>6 DEF PutData, NoData, Relay, Store, EndOfList, Silent, Broken, Unreachable, Panic,
                Dies, session
  <2>2. UNCHANGED phase \/ \E ph \in {"command", "hung"} : Goes(s, ph)
    BY <1>6 DEF PutData, NoData, Relay, Store, EndOfList, Silent, Broken, Unreachable, Panic,
                Dies, session
  <2>3. \A t \in Sessions : phase'[t] \in {"data", "put"} => phase[t] \in {"data", "put"}
    BY <2>2 DEF Goes, OtherTypes
  <2> QED BY <2>1, <2>3, OrderKept
<1>7. ASSUME NEW s \in Sessions, ReadMessage(s), ~Dies PROVE OrderInv'
  <2>1. UNCHANGED <<flags, agreed>>
    BY <1>7 DEF ReadMessage, Overrun
  <2>2. \A t \in Sessions : phase'[t] \in {"data", "put"} => phase[t] \in {"data", "put"}
    BY <1>7 DEF ReadMessage, Overrun, Goes, OtherTypes
  <2> QED BY <2>1, <2>2, OrderKept
<1> QED BY <1>0, <1>1, <1>2, <1>3, <1>4, <1>5, <1>6, <1>7 DEF Next, Thread, Client

\* Data is taken only after HELO, MAIL and RCPT were accepted in this order,
\* whatever was sent or read again in between (the flags of worker).
THEOREM CommandsComeInOrder == Spec => []CommandsInOrder
<1>1. Init => OrderInv
  <2>1. << >> = Agreed(0)
    BY AgreedNext
  <2> QED BY <2>1 DEF Init, OrderInv, InOrder
<1>2. TypeOK /\ OrderInv /\ [Next]_vars => OrderInv'
  BY NextOrder
<1>3. OrderInv => CommandsInOrder
  <2> SUFFICES ASSUME OrderInv, NEW s \in Sessions
               PROVE  /\ agreed[s] = SubSeq(<<"helo", "mail", "rcpt", "data">>, 1, Len(agreed[s]))
                      /\ phase[s] \in {"data", "put"} => Len(agreed[s]) = 4
    BY DEF CommandsInOrder
  <2>1. \E n \in 0 .. 4 : agreed[s] = Agreed(n)
    BY DEF OrderInv, InOrder
  <2>2. agreed[s] = Agreed(Len(agreed[s]))
    BY <2>1, AgreedNext
  <2>3. phase[s] \in {"data", "put"} => Len(agreed[s]) = 4
    BY AgreedNext DEF OrderInv
  <2> QED BY <2>2, <2>3 DEF Agreed
<1> QED BY <1>1, <1>2, <1>3, MailServerTypes, PTL DEF Spec

-----------------------------------------------------------------------------
(***************************************************************************)
(* Receivers.  The flag of RCPT is there together with a receiver, until   *)
(* RSET takes the receivers and leaves the flag.                           *)
(***************************************************************************)
ReceiverInv ==
  \A s \in Sessions :
    "rcpt" \in flags[s] \/ phase[s] \in {"data", "put"} => rcvrs[s] # {} \/ s \in cleared

\* Steps of s that leave flags and receivers, and do not begin to read data.
LEMMA ReceiverKept ==
  ASSUME ReceiverInv, UNCHANGED <<flags, rcvrs, cleared>>,
         \A s \in Sessions : phase'[s] \in {"data", "put"} =>
                              phase[s] \in {"data", "put"} \/ "rcpt" \in flags[s]
  PROVE  ReceiverInv'
BY DEF ReceiverInv

LEMMA ExecuteReceiver ==
  ASSUME OtherTypes, ReceiverInv, NEW s \in Sessions, NEW ln \in Lines,
         phase[s] = "command", Execute(s, ln)
  PROVE  ReceiverInv'
<1>1. ASSUME NEW flag \in {"helo", "mail"}, Raise(s, flag) \/ UNCHANGED flags,
             UNCHANGED <<rcvrs, phase, cleared>>
      PROVE  ReceiverInv'
  <2>1. ASSUME NEW t \in Sessions, "rcpt" \in flags'[t] PROVE "rcpt" \in flags[t]
    <3>1. CASE UNCHANGED flags
      BY <2>1, <3>1
    <3>2. CASE Raise(s, flag)
      <4>1. flags'[t] = IF t = s THEN flags[s] \cup {flag} ELSE flags[t]
        BY <3>2 DEF Raise, OtherTypes
      <4> QED BY <2>1, <4>1
    <3> QED BY <1>1, <3>1, <3>2
  <2> QED BY <1>1, <2>1 DEF ReceiverInv
<1>2. CASE Helo(s, ln)
  BY <1>1, <1>2 DEF Helo
<1>3. CASE Mail(s, ln)
  BY <1>1, <1>3 DEF Mail
<1>4. CASE Rcpt(s, ln)
  <2>1. CASE Dies
    BY <2>1, ReceiverKept DEF Dies, session
  <2>2. CASE ~Dies
    <3>1. /\ rcvrs' = [rcvrs EXCEPT ![s] = @ \cup {Garbage}] /\ UNCHANGED phase
          /\ Raise(s, "rcpt") \/ UNCHANGED flags
          /\ cleared' = cleared \ {s}
      BY <1>4, <2>2 DEF Rcpt
    <3>2. rcvrs'[s] # {}
      BY <3>1 DEF OtherTypes
    <3>3. \A t \in Sessions \ {s} : rcvrs'[t] = rcvrs[t] /\ flags'[t] = flags[t]
      BY <3>1 DEF Raise, OtherTypes
    <3>4. \A t \in Sessions \ {s} : (t \in cleared) <=> (t \in cleared')
      BY <3>1
    <3>5. ASSUME NEW t \in Sessions, "rcpt" \in flags'[t] \/ phase'[t] \in {"data", "put"}
          PROVE  rcvrs'[t] # {} \/ t \in cleared'
      <4>1. CASE t = s
        BY <3>2, <4>1
      <4>2. CASE t # s
        BY <3>1, <3>3, <3>4, <3>5, <4>2 DEF ReceiverInv
      <4> QED BY <4>1, <4>2
    <3> QED BY <3>5 DEF ReceiverInv
  <2> QED BY <2>1, <2>2
<1>5. CASE BadAddress(s, ln) \/ Broken(s)
  BY <1>5, ReceiverKept DEF BadAddress, Broken, Dies, session
<1>6. CASE Data(s, ln)
  <2>1. UNCHANGED <<flags, rcvrs, cleared>> /\ "rcpt" \in flags[s]
    BY <1>6 DEF Data
  <2>2. \A t \in Sessions \ {s} : phase'[t] = phase[t]
    BY <1>6 DEF Data, Goes, OtherTypes
  <2> QED BY <2>1, <2>2, ReceiverKept
<1>7. CASE Send(s, ln) \/ Quit(s, ln)
  <2>1. UNCHANGED <<flags, rcvrs, cleared>>
    BY <1>7 DEF Send, Quit
  <2>2. \A t \in Sessions : phase'[t] \in {"data", "put"} => phase[t] \in {"data", "put"}
    BY <1>7 DEF Send, Quit, Goes, OtherTypes
  <2> QED BY <2>1, <2>2, ReceiverKept
<1>8. CASE Rset(s, ln)
  <2>1. /\ UNCHANGED <<flags, phase>> /\ cleared' = cleared \cup {s}
        /\ \A t \in Sessions \ {s} : rcvrs'[t] = rcvrs[t]
    BY <1>8 DEF Rset, OtherTypes
  <2> QED BY <2>1 DEF ReceiverInv
<1>9. CASE NotNow(s, ln)
  BY <1>9, ReceiverKept DEF NotNow
<1> QED BY <1>2, <1>3, <1>4, <1>5, <1>6, <1>7, <1>8, <1>9 DEF Execute

LEMMA NextReceiver == TypeOK /\ ReceiverInv /\ [Next]_vars => ReceiverInv'
<1> SUFFICES ASSUME OtherTypes, ReceiverInv, [Next]_vars PROVE ReceiverInv'
  BY TypesSplit
<1>0. CASE Dies
  BY <1>0, ReceiverKept DEF Dies, session
<1>1. CASE UNCHANGED vars
  BY <1>1, ReceiverKept DEF vars, session
<1>2. ASSUME NEW s \in Sessions, Command(s) PROVE ReceiverInv'
  BY <1>0, <1>2, ExecuteReceiver, HeardAssumption DEF Command, Ready, Overrun
<1>3. ASSUME NEW s \in Sessions, Leave(s) PROVE ReceiverInv'
  BY <1>3, ReceiverKept DEF Leave
<1>4. ASSUME NEW s \in Sessions, ReadAgain(s) PROVE ReceiverInv'
  BY <1>0, <1>4, ExecuteReceiver DEF ReadAgain, Ready, OtherTypes
<1>5. ASSUME NEW s \in Sessions, UNCHANGED <<flags, rcvrs, cleared>>,
             \/ UNCHANGED phase
             \/ \E ph \in {"command", "loop", "hung"} : Goes(s, ph)
             \/ phase[s] = "data" /\ Goes(s, "put")
      PROVE  ReceiverInv'
  <2>1. \A t \in Sessions : phase'[t] \in {"data", "put"} => phase[t] \in {"data", "put"}
    BY <1>5 DEF Goes, OtherTypes
  <2> QED BY <1>5, <2>1, ReceiverKept
<1>6. ASSUME NEW s \in Sessions,
             \/ ReadData(s) \/ PutData(s) \/ NoData(s) \/ ReadMessage(s)
             \/ Relay(s) \/ Store(s) \/ EndOfList(s)
      PROVE  ReceiverInv'
  <2>1. CASE ~Dies
    <3>1. UNCHANGED <<flags, rcvrs, cleared>>
      BY <1>6, <2>1 DEF ReadData, PutData, NoData, ReadMessage, Relay, Store, EndOfList, Silent,
                        Broken, Unreachable, Panic, Overrun
    <3>2. \/ UNCHANGED phase
          \/ \E ph \in {"command", "loop", "hung"} : Goes(s, ph)
          \/ phase[s] = "data" /\ Goes(s, "put")
      BY <1>6, <2>1 DEF ReadData, PutData, NoData, ReadMessage, Relay, Store, EndOfList, Silent,
                        Broken, Unreachable, Panic, Overrun, Ready
    <3> QED BY <1>5, <3>1, <3>2
  <2> QED BY <1>0, <2>1
<1> QED BY <1>1, <1>2, <1>3, <1>4, <1>6 DEF Next, Thread, Client

\* A mail taken by DATA (its puts are under way) has a receiver, or RSET came
\* after the last RCPT: the list is emptied, rcpt_flag of worker is not.
THEOREM MailsHaveReceivers == Spec => []ForNobodyAfterReset
<1>1. Init => ReceiverInv
  BY DEF Init, ReceiverInv
<1>2. TypeOK /\ ReceiverInv /\ [Next]_vars => ReceiverInv'
  BY NextReceiver
<1>3. ReceiverInv => ForNobodyAfterReset
  BY DEF ReceiverInv, ForNobodyAfterReset
<1> QED BY <1>1, <1>2, <1>3, MailServerTypes, PTL DEF Spec

-----------------------------------------------------------------------------
(***************************************************************************)
(* The loop over the receivers.  Of a mail whose loop has come to place n  *)
(* the places before n were handed on, all of them to remote receivers,    *)
(* and no two loops are about the same mail.                               *)
(***************************************************************************)
Places(n) == [k \in 1 .. n |-> k]

Handed(m) ==
  /\ m.done = Places(Len(m.done))
  /\ \A k \in 1 .. Len(m.done) - 1 : m.to[k] \in Remote
  /\ m.ok = (m.done # << >> /\ m.to[Len(m.done)] \in Local)

Passed(m, n) ==
  /\ m.done = Places(n)
  /\ \A k \in 1 .. n : m.to[k] \in Remote
  /\ ~m.ok

LoopInv ==
  /\ \A i \in DOMAIN mails : Handed(mails[i])
  /\ \A s \in Sessions : phase[s] = "loop" => Passed(mails[mail[s]], pos[s] - 1)
  /\ \A s, t \in Sessions :
       phase[s] = "loop" /\ phase[t] = "loop" /\ mail[s] = mail[t] => s = t

LEMMA PlacesAppend ==
  ASSUME NEW n \in Nat
  PROVE  /\ Places(n) \in Seq(Nat) /\ Len(Places(n)) = n
         /\ Append(Places(n), n + 1) = Places(n + 1)
<1>1. Places(n) \in [1 .. n -> Nat]
  BY DEF Places
<1>2. Places(n) \in Seq(Nat) /\ Len(Places(n)) = n
  BY <1>1
<1>3. /\ DOMAIN Append(Places(n), n + 1) = 1 .. n + 1
      /\ Append(Places(n), n + 1)[n + 1] = n + 1
      /\ \A i \in 1 .. n : Append(Places(n), n + 1)[i] = i
  BY <1>2 DEF Places
<1>4. \A i \in 1 .. n + 1 : Append(Places(n), n + 1)[i] = i
  BY <1>3
<1>5. Append(Places(n), n + 1) \in Seq(Nat)
  BY <1>2
<1>6. Append(Places(n), n + 1) = [k \in 1 .. n + 1 |-> Append(Places(n), n + 1)[k]]
  BY <1>3, <1>5
<1>7. Append(Places(n), n + 1) = Places(n + 1)
  BY <1>4, <1>6 DEF Places
<1> QED BY <1>2, <1>7

\* Steps that leave the mails, and the places in them of those who stay.
LEMMA LoopKept ==
  ASSUME LoopInv, UNCHANGED <<mail, pos, mails>>,
         \A s \in Sessions : phase'[s] = "loop" => phase[s] = "loop"
  PROVE  LoopInv'
BY DEF LoopInv

LEMMA ExecuteLoop ==
  ASSUME TypeOK, LoopInv, NEW s \in Sessions, NEW ln, Execute(s, ln)
  PROVE  LoopInv'
<1>1. UNCHANGED <<mail, pos, mails>>
  BY DEF Execute, Helo, Mail, Rcpt, BadAddress, Data, Send, Quit, Rset, NotNow, Broken, Dies,
         session
<1>2. UNCHANGED phase \/ \E ph \in {"data", "message", "closed"} : Goes(s, ph)
  BY DEF Execute, Helo, Mail, Rcpt, BadAddress, Data, Send, Quit, Rset, NotNow, Broken, Dies,
         session
<1>3. \A t \in Sessions : phase'[t] = "loop" => phase[t] = "loop"
  BY <1>2 DEF Goes, TypeOK
<1> QED BY <1>1, <1>3, LoopKept

\* The mail of s with its present place handed on.
LEMMA HandOnPlaces ==
  ASSUME TypeOK, LoopInv, NEW s \in Sessions, InLoop(s), NEW ok \in BOOLEAN, HandOn(s, ok),
         List(s)[pos[s]] \in IF ok THEN Local ELSE Remote
  PROVE  /\ Handed(mails'[mail[s]])
         /\ ~ok => Passed(mails'[mail[s]], pos[s])
         /\ DOMAIN mails' = DOMAIN mails
         /\ \A i \in DOMAIN mails \ {mail[s]} : mails'[i] = mails[i]
<1> DEFINE m == mails[mail[s]]
           n == pos[s] - 1
           new == mails'[mail[s]]
<1>1. phase[s] = "loop" /\ mail[s] \in DOMAIN mails /\ n \in Nat /\ n + 1 = pos[s]
  BY DEF InLoop, Ready, TypeOK
<1>2. /\ new.to = m.to /\ new.done = Append(m.done, pos[s]) /\ new.ok = ok
      /\ DOMAIN mails' = DOMAIN mails
      /\ \A i \in DOMAIN mails \ {mail[s]} : mails'[i] = mails[i]
  BY <1>1, HandOnEffect
<1>3. Passed(m, n)
  BY <1>1 DEF LoopInv
<1>4. m.to[pos[s]] \in IF ok THEN Local ELSE Remote
  BY DEF List
<1> HIDE DEF m, n, new
<1>5. new.done = Places(n + 1) /\ Len(Places(n + 1)) = n + 1
  <2>1. m.done = Places(n) /\ n + 1 \in Nat
    BY <1>1, <1>3 DEF Passed
  <2>2. Append(Places(n), n + 1) = Places(n + 1)
    BY <1>1, PlacesAppend
  <2>3. Len(Places(n + 1)) = n + 1
    BY <2>1, PlacesAppend
  <2> QED BY <1>1, <1>2, <2>1, <2>2, <2>3
<1>6. \A k \in 1 .. n : new.to[k] \in Remote
  BY <1>2, <1>3 DEF Passed
<1>7. new.to[n + 1] \in IF ok THEN Local ELSE Remote
  BY <1>1, <1>2, <1>4
<1>8. Places(n + 1) # << >>
  BY <1>1, <1>5
<1>9. ok = (new.to[n + 1] \in Local)
  BY <1>7, NamesAssumption
<1>10. \A k \in 1 .. Len(new.done) - 1 : new.to[k] \in Remote
  BY <1>1, <1>5, <1>6
<1>11. Handed(new)
  BY <1>2, <1>5, <1>8, <1>9, <1>10 DEF Handed
<1>12. ASSUME ~ok PROVE Passed(new, n + 1)
  <2>1. \A k \in 1 .. n + 1 : new.to[k] \in Remote
    BY <1>1, <1>6, <1>7, <1>12
  <2> QED BY <1>2, <1>5, <1>12, <2>1 DEF Passed
<1> QED BY <1>1, <1>2, <1>11, <1>12 DEF new

LEMMA NextLoop == TypeOK /\ LoopInv /\ [Next]_vars => LoopInv'
<1> SUFFICES ASSUME TypeOK, LoopInv, [Next]_vars PROVE LoopInv'
  OBVIOUS
<1>1. CASE UNCHANGED vars
  BY <1>1, LoopKept DEF vars, session
<1>0. CASE Dies
  BY <1>0, LoopKept DEF Dies, session
<1>2. ASSUME NEW s \in Sessions, Command(s) \/ ReadAgain(s) PROVE LoopInv'
  BY <1>0, <1>2, ExecuteLoop DEF Command, ReadAgain, Overrun
<1>3. ASSUME NEW s \in Sessions, Leave(s) PROVE LoopInv'
  BY <1>3, LoopKept DEF Leave
<1>4. ASSUME NEW s \in Sessions, UNCHANGED <<mail, pos, mails>>,
             UNCHANGED phase \/ \E ph \in {"put", "command", "hung"} : Goes(s, ph)
      PROVE  LoopInv'
  <2>1. \A t \in Sessions : phase'[t] = "loop" => phase[t] = "loop"
    BY <1>4 DEF Goes, TypeOK
  <2> QED BY <1>4, <2>1, LoopKept
<1>5. ASSUME NEW s \in Sessions, ReadData(s) \/ PutData(s) \/ NoData(s) \/ EndOfList(s), ~Dies
      PROVE  LoopInv'
  <2>1. UNCHANGED <<mail, pos, mails>>
    BY <1>5 DEF ReadData, PutData, NoData, EndOfList, Silent, Broken, Unreachable, Overrun
  <2>2. \E ph \in {"put", "command", "hung"} : Goes(s, ph)
    BY <1>5 DEF ReadData, PutData, NoData, EndOfList, Silent, Broken, Unreachable, Overrun
  <2> QED BY <1>4, <2>1, <2>2
<1>6. ASSUME NEW s \in Sessions, ReadMessage(s), ~Overrun PROVE LoopInv'
  <2> DEFINE n == Len(mails')
  <2>1. /\ \A i \in DOMAIN mails : mails'[i] = mails[i]
        /\ DOMAIN mails' = DOMAIN mails \cup {n} /\ n \notin DOMAIN mails
        /\ mails'[n].done = << >> /\ mails'[n].ok = FALSE
    BY <1>6, ReadMessageEffect
  <2>2. /\ mail' = [mail EXCEPT ![s] = n] /\ pos' = [pos EXCEPT ![s] = 1]
        /\ phase' = [phase EXCEPT ![s] = "loop"]
    BY <1>6 DEF ReadMessage, Goes
  <2> HIDE DEF n
  <2>3. Places(0) = << >>
    BY PlacesAppend
  <2>4. Handed(mails'[n])
    <3>1. Len(mails'[n].done) = 0
      BY <2>1
    <3>2. mails'[n].done = Places(Len(mails'[n].done)) /\ mails'[n].ok = FALSE
      BY <2>1, <2>3, <3>1
    <3>3. \A k \in 1 .. Len(mails'[n].done) - 1 : FALSE
      BY <3>1
    <3>4. mails'[n].ok = (mails'[n].done # << >> /\ mails'[n].to[Len(mails'[n].done)] \in Local)
      BY <2>1
    <3> QED BY <3>2, <3>3, <3>4 DEF Handed
  <2>5. Passed(mails'[n], 0)
    BY <2>1, <2>3 DEF Passed
  <2>6. \A i \in DOMAIN mails' : Handed(mails'[i])
    BY <2>1, <2>4 DEF LoopInv
  <2>7. mail'[s] = n /\ pos'[s] = 1
    BY <2>2 DEF TypeOK
  <2>8. \A t \in Sessions \ {s} :
          mail'[t] = mail[t] /\ pos'[t] = pos[t] /\ phase'[t] = phase[t]
    BY <2>2 DEF TypeOK
  <2>9. \A t \in Sessions : phase[t] = "loop" => mail[t] \in DOMAIN mails
    BY DEF TypeOK
  <2>10. ASSUME NEW t \in Sessions, phase'[t] = "loop" PROVE Passed(mails'[mail'[t]], pos'[t] - 1)
    <3>1. CASE t = s
      BY <2>5, <2>7, <3>1
    <3>2. CASE t # s
      BY <2>1, <2>8, <2>9, <2>10, <3>2 DEF LoopInv
    <3> QED BY <3>1, <3>2
  <2>11. \A t, u \in Sessions :
           phase'[t] = "loop" /\ phase'[u] = "loop" /\ mail'[t] = mail'[u] => t = u
    BY <2>1, <2>7, <2>8, <2>9 DEF LoopInv
  <2> QED BY <2>6, <2>10, <2>11 DEF LoopInv
<1>7. ASSUME NEW s \in Sessions, Relay(s) PROVE LoopInv'
  <2>1. CASE Panic
    BY <1>0, <2>1 DEF Panic
  <2>2. CASE Silent(s)
    BY <1>4, <2>2 DEF Silent
  <2>3. CASE ~Panic /\ ~Silent(s)
    <3>1. /\ HandOn(s, FALSE) /\ pos' = [pos EXCEPT ![s] = @ + 1]
          /\ UNCHANGED <<phase, mail>> /\ InLoop(s) /\ List(s)[pos[s]] \in Remote
      BY <1>7, <2>3 DEF Relay
    <3>2. /\ Handed(mails'[mail[s]]) /\ Passed(mails'[mail[s]], pos[s])
          /\ DOMAIN mails' = DOMAIN mails
          /\ \A i \in DOMAIN mails \ {mail[s]} : mails'[i] = mails[i]
      BY <3>1, HandOnPlaces
    <3>3. phase[s] = "loop" /\ pos'[s] = pos[s] + 1 /\ pos[s] \in Nat
      BY <3>1 DEF InLoop, Ready, TypeOK
    <3>4. \A t \in Sessions \ {s} : pos'[t] = pos[t]
      BY <3>1 DEF TypeOK
    <3>5. \A i \in DOMAIN mails' : Handed(mails'[i])
      BY <3>2 DEF LoopInv
    <3>6. ASSUME NEW t \in Sessions, phase'[t] = "loop" PROVE Passed(mails'[mail'[t]], pos'[t] - 1)
      <4>1. CASE t = s
        BY <3>1, <3>2, <3>3, <4>1
      <4>2. CASE t # s
        <5>1. phase[t] = "loop" /\ mail[t] # mail[s] /\ mail[t] \in DOMAIN mails
          BY <3>1, <3>3, <3>6, <4>2 DEF LoopInv, TypeOK
        <5>2. mails'[mail'[t]] = mails[mail[t]] /\ pos'[t] = pos[t]
          BY <3>1, <3>2, <3>4, <4>2, <5>1
        <5> QED BY <5>1, <5>2 DEF LoopInv
      <4> QED BY <4>1, <4>2
    <3>7. \A t, u \in Sessions :
            phase'[t] = "loop" /\ phase'[u] = "loop" /\ mail'[t] = mail'[u] => t = u
      BY <3>1 DEF LoopInv
    <3> QED BY <3>5, <3>6, <3>7 DEF LoopInv
  <2> QED BY <2>1, <2>2, <2>3
<1>8. ASSUME NEW s \in Sessions, Store(s) PROVE LoopInv'
  <2>1. CASE Silent(s)
    BY <1>4, <2>1 DEF Silent
  <2>2. CASE Broken(s) \/ Unreachable(s)
    BY <2>2, LoopKept DEF Broken, Unreachable, Dies, session
  <2>3. CASE ~Silent(s) /\ ~Broken(s) /\ ~Unreachable(s)
    <3>1. /\ HandOn(s, TRUE) /\ Goes(s, "command") /\ UNCHANGED <<mail, pos>>
          /\ InLoop(s) /\ List(s)[pos[s]] \in Local
      BY <1>8, <2>3 DEF Store
    <3>2. /\ Handed(mails'[mail[s]])
          /\ DOMAIN mails' = DOMAIN mails
          /\ \A i \in DOMAIN mails \ {mail[s]} : mails'[i] = mails[i]
      BY <3>1, HandOnPlaces
    <3>3. phase[s] = "loop"
      BY <3>1 DEF InLoop, Ready
    <3>4. \A t \in Sessions : phase'[t] = "loop" => t # s /\ phase[t] = "loop"
      BY <3>1 DEF Goes, TypeOK
    <3>5. \A i \in DOMAIN mails' : Handed(mails'[i])
      BY <3>2 DEF LoopInv
    <3>6. ASSUME NEW t \in Sessions, phase'[t] = "loop" PROVE Passed(mails'[mail'[t]], pos'[t] - 1)
      <4>1. phase[t] = "loop" /\ mail[t] # mail[s] /\ mail[t] \in DOMAIN mails
        BY <3>3, <3>4, <3>6 DEF LoopInv, TypeOK
      <4>2. mails'[mail'[t]] = mails[mail[t]] /\ pos'[t] = pos[t]
        BY <3>1, <3>2, <4>1
      <4> QED BY <4>1, <4>2 DEF LoopInv
    <3>7. \A t, u \in Sessions :
            phase'[t] = "loop" /\ phase'[u] = "loop" /\ mail'[t] = mail'[u] => t = u
      BY <3>1, <3>4 DEF LoopInv
    <3> QED BY <3>5, <3>6, <3>7 DEF LoopInv
  <2> QED BY <2>1, <2>2, <2>3
<1> QED BY <1>0, <1>1, <1>2, <1>3, <1>5, <1>6, <1>7, <1>8 DEF Next, Thread, Client, Overrun

\* A mail goes to its receivers in order, once each, up to the first local one,
\* for which it is answered with 250 (handle_send, whose loop ends in a return).
THEOREM MailsStopAtFirstLocal == Spec => []UpToFirstLocal
<1>1. Init => LoopInv
  BY DEF Init, LoopInv
<1>2. TypeOK /\ LoopInv /\ [Next]_vars => LoopInv'
  BY NextLoop
<1>3. LoopInv => UpToFirstLocal
  BY DEF LoopInv, UpToFirstLocal, Handed, Places
<1> QED BY <1>1, <1>2, <1>3, MailServerTypes, PTL DEF Spec
=============================================================================
