----------------------------- MODULE SmtpServer -----------------------------
(***************************************************************************)
(* The SMTP server (webmail/webmail_server.cc, webmail/webmail_utils.cc):  *)
(* one thread per connection, each with its flags and its receivers in     *)
(* local variables, and one process, which every thread can take down.     *)
(* SEND is the command of the frontend: it carries a whole message and is  *)
(* handed to the mail servers of remote receivers and to the storage of a  *)
(* local one.                                                              *)
(*                                                                         *)
(* A mail is the list of its receivers, a line its kind.  The comparisons  *)
(* with the command words read past the end of their copies: any line may  *)
(* be taken for none of the commands.                                      *)
(***************************************************************************)
EXTENDS Integers, Sequences, SequencesExt, FiniteSets

CONSTANTS
  Sessions,   \* connections
  Local,      \* receivers at localhost.com
  Remote,     \* receivers elsewhere
  Heard,      \* the kinds of lines the client of each session sends
  MaxMails,   \* bound: SEND commands in one behaviour
  None

ASSUME MailsAssumption == MaxMails \in Nat
ASSUME NamesAssumption ==
  /\ Local \cap Remote = {} /\ None \notin Local \cup Remote
  /\ IsFiniteSet(Local \cup Remote)

\* The string that handle_rcpt never returns.
Garbage == "garbage"

Lines ==
  {"helo", "helo without a domain",
   "mail", "mail from elsewhere", "mail without @",
   "rcpt", "rcpt without mbox", "rcpt elsewhere", "rcpt without @",
   "data", "send", "quit", "rset", "noop", "other"}

ASSUME HeardAssumption == Heard \in [Sessions -> SUBSET Lines]

\* Lists of receivers without repetition.
Receivers == UNION {SetToSeqs(S) : S \in SUBSET (Local \cup Remote)}

VARIABLES
  alive,    \* the process
  flags,    \* helo_flag, mail_flag and rcpt_flag of each session, those that are 1
  rcvrs,    \* rcvr_list of each session
  phase,    \* what each thread does
  buf,      \* the line each thread has read last, which stays in its buffer
  peer,     \* the client: "there", "gone", or "reset" (by it, or since it was written to)
  mail,     \* number of the mail a SEND carries
  pos,      \* the place in the list of receivers a SEND has come to
  \* history, read by the properties alone
  mails,    \* all mails: receivers, places handed on, answered with 250
  agreed,   \* commands each session has agreed to, in the order of the first times
  cleared   \* the sessions that have sent RSET since their last RCPT

session == <<flags, rcvrs, phase, buf, peer, mail, pos>>
vars    == <<alive, session, mails, agreed, cleared>>

Flags  == {"helo", "mail", "rcpt"}
Phases == {"command", "data", "put", "message", "loop", "closed", "hung"}

TypeOK ==
  /\ alive \in BOOLEAN
  /\ flags \in [Sessions -> SUBSET Flags]
  /\ rcvrs \in [Sessions -> SUBSET {Garbage}]
  /\ phase \in [Sessions -> Phases]
  /\ buf \in [Sessions -> Lines \cup {None}]
  /\ peer \in [Sessions -> {"there", "gone", "reset"}]
  /\ mail \in [Sessions -> 0 .. MaxMails]
  /\ pos \in [Sessions -> Nat]
  /\ mails \in Seq([to : Receivers, done : Seq(Nat), ok : BOOLEAN]) /\ Len(mails) <= MaxMails
  /\ \A s \in Sessions : phase[s] = "loop" =>
       mail[s] \in DOMAIN mails /\ pos[s] \in 1 .. Len(mails[mail[s]].to) + 1
  /\ agreed \in [Sessions -> Seq(Flags \cup {"data"})]
  /\ cleared \subseteq Sessions

Init ==
  /\ alive = TRUE
  /\ flags = [s \in Sessions |-> {}]
  /\ rcvrs = [s \in Sessions |-> {}]
  /\ phase = [s \in Sessions |-> "command"]
  /\ buf = [s \in Sessions |-> None]
  /\ peer = [s \in Sessions |-> "there"]
  /\ mail = [s \in Sessions |-> 0]
  /\ pos = [s \in Sessions |-> 0]
  /\ mails = <<>>
  /\ agreed = [s \in Sessions |-> <<>>]
  /\ cleared = {}

-----------------------------------------------------------------------------
(***************************************************************************)
(* What a thread does to the whole process.                                *)
(***************************************************************************)
Goes(s, ph) == phase' = [phase EXCEPT ![s] = ph]

Dies ==
  /\ alive' = FALSE
  /\ UNCHANGED <<session, mails, agreed, cleared>>

(***************************************************************************)
(* What is read is written behind its buffer if it is longer: a line of    *)
(* 1024 bytes or more (read_command, read_data), a message with more       *)
(* receivers than the 20 of MsgQueue (handle_send).                        *)
(***************************************************************************)
Overrun == Dies

(***************************************************************************)
(* dowrite.  To a client that has gone the first write succeeds and is     *)
(* answered with a reset, the next one raises SIGPIPE.                     *)
(***************************************************************************)
CanWrite(s) == peer[s] # "reset"

Write(s) == peer' = [peer EXCEPT ![s] = IF @ = "gone" THEN "reset" ELSE @]

Lives == UNCHANGED alive

Broken(s) == ~CanWrite(s) /\ Dies

-----------------------------------------------------------------------------
(***************************************************************************)
(* The commands of worker, tried in this order.  Says(s, ...) is the part  *)
(* they share: the line is in the buffer and the answer is written.        *)
(***************************************************************************)
Says(s, ln) ==
  /\ CanWrite(s)
  /\ buf' = [buf EXCEPT ![s] = ln]
  /\ Write(s)
  /\ Lives

Agree(s, what) ==
  agreed' = IF what \in Range(agreed[s]) THEN agreed ELSE [agreed EXCEPT ![s] = Append(@, what)]

Raise(s, flag) == flags' = [flags EXCEPT ![s] = @ \cup {flag}]

Helo(s, ln) ==
  /\ ln \in {"helo", "helo without a domain"} /\ "helo" \notin flags[s]
  /\ Says(s, ln)
  /\ IF ln = "helo" THEN Raise(s, "helo") /\ Agree(s, "helo") ELSE UNCHANGED <<flags, agreed>>
  /\ UNCHANGED <<rcvrs, phase, mail, pos, mails, cleared>>

\* Fault: MAIL is accepted from anybody.
MailUngreeted(s, ln) ==
  /\ ln \in {"mail", "mail from elsewhere"}
  /\ "mail" \notin flags[s]
  /\ Says(s, ln)
  /\ IF ln = "mail" THEN Raise(s, "mail") /\ Agree(s, "mail") ELSE UNCHANGED <<flags, agreed>>
  /\ UNCHANGED <<rcvrs, phase, mail, pos, mails, cleared>>

Mail(s, ln) ==
  /\ ln \in {"mail", "mail from elsewhere"}
  /\ "helo" \in flags[s] /\ "mail" \notin flags[s]
  /\ Says(s, ln)
  /\ IF ln = "mail" THEN Raise(s, "mail") /\ Agree(s, "mail") ELSE UNCHANGED <<flags, agreed>>
  /\ UNCHANGED <<rcvrs, phase, mail, pos, mails, cleared>>

(***************************************************************************)
(* handle_rcpt writes to its own copy of the receivers and returns no      *)
(* string: what worker inserts is whatever lies there, if it can be read.  *)
(***************************************************************************)
\* Fault: the receiver is not put into the list.
RcptOnly(s, ln) ==
  /\ ln \in {"rcpt", "rcpt elsewhere"}
  /\ {"helo", "mail"} \subseteq flags[s]
  /\ Says(s, ln)
  /\ Raise(s, "rcpt") /\ Agree(s, "rcpt")
  /\ cleared' = cleared \ {s}
  /\ UNCHANGED <<rcvrs, phase, mail, pos, mails>>

Rcpt(s, ln) ==
  /\ ln \in {"rcpt", "rcpt without mbox", "rcpt elsewhere"}
  /\ {"helo", "mail"} \subseteq flags[s]
  /\ \/ /\ Says(s, ln)
        /\ rcvrs' = [rcvrs EXCEPT ![s] = @ \cup {Garbage}]
        /\ IF ln = "rcpt without mbox"
           THEN UNCHANGED <<flags, agreed>>
           ELSE Raise(s, "rcpt") /\ Agree(s, "rcpt")
        /\ cleared' = cleared \ {s}
        /\ UNCHANGED <<phase, mail, pos, mails>>
     \/ Dies

\* An address without @ makes compare throw, and nothing catches it.
BadAddress(s, ln) ==
  /\ \/ ln = "mail without @" /\ "helo" \in flags[s] /\ "mail" \notin flags[s]
     \/ ln = "rcpt without @" /\ {"helo", "mail"} \subseteq flags[s]
  /\ Dies

Data(s, ln) ==
  /\ ln = "data" /\ "rcpt" \in flags[s]
  /\ Says(s, ln)
  /\ Agree(s, "data")
  /\ Goes(s, "data")
  /\ UNCHANGED <<flags, rcvrs, mail, pos, mails, cleared>>

\* SEND needs no flag and is answered when its message has been read.
Send(s, ln) ==
  /\ ln = "send"
  /\ Len(mails) < MaxMails
  /\ buf' = [buf EXCEPT ![s] = ln]
  /\ Goes(s, "message")
  /\ UNCHANGED <<alive, flags, rcvrs, peer, mail, pos, mails, agreed, cleared>>

Quit(s, ln) ==
  /\ ln = "quit"
  /\ Says(s, ln)
  /\ Goes(s, "closed")
  /\ UNCHANGED <<flags, rcvrs, mail, pos, mails, agreed, cleared>>

\* The flags that RSET sets to 0 are new variables of its block.
Rset(s, ln) ==
  /\ ln = "rset"
  /\ CanWrite(s)
  /\ rcvrs' = [rcvrs EXCEPT ![s] = {}]
  /\ buf' = [buf EXCEPT ![s] = None]
  /\ Write(s) /\ Lives
  /\ cleared' = cleared \cup {s}
  /\ UNCHANGED <<flags, phase, mail, pos, mails, agreed>>

\* NOOP, a command out of order, a line that is no command.
NotNow(s, ln) ==
  /\ Says(s, ln)
  /\ UNCHANGED <<flags, rcvrs, phase, mail, pos, mails, agreed, cleared>>

Execute(s, ln) ==
  \/ Helo(s, ln) \/ Mail(s, ln) \/ Rcpt(s, ln) \/ BadAddress(s, ln) \/ Data(s, ln)
  \/ Send(s, ln) \/ Quit(s, ln) \/ Rset(s, ln) \/ NotNow(s, ln)
  \/ Broken(s)

Ready(s, ph) == alive /\ phase[s] = ph

Command(s) ==
  /\ Ready(s, "command") /\ peer[s] = "there"
  /\ (\E ln \in Heard[s] : Execute(s, ln)) \/ Overrun

(***************************************************************************)
(* read_command counts on when the client has closed: it walks over the    *)
(* line in its buffer and takes it for a new one; over an empty buffer it  *)
(* walks out of the stack.  A client that closes with answers unread       *)
(* resets the connection: the -1 of the read that fails is taken for the   *)
(* length 65535, and the byte there, which is set to 0, may be outside.    *)
(***************************************************************************)
Leave(s) ==
  /\ alive /\ phase[s] # "closed" /\ peer[s] = "there"
  /\ \E how \in {"gone", "reset"} : peer' = [peer EXCEPT ![s] = how]
  /\ UNCHANGED <<alive, flags, rcvrs, phase, buf, mail, pos, mails, agreed, cleared>>

\* Fault: the line read again is not executed.
ReadAgainOnly(s) ==
  /\ Ready(s, "command") /\ peer[s] # "there"
  /\ buf' = [buf EXCEPT ![s] = IF @ = None THEN "other" ELSE @]
  /\ UNCHANGED <<alive, flags, rcvrs, phase, peer, mail, pos, mails, agreed, cleared>>

ReadAgain(s) ==
  /\ Ready(s, "command") /\ peer[s] # "there"
  /\ \/ buf[s] # None /\ Execute(s, buf[s])
     \/ (buf[s] = None \/ peer[s] = "reset") /\ Dies

-----------------------------------------------------------------------------
(***************************************************************************)
(* send_to_backend.  It comes back when the node has answered, whatever it *)
(* answered; a node that cannot be reached makes the write raise SIGPIPE;  *)
(* a master that is silent, or a node that stops in its answer, is waited  *)
(* for for ever.                                                           *)
(***************************************************************************)
Unreachable(s) == Dies

Silent(s) ==
  /\ Goes(s, "hung")
  /\ Lives
  /\ UNCHANGED <<flags, rcvrs, buf, peer, mail, pos, mails, agreed, cleared>>

(***************************************************************************)
(* handle_data: the lines of the mail, then a put for every receiver, and  *)
(* 250.  The flags stay as they are: helo_flag is set to 0 in a copy.      *)
(***************************************************************************)
ReadData(s) ==
  /\ Ready(s, "data") /\ peer[s] = "there"
  /\ \/ /\ Goes(s, "put")
        /\ Lives
        /\ UNCHANGED <<flags, rcvrs, buf, peer, mail, pos, mails, agreed, cleared>>
     \/ Overrun

PutData(s) ==
  /\ Ready(s, "put")
  /\ \/ /\ CanWrite(s)
        /\ Write(s) /\ Lives
        /\ Goes(s, "command")
        /\ UNCHANGED <<flags, rcvrs, buf, mail, pos, mails, agreed, cleared>>
     \/ Broken(s)
     \/ rcvrs[s] # {} /\ (Unreachable(s) \/ Silent(s))

\* Without a client the same line is read for ever, or the walk ends outside.
NoData(s) ==
  /\ alive /\ phase[s] \in {"data", "message"} /\ peer[s] # "there"
  /\ Silent(s) \/ Dies

(***************************************************************************)
(* handle_send: the message with its list of receivers, then the loop over *)
(* them.                                                                   *)
(***************************************************************************)
ReadMessage(s) ==
  /\ Ready(s, "message") /\ peer[s] = "there"
  /\ Len(mails) < MaxMails
  /\ \/ /\ \E to \in Receivers : mails' = Append(mails, [to |-> to, done |-> <<>>, ok |-> FALSE])
        /\ mail' = [mail EXCEPT ![s] = Len(mails')]
        /\ pos' = [pos EXCEPT ![s] = 1]
        /\ Goes(s, "loop")
        /\ Lives
        /\ UNCHANGED <<flags, rcvrs, buf, peer, agreed, cleared>>
     \/ Overrun

List(s)   == mails[mail[s]].to
InLoop(s) == Ready(s, "loop") /\ pos[s] <= Len(List(s))
HandOn(s, ok) ==
  mails' = [mails EXCEPT ![mail[s]] = [to |-> List(s), done |-> Append(@.done, pos[s]), ok |-> ok]]

(***************************************************************************)
(* A remote receiver: look up the mail server, connect, talk.  What the    *)
(* server answers is printed and otherwise ignored; everything that fails  *)
(* ends the process; a server that does not answer is waited for for ever. *)
(***************************************************************************)
Panic == Dies

\* Fault: the loop stays at the receiver it has served.
RelayAgain(s) ==
  /\ InLoop(s) /\ List(s)[pos[s]] \in Remote
  /\ \/ /\ HandOn(s, FALSE)
        /\ Len(mails[mail[s]].done) < 2
        /\ Lives
        /\ UNCHANGED <<flags, rcvrs, phase, buf, peer, mail, pos, agreed, cleared>>
     \/ Panic
     \/ Silent(s)

Relay(s) ==
  /\ InLoop(s) /\ List(s)[pos[s]] \in Remote
  /\ \/ /\ HandOn(s, FALSE)
        /\ pos' = [pos EXCEPT ![s] = @ + 1]
        /\ Lives
        /\ UNCHANGED <<flags, rcvrs, phase, buf, peer, mail, agreed, cleared>>
     \/ Panic
     \/ Silent(s)

(***************************************************************************)
(* A local receiver: the put, 250, and the return that leaves the loop.    *)
(***************************************************************************)
Store(s) ==
  /\ InLoop(s) /\ List(s)[pos[s]] \in Local
  /\ \/ /\ CanWrite(s)
        /\ HandOn(s, TRUE)
        /\ Write(s) /\ Lives
        /\ Goes(s, "command")
        /\ UNCHANGED <<flags, rcvrs, buf, mail, pos, agreed, cleared>>
     \/ Broken(s)
     \/ Unreachable(s)
     \/ Silent(s)

\* Fault: the loop does not stop behind the last receiver.
EndOfListMissed(s) ==
  /\ Ready(s, "loop") /\ pos[s] > Len(List(s))
  /\ pos' = [pos EXCEPT ![s] = @ + 1]
  /\ Lives
  /\ UNCHANGED <<flags, rcvrs, phase, buf, peer, mail, mails, agreed, cleared>>

\* Nobody local: the command ends without an answer.
EndOfList(s) ==
  /\ Ready(s, "loop") /\ pos[s] > Len(List(s))
  /\ Goes(s, "command")
  /\ Lives
  /\ UNCHANGED <<flags, rcvrs, buf, peer, mail, pos, mails, agreed, cleared>>

Thread(s) ==
  \/ ReadAgain(s) \/ PutData(s) \/ NoData(s) \/ Relay(s) \/ Store(s) \/ EndOfList(s)

Client(s) == Command(s) \/ Leave(s) \/ ReadData(s) \/ ReadMessage(s)

Next == \E s \in Sessions : Thread(s) \/ Client(s)

\* Threads go on with what they have read; what clients do is not fair.
Spec == Init /\ [][Next]_vars /\ \A s \in Sessions : WF_vars(Thread(s))

-----------------------------------------------------------------------------
(***************************************************************************)
(* A mail goes to its receivers in their order, once each, up to the first *)
(* local one and no further; it is answered with 250 exactly when it has   *)
(* been handed to storage for that one.                                    *)
(***************************************************************************)
UpToFirstLocal ==
  \A i \in DOMAIN mails :
    LET m == mails[i] IN
    /\ m.done = [k \in 1 .. Len(m.done) |-> k]
    /\ \A k \in 1 .. Len(m.done) - 1 : m.to[k] \in Remote
    /\ m.ok = (m.done # <<>> /\ m.to[Len(m.done)] \in Local)

(***************************************************************************)
(* Data is taken only in a session in which HELO, MAIL and RCPT have been  *)
(* accepted in that order, whatever was sent in between and however often  *)
(* a line was read again.                                                  *)
(***************************************************************************)
CommandsInOrder ==
  \A s \in Sessions :
    /\ agreed[s] = SubSeq(<<"helo", "mail", "rcpt", "data">>, 1, Len(agreed[s]))
    /\ phase[s] \in {"data", "put"} => Len(agreed[s]) = 4

(***************************************************************************)
(* A mail that DATA takes is for somebody, unless RSET has emptied the     *)
(* list since the last RCPT: RSET leaves the flags of the session as they  *)
(* are, and such a mail is answered with 250 and stored nowhere.           *)
(***************************************************************************)
ForNobodyAfterReset ==
  \A s \in Sessions : phase[s] = "put" /\ rcvrs[s] = {} => s \in cleared

(***************************************************************************)
(* A thread whose client has left does not read its last line again for    *)
(* ever: the answers to it end the process.                                *)
(***************************************************************************)
LeavingEnds ==
  \A s \in Sessions :
    (phase[s] = "command" /\ peer[s] # "there") ~> (~alive \/ phase[s] \in {"closed", "hung"})
=============================================================================
