---------------------------- MODULE Replication ----------------------------
(***************************************************************************)
(* How a primary storage node keeps its secondary in step, for one file of *)
(* one user (kvstore/kvstore.cc, chunkserver.cc, lrucache.cc).             *)
(*                                                                         *)
(* A worker thread of the primary applies a request, answers the client,   *)
(* numbers the request, holds it back and sends it to the secondary.  The  *)
(* secondary applies it, reports DONE with its number, and logs it; the    *)
(* report takes the request out of the holdback.  A secondary that         *)
(* restarts replays its log, greets the primary with "S", and is sent all  *)
(* that is held.                                                           *)
(*                                                                         *)
(* Neither side takes a lock, and both treat whatever one recv returns as  *)
(* one message: messages that arrive together are merged.  The behaviour   *)
(* ends when the primary dies.                                             *)
(***************************************************************************)
EXTENDS Naturals, Sequences, FiniteSets

CONSTANTS
  Workers,   \* client connections the primary serves at the same time
  Puts,      \* requests that append to the file
  Deles,     \* requests that delete the file, and fail if there is none
  Junk,      \* what a merged message leaves at the end of a value
  None,      \* no request
  MaxBatch,  \* bound: messages that one recv returns together
  MaxConns   \* bound: starts of the secondary

Ops   == Puts \cup Deles
Conns == 1 .. MaxConns

ASSUME OpsAssumption ==
  Puts \cap Deles = {} /\ None \notin Ops /\ Junk \notin Ops \cup {None}
ASSUME BoundsAssumption == MaxBatch \in Nat \ {0} /\ MaxConns \in Nat \ {0}

VARIABLES
  \* the primary
  pup,        \* the process lives
  todo,       \* requests the clients have yet to make
  content,    \* the file
  pw,         \* pw[w]: the request worker w is on, and how far it has come
  seqnum,     \* seq_num_records[user]
  holdback,   \* primary_holdback[user]
  secondary,  \* secondary_fd: the connection of the last greeting, 0 for none
  resend,     \* resend[c]: what the worker of connection c has yet to resend
  \* the sockets
  socket,     \* socket[c]: connection c as the primary's kernel has it
  chan,       \* messages under way to the secondary
  back,       \* back[c]: what connection c has brought and no worker has read
  \* the secondary
  sup,        \* the process lives
  sconn,      \* its connection, 0 before the first
  scontent,   \* the file
  flipped,    \* its isPrimary: somebody has connected to it
  pend,       \* a request applied and reported, not yet logged
  slog,       \* its log
  \* history
  astray,     \* the code has given up the secondary's equality
  unreported, \* a report was lost, or is never going to be made
  torn,       \* requests reported DONE and never logged
  number      \* number[op]: the number that was read for a request, 0 before

primary == <<pup, todo, content, pw, seqnum, holdback, secondary, resend>>
net     == <<socket, chan, back>>
second  == <<sup, sconn, scontent, flipped, pend, slog>>
history == <<astray, unreported, torn, number>>
vars    == <<primary, net, second, history>>

Idle   == [at |-> "idle", op |-> None, sq |-> 0]
Stages == {"idle", "read", "store", "hold", "send"}

Held    == [sq : Nat \ {0}, op : Ops]
Err     == [type |-> "err"]
Msg(h)  == [type |-> "op", sq |-> h.sq, op |-> h.op]
Done(n) == [type |-> "done", sq |-> n]
Hello   == [type |-> "S"]

OpMsgs  == [type : {"op"}, sq : Nat \ {0}, op : Ops]
Message == {Err} \cup OpMsgs
Report  == {Err, Hello} \cup [type : {"done"}, sq : Nat]

TypeOK ==
  /\ pup \in BOOLEAN /\ sup \in BOOLEAN
  /\ todo \subseteq Ops
  /\ content \in Seq(Puts)
  /\ pw \in [Workers -> [at : Stages, op : Ops \cup {None}, sq : Nat]]
  /\ seqnum \in Nat
  /\ holdback \in Seq(Held)
  /\ secondary \in Conns \cup {0} /\ sconn \in Conns \cup {0}
  /\ resend \in [Conns -> Seq(Held)]
  /\ socket \in [Conns -> {"unused", "open", "closed", "reset"}]
  /\ chan \in Seq(Message)
  /\ back \in [Conns -> Seq(Report)]
  /\ scontent \in Seq(Puts \cup {Junk})
  /\ flipped \in BOOLEAN
  /\ pend \in Ops \cup {None}
  /\ slog \in Seq(Ops)
  /\ astray \in BOOLEAN /\ unreported \in BOOLEAN /\ torn \subseteq Ops
  /\ number \in [Ops -> Nat]

Init ==
  /\ pup = TRUE
  /\ todo = Ops
  /\ content = <<>>
  /\ pw = [w \in Workers |-> Idle]
  /\ seqnum = 0
  /\ holdback = <<>>
  /\ secondary = 0
  /\ resend = [c \in Conns |-> <<>>]
  /\ socket = [c \in Conns |-> "unused"]
  /\ chan = <<>>
  /\ back = [c \in Conns |-> <<>>]
  /\ sup = FALSE
  /\ sconn = 0
  /\ scontent = <<>>
  /\ flipped = FALSE
  /\ pend = None
  /\ slog = <<>>
  /\ astray = FALSE /\ unreported = FALSE /\ torn = {}
  /\ number = [op \in Ops |-> 0]

-----------------------------------------------------------------------------
(***************************************************************************)
(* What a request does to the file, and a sequence of requests; and what   *)
(* is left of a sequence when only the members of S are kept.              *)
(***************************************************************************)
Do(file, op) == IF op \in Puts THEN Append(file, op) ELSE <<>>

DoAll(file, ops) ==
  LET f[i \in 0 .. Len(ops)] == IF i = 0 THEN file ELSE Do(f[i-1], ops[i])
  IN  f[Len(ops)]

Keep(s, S) ==
  LET f[i \in 0 .. Len(s)] == IF i = 0 THEN <<>>
                              ELSE IF s[i] \in S THEN Append(f[i-1], s[i]) ELSE f[i-1]
  IN  f[Len(s)]

OpsOf(msgs) == LET real == Keep(msgs, OpMsgs) IN [i \in DOMAIN real |-> real[i].op]

(***************************************************************************)
(* send on connection c.  Descriptor 0 is no socket.  A send to a peer     *)
(* that is gone is lost and answered by a reset; on a connection that was  *)
(* reset it raises SIGPIPE, which the node does not handle.                *)
(***************************************************************************)
Send(c, m) ==
  \/ /\ c = 0
     /\ UNCHANGED <<pup, socket, chan>>
  \/ /\ c # 0 /\ socket[c] = "open"
     /\ chan' = Append(chan, m)
     /\ UNCHANGED <<pup, socket>>
  \/ /\ c # 0 /\ socket[c] = "closed"
     /\ \E s \in {"closed", "reset"} : socket' = [socket EXCEPT ![c] = s]
     /\ UNCHANGED <<pup, chan>>
  \/ /\ c # 0 /\ socket[c] = "reset"
     /\ pup' = FALSE
     /\ UNCHANGED <<socket, chan>>

-----------------------------------------------------------------------------
(***************************************************************************)
(* The primary's workers.  A deletion that fails goes the same way as one  *)
(* that succeeds.                                                          *)
(***************************************************************************)
InFlight == {w \in Workers : pw[w].at # "idle"}

Serve(w, op) ==
  /\ pup /\ pw[w].at = "idle" /\ op \in todo
  /\ todo' = todo \ {op}
  /\ content' = Do(content, op)
  /\ pw' = [pw EXCEPT ![w] = [at |-> "read", op |-> op, sq |-> 0]]
  /\ astray' = (astray \/ InFlight # {})
  /\ UNCHANGED <<pup, seqnum, holdback, secondary, resend, net, second,
                 unreported, torn, number>>

\* Fault: the number of the last request is used again, 0 by the first.
ReadSeqLast(w) ==
  /\ pup /\ pw[w].at = "read"
  /\ pw' = [pw EXCEPT ![w].at = "store", ![w].sq = seqnum]
  /\ number' = [number EXCEPT ![pw[w].op] = seqnum]
  /\ UNCHANGED <<pup, todo, content, seqnum, holdback, secondary, resend, net, second,
                 astray, unreported, torn>>

ReadSeq(w) ==
  /\ pup /\ pw[w].at = "read"
  /\ pw' = [pw EXCEPT ![w].at = "store", ![w].sq = seqnum + 1]
  /\ number' = [number EXCEPT ![pw[w].op] = seqnum + 1]
  /\ UNCHANGED <<pup, todo, content, seqnum, holdback, secondary, resend, net, second,
                 astray, unreported, torn>>

StoreSeq(w) ==
  /\ pup /\ pw[w].at = "store"
  /\ seqnum' = pw[w].sq
  /\ pw' = [pw EXCEPT ![w].at = "hold"]
  /\ UNCHANGED <<pup, todo, content, holdback, secondary, resend, net, second, history>>

Hold(w) ==
  /\ pup /\ pw[w].at = "hold"
  /\ holdback' = Append(holdback, [sq |-> pw[w].sq, op |-> pw[w].op])
  /\ pw' = [pw EXCEPT ![w].at = "send"]
  /\ UNCHANGED <<pup, todo, content, seqnum, secondary, resend, net, second, history>>

Resending == \E c \in Conns : resend[c] # <<>>

SendOut(w) ==
  /\ pup /\ pw[w].at = "send"
  /\ Send(secondary, Msg(pw[w]))
  /\ pw' = [pw EXCEPT ![w] = Idle]
  /\ astray' = (astray \/ Resending)
  /\ UNCHANGED <<todo, content, seqnum, holdback, secondary, resend, back, second,
                 unreported, torn, number>>

-----------------------------------------------------------------------------
(***************************************************************************)
(* The worker of the secondary's connection.  After a greeting it sends    *)
(* all that is held (check_primary_holdback works on a copy), and only     *)
(* then reads on.                                                          *)
(***************************************************************************)
HasRun(op) == op = pend \/ \E i \in DOMAIN slog : slog[i] = op
GoesAstray == InFlight # {} \/ Resending \/ \E i \in DOMAIN holdback : HasRun(holdback[i].op)

\* Fault: the greeting only records the connection.
GreetOnly(c) ==
  /\ pup /\ back[c] # <<>> /\ Head(back[c]) = Hello
  /\ back' = [back EXCEPT ![c] = Tail(@)]
  /\ secondary' = c
  /\ astray' = (astray \/ GoesAstray)
  /\ UNCHANGED <<pup, todo, content, pw, seqnum, holdback, resend,
                 socket, chan, second,
                 unreported, torn, number>>

Greet(c) ==
  /\ pup /\ back[c] # <<>> /\ Head(back[c]) = Hello
  /\ back' = [back EXCEPT ![c] = Tail(@)]
  /\ secondary' = c
  /\ resend' = [resend EXCEPT ![c] = holdback]
  /\ astray' = (astray \/ GoesAstray)
  /\ UNCHANGED <<pup, todo, content, pw, seqnum, holdback, socket, chan, second,
                 unreported, torn, number>>

Resend(c) ==
  /\ pup /\ resend[c] # <<>>
  /\ Send(secondary, Msg(Head(resend[c])))
  /\ resend' = [resend EXCEPT ![c] = Tail(@)]
  /\ UNCHANGED <<todo, content, pw, seqnum, holdback, secondary, back, second, history>>

(***************************************************************************)
(* Reading k reports at once.  If the first is an error the text is no     *)
(* command, and the reply to that goes to the secondary.  A DONE is parsed *)
(* up to the last comma, so with a second DONE behind it neither is found  *)
(* in the holdback.  A worker whose connection is no longer the            *)
(* secondary's closes it after one read.                                   *)
(***************************************************************************)
Batch(s, k)  == SubSeq(s, 1, k)
Rest(s, k)   == SubSeq(s, k + 1, Len(s))
Upto(s)      == 1 .. (IF Len(s) < MaxBatch THEN Len(s) ELSE MaxBatch)
Dones(b)     == Cardinality({i \in DOMAIN b : b[i].type = "done"})
Without(n)   == Keep(holdback, {h \in Held : h.sq # n})

\* Fault: a report takes out everything up to its number and one more.
AcknowledgedAhead(b) ==
  IF b[1].type = "done" /\ Dones(b) = 1
    THEN Keep(holdback, {h \in Held : h.sq > b[1].sq + 1}) ELSE holdback

\* Fault: reports never take anything out.
AcknowledgedNever(b) == holdback

Acknowledged(b) ==
  IF b[1].type = "done" /\ Dones(b) = 1 THEN Without(b[1].sq) ELSE holdback

ReadReports(c, k) ==
  /\ pup /\ resend[c] = <<>>
  /\ back[c] # <<>> /\ Head(back[c]) # Hello
  /\ LET b == Batch(back[c], k) IN
       /\ holdback' = Acknowledged(b)
       /\ IF b[1] = Err THEN Send(c, Err) ELSE UNCHANGED <<pup, socket, chan>>
       /\ unreported' = (unreported \/ k > 1 \/ b[1] = Err)
  /\ back' = [back EXCEPT ![c] = IF c = secondary THEN Rest(@, k) ELSE <<>>]
  /\ UNCHANGED <<todo, content, pw, seqnum, secondary, resend, second, astray, torn, number>>

-----------------------------------------------------------------------------
(***************************************************************************)
(* The secondary: load and replay, connect, greet.                         *)
(***************************************************************************)
Start ==
  /\ pup /\ ~sup /\ sconn < MaxConns
  /\ sup' = TRUE
  /\ sconn' = sconn + 1
  /\ scontent' = DoAll(<<>>, slog)
  /\ flipped' = FALSE
  /\ socket' = [socket EXCEPT ![sconn + 1] = "open"]
  /\ back' = [back EXCEPT ![sconn + 1] = <<Hello>>]
  /\ UNCHANGED <<primary, chan, pend, slog, history>>

(***************************************************************************)
(* The death of the secondary.  Of its last reports only some may arrive.  *)
(***************************************************************************)
Die ==
  /\ sup' = FALSE
  /\ scontent' = <<>>
  /\ flipped' = FALSE
  /\ pend' = None
  /\ chan' = <<>>
  /\ \E s \in {"closed", "reset"} : socket' = [socket EXCEPT ![sconn] = s]
  /\ \E k \in 0 .. Len(back[sconn]) : back' = [back EXCEPT ![sconn] = Batch(@, k)]
  /\ torn' = IF pend = None THEN torn ELSE torn \cup {pend}
  /\ astray' = (astray \/ pend # None)
  /\ UNCHANGED <<primary, sconn, slog, unreported, number>>

Crash == pup /\ sup /\ Die

(***************************************************************************)
(* Whoever connects to the secondary, be it to look, makes it take itself  *)
(* for the primary.  To what it goes on receiving it answers +OK, which    *)
(* the primary takes for no command, as it does an error.                  *)
(***************************************************************************)
Flip ==
  /\ pup /\ sup /\ ~flipped
  /\ flipped' = TRUE
  /\ UNCHANGED <<primary, net, sup, sconn, scontent, pend, slog, history>>

(***************************************************************************)
(* Reading k messages at once.  The number is what precedes the first      *)
(* comma (0 when an error does), the request what follows it; the messages *)
(* behind become part of a put's value, or of the name of the file a dele  *)
(* looks for in vain.  Of errors alone there is no comma: the thread       *)
(* computes a length from a null pointer and the process aborts.           *)
(***************************************************************************)
OnlyErrors(b) == \A i \in DOMAIN b : b[i] = Err
First(b)      == CHOOSE i \in DOMAIN b : b[i] # Err /\ OnlyErrors(SubSeq(b, 1, i-1))

Abort(k) ==
  /\ pup /\ sup /\ pend = None /\ chan # <<>>
  /\ OnlyErrors(Batch(chan, k))
  /\ Die

Receive(k) ==
  /\ pup /\ sup /\ pend = None /\ chan # <<>>
  /\ LET b      == Batch(chan, k)
         op     == b[First(b)].op
         sq     == IF First(b) = 1 THEN b[1].sq ELSE 0
         merged == First(b) < k
         fails  == op \in Deles /\ (merged \/ scontent = <<>>)
         report == IF fails \/ flipped THEN <<Err>>
                   ELSE IF op \in Deles /\ sq = 0 THEN <<>> ELSE <<Done(sq)>>
     IN /\ ~OnlyErrors(b)
        /\ scontent' = IF fails THEN scontent
                       ELSE Do(scontent, op) \o (IF merged THEN <<Junk>> ELSE <<>>)
        /\ pend' = op
        /\ back' = [back EXCEPT ![sconn] = @ \o report]
        /\ astray' = (astray \/ merged)
        /\ unreported' = (unreported \/ k > 1)
  /\ chan' = Rest(chan, k)
  /\ UNCHANGED <<primary, socket, sup, sconn, flipped, slog, torn, number>>

Log ==
  /\ pup /\ sup /\ pend # None
  /\ slog' = Append(slog, pend)
  /\ pend' = None
  /\ UNCHANGED <<primary, net, sup, sconn, scontent, flipped, history>>

-----------------------------------------------------------------------------
Worker(w) == \/ \E op \in Ops : Serve(w, op)
             \/ ReadSeq(w) \/ StoreSeq(w) \/ Hold(w) \/ SendOut(w)

Listener(c) == \/ Greet(c) \/ Resend(c)
               \/ \E k \in Upto(back[c]) : ReadReports(c, k)

Secondary == \/ \E k \in Upto(chan) : Abort(k) \/ Receive(k)
             \/ Log

Next == \/ \E w \in Workers : Worker(w)
        \/ \E c \in Conns : Listener(c)
        \/ Start \/ Secondary \/ Crash \/ Flip

Spec == Init /\ [][Next]_vars

(***************************************************************************)
(* Every thread of a live process runs; no client need make a request, and *)
(* nobody need start or stop the secondary.                                *)
(***************************************************************************)
Fairness ==
  /\ \A w \in Workers :
       WF_vars(ReadSeq(w) \/ StoreSeq(w) \/ Hold(w) \/ SendOut(w))
  /\ \A c \in Conns : WF_vars(Listener(c))
  /\ WF_vars(Secondary)

FairSpec == Spec /\ Fairness

-----------------------------------------------------------------------------
(***************************************************************************)
(* While the secondary is connected, nothing is being resent and no worker *)
(* is half way through a request, the requests under way to it are exactly *)
(* what it needs to hold the primary's file, for as long as the code has   *)
(* not given that up: through two workers at once, through a greeting      *)
(* while a worker or a resend is half way, or of a secondary that had      *)
(* already applied what is held, through merged messages, or by a crash    *)
(* between a report and its log record.                                    *)
(***************************************************************************)
Connected == pup /\ sup /\ secondary = sconn /\ ~Resending

InStep == Connected /\ InFlight = {} /\ ~astray =>
            DoAll(scontent, OpsOf(chan)) = content

(***************************************************************************)
(* A request the primary has finished with is held until the secondary has *)
(* it: it is in the holdback, or the secondary has it in its log or is     *)
(* about to log it, or died just then.  Nothing is claimed of a request    *)
(* that shares its number: two workers that read seq_num_records at once,  *)
(* or one that stores its number over a later one, give a number twice,    *)
(* and the report about one of the two takes out both.                     *)
(***************************************************************************)
IsHeld(op) == \E i \in DOMAIN holdback : holdback[i].op = op
AtWork(op) == \E w \in Workers : pw[w].op = op

Shared(op) == \E other \in Ops \ {op} : number[other] = number[op]

NothingLost == pup => \A op \in Ops \ todo :
                        ~AtWork(op) /\ ~Shared(op) => IsHeld(op) \/ HasRun(op) \/ op \in torn

(***************************************************************************)
(* The holdback drains: a secondary that stays connected ends up having    *)
(* everything reported, unless messages were merged or a request failed.   *)
(***************************************************************************)
Drains == <>[](pup /\ sup /\ secondary = sconn /\ ~unreported /\ ~astray)
            => <>[](\A w \in Workers : pw[w].at \in {"idle", "send"} => holdback = <<>>)
=============================================================================
