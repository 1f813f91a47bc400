---------------------------- MODULE LoadBalancer ----------------------------
(***************************************************************************)
(* The load balancer (frontend/load_balancer.cc): one thread probes the    *)
(* frontend servers in turn and records which answer, the main thread      *)
(* accepts a connection, picks the next server recorded as running, and    *)
(* answers with a redirection to it, or with the page that says that no    *)
(* server is running.                                                      *)
(***************************************************************************)
EXTENDS Integers

CONSTANT N   \* NUM_OF_SERVERS: lines of the configuration file

ASSUME NAssumption == N \in Nat \ {0}

Server == 1 .. N

VARIABLES
  up,        \* the servers that accept a connection now (the environment)
  running,   \* servers[i].running, written and read under mutex_lock
  probe,     \* the server the probing thread is at
  outcome,   \* "none", or the result of its connect, not yet recorded
  handler,   \* handler_server_id
  chosen,    \* what main answers: a server, 0 for none, -1 while it accepts
  last       \* the last server a client was redirected to, 0 before the first

vars == <<up, running, probe, outcome, handler, chosen, last>>

TypeOK ==
  /\ up \subseteq Server
  /\ running \in [Server -> BOOLEAN]
  /\ probe \in Server
  /\ outcome \in {"none", "connected", "refused"}
  /\ handler \in Server
  /\ chosen \in Server \cup {0, -1}
  /\ last \in Server \cup {0}

Init ==
  /\ up \in SUBSET Server
  /\ running = [i \in Server |-> FALSE]
  /\ probe = 1
  /\ outcome = "none"
  /\ handler = 1
  /\ chosen = -1
  /\ last = 0

(***************************************************************************)
(* (id + 1) % NUM_OF_SERVERS, with 0 standing for the last server.         *)
(***************************************************************************)
\* Fault: 0 is not mapped to the last server.
FollowingNoWrap(i) == (i + 1) % N

Following(i) == IF (i + 1) % N = 0 THEN N ELSE (i + 1) % N

\* k applications of Following, for k up to N
Ahead(i, k) == IF i + k <= N THEN i + k ELSE i + k - N

(***************************************************************************)
(* Servers come and go at any time.                                        *)
(***************************************************************************)
Toggle(s) ==
  /\ up' = IF s \in up THEN up \ {s} ELSE up \cup {s}
  /\ UNCHANGED <<running, probe, outcome, handler, chosen, last>>

(***************************************************************************)
(* The probing thread: connect without the lock, then record the result    *)
(* under it and go on to the next server (after the last, sleep).          *)
(***************************************************************************)
Connect ==
  /\ outcome = "none"
  /\ outcome' = IF probe \in up THEN "connected" ELSE "refused"
  /\ UNCHANGED <<up, running, probe, handler, chosen, last>>

\* Fault: a refused connection leaves the old record in place.
RecordOnlyUp ==
  /\ outcome # "none"
  /\ running' = [running EXCEPT ![probe] = @ \/ (outcome = "connected")]
  /\ outcome' = "none"
  /\ probe' = IF probe = N THEN 1 ELSE probe + 1
  /\ UNCHANGED <<up, handler, chosen, last>>

Record ==
  /\ outcome # "none"
  /\ running' = [running EXCEPT ![probe] = (outcome = "connected")]
  /\ outcome' = "none"
  /\ probe' = IF probe = N THEN 1 ELSE probe + 1
  /\ UNCHANGED <<up, handler, chosen, last>>

(***************************************************************************)
(* The main thread accepts a connection and, under the lock, walks from    *)
(* handler to the first running server.  After NUM_OF_SERVERS steps it is  *)
(* back where it was and gives up.                                         *)
(***************************************************************************)
First(k) == /\ running[Ahead(handler, k)]
            /\ \A j \in 0 .. k-1 : ~running[Ahead(handler, j)]

\* Fault: the walk always starts at the first server.
SelectFromFirst ==
  /\ chosen = -1
  /\ \/ \E s \in Server : /\ running[s]
                          /\ \A t \in 1 .. s-1 : ~running[t]
                          /\ handler' = s
                          /\ chosen' = s
     \/ /\ \A s \in Server : ~running[s]
        /\ chosen' = 0
        /\ UNCHANGED handler
  /\ UNCHANGED <<up, running, probe, outcome, last>>

Select ==
  /\ chosen = -1
  /\ \/ \E k \in 0 .. N-1 : /\ First(k)
                            /\ handler' = Ahead(handler, k)
                            /\ chosen' = handler'
     \/ /\ \A s \in Server : ~running[s]
        /\ chosen' = 0
        /\ UNCHANGED handler
  /\ UNCHANGED <<up, running, probe, outcome, last>>

(***************************************************************************)
(* Out of the lock it writes the answer; only a redirection moves handler  *)
(* on.                                                                     *)
(***************************************************************************)
\* Fault: handler is moved on after turning a client away, too.
AnswerMoves ==
  /\ chosen # -1
  /\ chosen' = -1
  /\ handler' = Following(handler)
  /\ last' = IF chosen = 0 THEN last ELSE chosen
  /\ UNCHANGED <<up, running, probe, outcome>>

Answer ==
  /\ chosen # -1
  /\ chosen' = -1
  /\ IF chosen = 0
       THEN UNCHANGED <<handler, last>>
       ELSE handler' = Following(handler) /\ last' = chosen
  /\ UNCHANGED <<up, running, probe, outcome>>

Next == \/ \E s \in Server : Toggle(s)
        \/ Connect \/ Record
        \/ Select \/ Answer

Spec == Init /\ [][Next]_vars

(***************************************************************************)
(* The probing thread never stops and an accepted connection is answered.  *)
(* Nothing makes clients or servers act.                                   *)
(***************************************************************************)
FairSpec == Spec /\ WF_vars(Connect \/ Record) /\ WF_vars(Answer)

-----------------------------------------------------------------------------
(***************************************************************************)
(* "Find next available server": the load balancer implements Dispatcher.  *)
(* The probes, the records under the lock and the walk of                  *)
(* handler_server_id amount to the choice of the nearest server of those   *)
(* on record, at one moment; a client is turned away only if none is.      *)
(***************************************************************************)
D == INSTANCE Dispatcher WITH
       known  <- {s \in Server : running[s]},
       place  <- last,
       answer <- chosen

Dispatches == D!Spec

(***************************************************************************)
(* The inductive invariant behind it: while main accepts, and when it has  *)
(* turned a client away, handler is the server after the last one used.    *)
(***************************************************************************)
Since == IF last = 0 THEN N ELSE last

HandlerInv == /\ chosen \in {-1, 0} => handler = Following(Since)
              /\ chosen \in Server => handler = chosen

(***************************************************************************)
(* A server that stays up gets its share: if connections keep coming,      *)
(* clients are redirected to it again and again, whatever the other        *)
(* servers do.                                                             *)
(***************************************************************************)
FairShare == \A s \in Server :
  <>[](s \in up) /\ []<><<Select>>_vars => []<>(chosen = s)

(***************************************************************************)
(* A server that stays down is dropped: from some point on no client is    *)
(* redirected to it.                                                       *)
(***************************************************************************)
DownIsDropped == \A s \in Server : <>[](s \notin up) => <>[](chosen # s)
=============================================================================
