----------------------------- MODULE Dispatcher -----------------------------
(***************************************************************************)
(* What the load balancer promises: of the servers it takes for running,   *)
(* each client gets the one that comes first round the table after the     *)
(* server the last client got; one who finds none is turned away.  There   *)
(* are no probes, no walk and no pointer here, only the choice.            *)
(***************************************************************************)
EXTENDS Integers

CONSTANT N

VARIABLES
  known,    \* servers taken for running
  place,    \* the server the last client got, 0 before the first
  answer    \* what the client of the moment gets: a server, 0, or -1

dvars == <<known, place, answer>>

Seat == 1 .. N

Init ==
  /\ known = {}
  /\ place = 0
  /\ answer = -1

\* Places from the last server used to s, going up and round.
Distance(s) == IF s > place THEN s - place ELSE s + N - place

Nearest(s) == s \in known /\ \A other \in known : Distance(s) <= Distance(other)

\* One server is found running, or not.
Learn ==
  /\ \E s \in Seat : known' \in {known \cup {s}, known \ {s}}
  /\ UNCHANGED <<place, answer>>

Choose ==
  /\ answer = -1
  /\ \/ \E s \in Seat : Nearest(s) /\ answer' = s
     \/ known = {} /\ answer' = 0
  /\ UNCHANGED <<known, place>>

Give ==
  /\ answer # -1
  /\ place' = IF answer = 0 THEN place ELSE answer
  /\ answer' = -1
  /\ UNCHANGED known

Next == Learn \/ Choose \/ Give

Spec == Init /\ [][Next]_dvars
=============================================================================
