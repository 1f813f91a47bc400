---------------------------- MODULE MCSmtpServer ----------------------------
(* Instances of SmtpServer for TLC: the first client sends every kind of   *)
(* line, the others only SEND and QUIT, as the frontend does.              *)
EXTENDS SmtpServer

CONSTANT FirstSession

MCHeard == [s \in Sessions |-> IF s = FirstSession THEN Lines ELSE {"send", "quit"}]
=============================================================================
