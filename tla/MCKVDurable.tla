---------------------------- MODULE MCKVDurable ----------------------------
(* Small instances of KVDurable for TLC. *)
EXTENDS KVDurable

CONSTANTS a, b        \* payloads
CONSTANT  ab          \* a payload of two lines, the first of them a

MCFirstLine == [v \in Values |-> IF v = ab THEN a ELSE v]
=============================================================================
