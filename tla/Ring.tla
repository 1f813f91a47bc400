-------------------------------- MODULE Ring --------------------------------
(***************************************************************************)
(* The consistent-hashing ring of the master (master/master.cc): a key     *)
(* belongs to the next-higher node id, and a key that no id exceeds to the *)
(* lowest one.                                                             *)
(***************************************************************************)
EXTENDS Integers

Least(S) == CHOOSE n \in S : \A m \in S : n <= m

Above(ring, key) == {n \in ring : n > key}

\* get_server_id on a ring that is not empty
Owner(ring, key) == IF Above(ring, key) = {} THEN Least(ring) ELSE Least(Above(ring, key))
=============================================================================
