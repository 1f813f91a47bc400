------------------------------ MODULE MCMaster ------------------------------
(* Small instances of Master for TLC: addresses are pairs <<id, which>>,   *)
(* names are pairs <<"user", key>>.                                        *)
EXTENDS Master

CONSTANTS Twice, Once, Keys   \* ids with two nodes, ids with one, keys in use

MCAddr   == (Twice \X {1, 2}) \cup (Once \X {1})
MCNodeId == [a \in MCAddr |-> a[1]]
MCNames  == {"user"} \X Keys
MCHash   == [nm \in MCNames |-> nm[2]]
=============================================================================
