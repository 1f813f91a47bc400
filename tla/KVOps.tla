------------------------------- MODULE KVOps -------------------------------
(***************************************************************************)
(* The requests of the PennCloud key-value store that change data, and     *)
(* what each does to the tablets (kvstore/lrucache.cc).                    *)
(*                                                                         *)
(* A user is a row, a file a column.  The content of a file is the         *)
(* sequence of the payloads appended to it; the empty sequence stands for  *)
(* a file the row does not have (a stored value always ends in CR LF, so   *)
(* no file that exists is empty).  Sizes and the eviction to virtual       *)
(* memory are not in this module: the tablets fit in the memory budget.    *)
(***************************************************************************)
EXTENDS Naturals, Sequences

CONSTANTS
  Users,       \* row keys
  Files,       \* column names
  Values,      \* payloads
  FirstLine,   \* FirstLine[v]: what is left of v when only one line is read
  Kinds,       \* the kinds of request the clients of an instance send
  None         \* no request

(***************************************************************************)
(* getline stops at the first end of line, so taking the first line twice  *)
(* is taking it once.  A payload with FirstLine[v] = v has a single line.  *)
(***************************************************************************)
ASSUME FirstLineAssumption ==
  /\ FirstLine \in [Values -> Values]
  /\ \A v \in Values : FirstLine[FirstLine[v]] = FirstLine[v]

OneLine == {v \in Values : FirstLine[v] = v}

ASSUME KindsAssumption == Kinds \subseteq {"put", "cput", "dele", "rename"}

Request ==
       [kind : {"put"}, user : Users, file : Files, val : Values]
  \cup [kind : {"cput"}, user : Users, file : Files, old : OneLine, val : Values]
  \cup [kind : {"dele"}, user : Users, file : Files]
  \cup [kind : {"rename"}, user : Users, file : Files, to : Files]

ASSUME NoneAssumption == None \notin Request

ClientRequest == {r \in Request : r.kind \in Kinds}

(***************************************************************************)
(* The tablets: one row per user.                                          *)
(***************************************************************************)
Tablet == [Files -> Seq(Values)]
Store  == [Users -> Tablet]

NoFiles == [f \in Files |-> <<>>]
NoUsers == [u \in Users |-> NoFiles]

(***************************************************************************)
(* put appends; cput replaces the content if it is exactly the old value;  *)
(* dele drops the file; rename moves the content over the target's.  Each  *)
(* of the last three leaves the row alone when its file does not exist.    *)
(***************************************************************************)
Put(t, r)    == [t EXCEPT ![r.file] = Append(@, r.val)]
Cput(t, r)   == IF t[r.file] = <<r.old>>
                THEN [t EXCEPT ![r.file] = <<r.val>>] ELSE t
Dele(t, r)   == [t EXCEPT ![r.file] = <<>>]
Rename(t, r) == IF t[r.file] = <<>>
                THEN t ELSE [t EXCEPT ![r.file] = <<>>, ![r.to] = t[r.file]]

ApplyRow(t, r) == CASE r.kind = "put"    -> Put(t, r)
                    [] r.kind = "cput"   -> Cput(t, r)
                    [] r.kind = "dele"   -> Dele(t, r)
                    [] r.kind = "rename" -> Rename(t, r)

Apply(m, r) == [m EXCEPT ![r.user] = ApplyRow(@, r)]
=============================================================================
