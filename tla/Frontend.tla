------------------------------ MODULE Frontend ------------------------------
(***************************************************************************)
(* A frontend (frontend/frontend.cc, response.cc, store.cc): one process,  *)
(* in which main accepts connections and starts a thread for each, which   *)
(* reads one request, answers it and closes the connection.  The threads   *)
(* share main's comm_fd, whose address each gets; the name of the user who *)
(* is served, user_name; curr_user; and the sessions.                      *)
(*                                                                         *)
(* Of the storage only the file pwd of each user is kept, as its lines:    *)
(* storing appends.  Everything else it answers is free.  The local        *)
(* directories are not modelled: after a registration curr_user points to  *)
(* memory that was freed, before it is NULL.                               *)
(***************************************************************************)
EXTENDS Integers, Sequences, FiniteSetsExt

CONSTANTS
  Users, Passwords,
  Requests,    \* what clients send
  Registered,  \* the lines of each file pwd when the frontend starts
  MaxThreads,  \* bound: threads at the same time
  MaxFds,      \* bound: connections open at the same time
  Torn,        \* what user_name holds after two threads wrote it at once
  None

Pages == {"register", "login", "static", "form", "admin", "upload", "delete file", "local",
          "download", "inbox", "mail", "delete mail", "send", "logout"}

\* The user and password are those in the body, the cookie names a user.
Request == [page : Pages, cookie : Users \cup {None}, user : Users \cup {None},
            password : Passwords \cup {None}]

\* The forms of the two pages are filled in.
Filled == {r \in Request : r.page \in {"register", "login"} =>
                             r.user \in Users /\ r.password \in Passwords}

ASSUME RequestsAssumption == Requests \subseteq Filled
ASSUME BoundsAssumption == MaxThreads \in Nat \ {0} /\ MaxFds \in Nat
\* Users may have been registered by other frontends.
ASSUME RegisteredAssumption ==
  \A u \in Users : Registered[u] = <<>> \/ \E w \in Passwords : Registered[u] = <<w>>
ASSUME NoneAssumption == None \notin Users \cup Passwords \cup Request /\ Torn \notin Users

Slots == 1 .. MaxThreads
Fds   == 1 .. MaxFds
Names == Users \cup {Torn, None}
NoUser == ""  \* user_name before the first check

VARIABLES
  alive,      \* the process
  comm_fd,    \* the variable of main whose address every thread gets
  conn,       \* the connection behind each open descriptor
  thread,     \* the threads
  user_name, curr_user, sessions,
  pwd,        \* the lines of each user's file pwd in the storage
  \* history, read by the properties alone
  shared,     \* some descriptor was taken twice, or when it was closed
  raced,      \* users two of whose registrations were under way at once
  entered     \* users who have logged in, whether they still have a session or not

globals == <<user_name, curr_user, sessions>>
vars    == <<alive, comm_fd, conn, thread, globals, pwd, shared, raced, entered>>

\* sent: a request that nobody has read; left: by the client; taken: by a thread.
Closed == [open |-> FALSE, sent |-> FALSE, left |-> FALSE, taken |-> FALSE]

(***************************************************************************)
(* A thread: the descriptor it read from comm_fd, whether that still names *)
(* the connection it was opened for, its request, the names it has read    *)
(* from user_name for its message and for finding the node, the name in    *)
(* the cookie it sets, and (history) the users checked in since its own    *)
(* check.                                                                  *)
(***************************************************************************)
Idle == [at |-> "none", fd |-> 0, own |-> FALSE, request |-> None,
         message |-> None, route |-> None, cookie |-> None, since |-> {}]

Steps == {"none", "start", "reading", "routing", "exists", "add", "valid",
          "page", "route", "storage", "mail server", "reply", "close", "hung"}

TypeOK ==
  /\ alive \in BOOLEAN
  /\ comm_fd \in {0} \cup Fds
  /\ conn \in [Fds -> [open : BOOLEAN, sent : BOOLEAN, left : BOOLEAN, taken : BOOLEAN]]
  /\ thread \in [Slots -> [at : Steps, fd : {0} \cup Fds, own : BOOLEAN,
                           request : Requests \cup {None},
                           message : Names \cup {NoUser}, route : Names \cup {NoUser},
                           cookie : Users \cup {None}, since : SUBSET (Users \cup {Torn})]]
  /\ user_name \in Users \cup {Torn, NoUser}
  /\ curr_user \in {"NULL", "freed"}
  /\ sessions \subseteq Users
  /\ pwd \in [Users -> Seq(Passwords)] /\ \A u \in Users : Len(pwd[u]) <= MaxThreads
  /\ shared \in BOOLEAN
  /\ raced \subseteq Users /\ entered \subseteq Users

Init ==
  /\ alive = TRUE
  /\ comm_fd = 0
  /\ conn = [f \in Fds |-> Closed]
  /\ thread = [t \in Slots |-> Idle]
  /\ user_name = NoUser
  /\ curr_user = "NULL"
  /\ sessions = {}
  /\ pwd = [u \in Users |-> Registered[u]]
  /\ shared = FALSE
  /\ raced = {} /\ entered = {}

At(t, step) == thread[t].at = step

Req(t) == thread[t].request

Goes(t, step) == thread' = [thread EXCEPT ![t].at = step]

\* The thread has done what it does with the names; the cookie is in the answer.
Answers(t) ==
  thread' = [thread EXCEPT ![t].at = "reply", ![t].message = None, ![t].route = None,
                           ![t].since = {}]

Waits(t) ==
  thread' = [thread EXCEPT ![t] = [Idle EXCEPT !.at = "hung", !.fd = thread[t].fd, !.own = thread[t].own]]

\* An exception nobody catches, exit, or a signal.
Dies ==
  /\ alive' = FALSE
  /\ comm_fd' = 0
  /\ conn' = [f \in Fds |-> Closed]
  /\ thread' = [t \in Slots |-> Idle]
  /\ UNCHANGED <<globals, pwd, shared, raced, entered>>

Connections == <<comm_fd, conn>>
Rest        == UNCHANGED <<alive, Connections, shared, entered>>

-----------------------------------------------------------------------------
(***************************************************************************)
(* main: accept, into the lowest free descriptor, and pthread_create.  A   *)
(* failed accept leaves -1 (0 here) in comm_fd, which is forgotten when no *)
(* thread is left that has to read it.                                     *)
(***************************************************************************)
Free == {f \in Fds : ~conn[f].open}
Unused == {t \in Slots : At(t, "none")}

Accept(sent) ==
  /\ Free # {} /\ Unused # {}
  /\ LET f == Min(Free)
         t == Min(Unused)
     IN  /\ conn' = [conn EXCEPT ![f] = [Closed EXCEPT !.open = TRUE, !.sent = sent]]
         /\ comm_fd' = f
         /\ thread' = [thread EXCEPT ![t] = [Idle EXCEPT !.at = "start"]]
  /\ UNCHANGED <<alive, globals, pwd, shared, raced, entered>>

Starting == {t \in Slots : At(t, "start")}

AcceptFails ==
  /\ Starting # {} /\ comm_fd # 0
  /\ comm_fd' = 0
  /\ UNCHANGED <<alive, conn, thread, globals, pwd, shared, raced, entered>>

\* client_handler: the descriptor is read when the thread runs.
TakeFd(t) ==
  LET good == comm_fd # 0 /\ conn[comm_fd].open
  IN  /\ At(t, "start")
      /\ thread' = [thread EXCEPT ![t].at = "reading", ![t].fd = comm_fd, ![t].own = good]
      /\ conn' = IF good THEN [conn EXCEPT ![comm_fd].taken = TRUE] ELSE conn
      /\ shared' = (shared \/ ~good \/ conn[comm_fd].taken)
      /\ comm_fd' = IF Starting = {t} THEN 0 ELSE comm_fd
      /\ UNCHANGED <<alive, globals, pwd, raced, entered>>

\* The client closes the connection, without a request or before the answer.
Leave(f) ==
  /\ conn[f].open /\ ~conn[f].left
  /\ conn' = [conn EXCEPT ![f].left = TRUE]
  /\ UNCHANGED <<alive, comm_fd, thread, globals, pwd, shared, raced, entered>>

(***************************************************************************)
(* Request::Request.  Two threads that read from one connection get parts  *)
(* of the request, which neither can use; the reader that comes second, or *)
(* whose connection was closed under it, gets nothing once the client has  *)
(* left.                                                                   *)
(***************************************************************************)
Reads(t) == At(t, "reading") /\ thread[t].fd # 0 /\ conn[thread[t].fd].open

ReadRequest(t) ==
  LET f == thread[t].fd
  IN  /\ Reads(t) /\ conn[f].sent
      /\ conn' = [conn EXCEPT ![f].sent = FALSE]
      /\ \E request \in Requests :
           thread' = [thread EXCEPT ![t].at = "routing", ![t].own = TRUE, ![t].request = request]
      /\ UNCHANGED <<alive, comm_fd, globals, pwd, shared, raced, entered>>

\* valid = false, for all who read a part.
ReadInvalid(t) ==
  LET f == thread[t].fd
      others == {u \in Slots \ {t} : Reads(u) /\ thread[u].fd = f}
  IN  /\ Reads(t) /\ conn[f].sent
      /\ conn' = [conn EXCEPT ![f].sent = FALSE]
      /\ \E all \in {{t}, {t} \cup others} :
           thread' = [u \in Slots |-> IF u \in all THEN [thread[u] EXCEPT !.at = "close"]
                                      ELSE thread[u]]
      /\ UNCHANGED <<alive, comm_fd, globals, pwd, shared, raced, entered>>

ReadNothing(t) ==
  /\ At(t, "reading")
  /\ Reads(t) /\ thread[t].own => conn[thread[t].fd].left /\ ~conn[thread[t].fd].sent
  /\ Goes(t, "close")
  /\ Rest /\ UNCHANGED <<globals, pwd, raced>>

Close(t) ==
  LET f == thread[t].fd
  IN  /\ At(t, "close")
      /\ conn' = IF f = 0 THEN conn ELSE [conn EXCEPT ![f] = Closed]
      /\ thread' = [u \in Slots |->
                     IF u = t THEN Idle
                     ELSE IF f # 0 /\ thread[u].fd = f THEN [thread[u] EXCEPT !.own = FALSE]
                     ELSE thread[u]]
      /\ UNCHANGED <<alive, comm_fd, globals, pwd, shared, raced, entered>>

\* Fault: reply closes the connection, which client_handler does again.
ReplyCloses(t) ==
  LET f == thread[t].fd
  IN  /\ At(t, "reply")
      /\ conn' = IF f = 0 THEN conn ELSE [conn EXCEPT ![f] = Closed]
      /\ thread' = [thread EXCEPT ![t] = [Idle EXCEPT !.at = "close", !.fd = f]]
      /\ UNCHANGED <<alive, comm_fd, globals, pwd, shared, raced, entered>>

\* Fault: a write that fails is tried again.
ReplyRetries(t) ==
  /\ At(t, "reply") /\ thread[t].own
  /\ thread' = [thread EXCEPT ![t] = [Idle EXCEPT !.at = "close", !.fd = thread[t].fd,
                                                 !.own = thread[t].own]]
  /\ Rest /\ UNCHANGED <<globals, pwd, raced>>

\* Response::reply, to whatever the descriptor names.  The header is written
\* at once, the body byte by byte: after the client's reset a write kills.
Reply(t) ==
  /\ At(t, "reply")
  /\ thread' = [thread EXCEPT ![t] = [Idle EXCEPT !.at = "close", !.fd = thread[t].fd,
                                                 !.own = thread[t].own]]
  /\ Rest /\ UNCHANGED <<globals, pwd, raced>>

ReplyKills(t) ==
  /\ At(t, "reply") /\ thread[t].fd # 0 /\ conn[thread[t].fd].left
  /\ Dies

-----------------------------------------------------------------------------
(***************************************************************************)
(* send_to_backend, around what the node does for each message.  The       *)
(* master's answer may be lost or name no node; the node may have gone     *)
(* (the write raises SIGPIPE) or go before its last line, for which the    *)
(* reader waits for ever.                                                  *)
(***************************************************************************)
Asks(t) == At(t, "exists") \/ At(t, "add") \/ At(t, "valid") \/ At(t, "storage")

Unanswered(t) == Asks(t) /\ Waits(t) /\ Rest /\ UNCHANGED <<globals, pwd, raced>>

NoNode(t) == Asks(t) /\ Dies

(***************************************************************************)
(* Response::Response.  is_already_login leaves the cookie's name in       *)
(* user_name; when another thread writes a name at the same moment, the    *)
(* bytes of both may be mixed.                                             *)
(***************************************************************************)
LoggedIn(t) == Req(t).cookie \in sessions

Public == {"register", "login", "static", "admin"}

Checks(t) == At(t, "routing") /\ Req(t).page \notin Public /\ LoggedIn(t)

\* Fault: the check fills a variable of its own.
CheckOnly(t) ==
  /\ Checks(t)
  /\ Goes(t, "page")
  /\ Rest /\ UNCHANGED <<globals, pwd, raced>>

Serving(u) == At(u, "page") \/ At(u, "route")

\* user_name becomes n by the checks of these threads.
Write(n, those) ==
  /\ user_name' = n
  /\ thread' = [u \in Slots |->
       IF u \in those THEN [thread[u] EXCEPT !.at = "page", !.since = {n} \ {Req(u).cookie}]
       ELSE IF Serving(u) THEN [thread[u] EXCEPT !.since = @ \cup {n}]
       ELSE thread[u]]
  /\ Rest /\ UNCHANGED <<curr_user, sessions, pwd, raced>>

Check(t) == Checks(t) /\ Write(Req(t).cookie, {t})

CheckAtOnce(t) ==
  \E u \in Slots \ {t} : /\ Checks(t) /\ Checks(u) /\ Req(t).cookie # Req(u).cookie
                          /\ Write(Torn, {t, u})

\* get_file_content_as_string for what the path names, or what the bytes do
\* that were freed; a path that is no file leads to the login page.
Static(t) ==
  /\ At(t, "routing") /\ Req(t).page = "static"
  /\ Answers(t)
  /\ Rest /\ UNCHANGED <<globals, pwd, raced>>

\* With a user on an active node, getfile ends in ",!!!DONE!!!": its reader
\* waits for another line.
Admin(t) ==
  /\ At(t, "routing") /\ Req(t).page = "admin"
  /\ \/ Waits(t)
     \/ (\A u \in Users : pwd[u] = <<>>) /\ Answers(t)
  /\ Rest /\ UNCHANGED <<globals, pwd, raced>>

AdminKills(t) ==
  /\ At(t, "routing") /\ Req(t).page = "admin"
  /\ \E u \in Users : pwd[u] # <<>>
  /\ Dies

-----------------------------------------------------------------------------
(***************************************************************************)
(* reg: mkdir and curr_user, then is_user_exist, then add_user.            *)
(***************************************************************************)
Register(t) ==
  /\ At(t, "routing") /\ Req(t).page = "register"
  /\ curr_user' = "freed"
  /\ Goes(t, "exists")
  /\ Rest /\ UNCHANGED <<user_name, sessions, pwd, raced>>

\* Fault: the answer of is_user_exist is not looked at.
ExistsIgnored(t) ==
  /\ At(t, "exists")
  /\ Goes(t, "add")
  /\ Rest /\ UNCHANGED <<globals, pwd, raced>>

Exists(t) ==
  LET u == Req(t).user
  IN  /\ At(t, "exists")
      /\ IF pwd[u] # <<>> THEN Answers(t) ELSE Goes(t, "add")
      /\ raced' = IF pwd[u] = <<>> /\ (\E v \in Slots \ {t} : At(v, "add") /\ Req(v).user = u)
                  THEN raced \cup {u} ELSE raced
      /\ Rest /\ UNCHANGED <<globals, pwd>>

\* Fault: a put whose answer does not come is sent again.
AddAgain(t) ==
  LET u == Req(t).user
  IN  /\ At(t, "add")
      /\ pwd' = [pwd EXCEPT ![u] = Append(@, Req(t).password)]
      /\ Answers(t) \/ UNCHANGED thread
      /\ Rest /\ UNCHANGED <<globals, raced>>

\* The put is done even if its answer does not come.
Add(t) ==
  LET u == Req(t).user
  IN  /\ At(t, "add")
      /\ pwd' = [pwd EXCEPT ![u] = Append(@, Req(t).password)]
      /\ Answers(t) \/ Waits(t)
      /\ Rest /\ UNCHANGED <<globals, raced>>

(***************************************************************************)
(* login.  The page of a request that is POSTed without a session comes    *)
(* here too: its body has no name or password (params.at throws), or is    *)
(* taken for a wrong one.  A wrong password is forgiven who has a session: *)
(* the page and the cookie are then of the name in the body.               *)
(***************************************************************************)
Posted == {"upload", "delete file", "local", "send"}

Login(t) ==
  /\ At(t, "routing") /\ Req(t).page = "login"
  /\ thread' = [thread EXCEPT ![t].at = "valid",
                              ![t].cookie = IF LoggedIn(t) THEN Req(t).user ELSE None]
  /\ Rest /\ UNCHANGED <<globals, pwd, raced>>

\* Fault: any password will do for a name that exists.
IsLoginValidLoose(t) == pwd[Req(t).user] # <<>>

IsLoginValid(t) == pwd[Req(t).user] # <<>> /\ Head(pwd[Req(t).user]) = Req(t).password

Valid(t) ==
  LET u == Req(t).user
  IN  /\ At(t, "valid")
      /\ IF IsLoginValid(t)
           THEN /\ sessions' = sessions \cup {u}
                /\ entered' = entered \cup {u}
                /\ thread' = [thread EXCEPT ![t].at = "reply", ![t].cookie = u]
           ELSE /\ UNCHANGED <<sessions, entered>>
                /\ Answers(t)
      /\ UNCHANGED <<alive, Connections, shared, user_name, curr_user, pwd, raced>>

Unknown(t) == At(t, "routing") /\ Req(t).page \notin Public /\ ~LoggedIn(t)

NotLoggedIn(t) ==
  /\ Unknown(t)
  /\ Answers(t) \/ (Req(t).page \in Posted /\ Waits(t))
  /\ Rest /\ UNCHANGED <<globals, pwd, raced>>

NotLoggedInKills(t) == Unknown(t) /\ Req(t).page \in Posted /\ Dies

-----------------------------------------------------------------------------
(***************************************************************************)
(* The pages.  A handler reads user_name twice, for its message and for    *)
(* the node it asks for; both while other threads may be writing it.       *)
(***************************************************************************)
Page(t, pages) == At(t, "page") /\ Req(t).page \in pages

NeedsDirectory == {"upload", "delete file", "local", "download"}
ByStorage      == {"upload", "delete file", "download", "inbox", "mail", "delete mail"}

Ready(t) == Req(t).page \in NeedsDirectory => curr_user # "NULL"

Seen(t) ==
  {user_name} \cup
  IF \E u \in Slots \ {t} : Checks(u) /\ Req(u).cookie # user_name THEN {Torn} ELSE {}

\* A torn name is of a write that was going on.
Saw(n) == {n} \ {user_name}

\* string dir(curr_user) throws on NULL.
NoDirectory(t) == Page(t, NeedsDirectory) /\ ~Ready(t) /\ Dies

Compose(t) ==
  /\ Page(t, ByStorage \cup {"send"}) /\ Ready(t)
  /\ \E n \in Seen(t) :
       thread' = [thread EXCEPT ![t].message = n, ![t].since = @ \cup Saw(n),
                                ![t].at = IF Req(t).page = "send" THEN "mail server" ELSE "route"]
  /\ Rest /\ UNCHANGED <<globals, pwd, raced>>

Route(t) ==
  /\ At(t, "route")
  /\ \E n \in Seen(t) :
       thread' = [thread EXCEPT ![t].route = n, ![t].since = @ \cup Saw(n),
                                ![t].at = "storage"]
  /\ Rest /\ UNCHANGED <<globals, pwd, raced>>

\* getlist of a user the node does not hold in memory is answered with one
\* line, and the reader waits for another.
Stored(t) ==
  /\ At(t, "storage")
  /\ Answers(t)
  /\ Rest /\ UNCHANGED <<globals, pwd, raced>>

\* rep.at throws: no such mail, or a mail whose lines are not those of one.
NoSuchMail(t) == At(t, "storage") /\ Req(t).page \in {"mail", "inbox"} /\ Dies

Local(t) ==
  /\ Page(t, {"local", "form"}) /\ Ready(t)
  /\ Answers(t)
  /\ Rest /\ UNCHANGED <<globals, pwd, raced>>

\* The body or the query lacks what the handler takes out of it: at or substr
\* throws, before the handler has done anything.
Malformed(t) ==
  /\ \/ At(t, "routing") /\ Req(t).page \in {"register", "login"}
     \/ Page(t, {"upload", "delete file", "local", "send", "mail", "delete mail"})
  /\ Dies

\* send_to_email_server, by which the frontend ends when the mail server does.
Sent(t) ==
  /\ At(t, "mail server")
  /\ (Answers(t) \/ Waits(t))
  /\ Rest /\ UNCHANGED <<globals, pwd, raced>>

NotSent(t) == At(t, "mail server") /\ Dies

\* delete_session, and the login page, or the home page of who is still in.
Logout(t) ==
  /\ Page(t, {"logout"})
  /\ \E n \in Seen(t) :
       /\ sessions' = sessions \ {n}
       /\ thread' = [thread EXCEPT ![t].at = "reply", ![t].message = n,
                       ![t].since = @ \cup Saw(n),
                       ![t].cookie = IF Req(t).cookie \in sessions' THEN Req(t).cookie ELSE None]
  /\ Rest /\ UNCHANGED <<user_name, curr_user, pwd, raced>>

(***************************************************************************)
(* No lock protects the containers: two threads in sessions of which one   *)
(* writes, or main and a thread both in the set fds.                       *)
(***************************************************************************)
Writes(t) == Page(t, {"logout"}) \/ (At(t, "valid") /\ IsLoginValid(t))

Reading(t) == At(t, "routing") /\ Req(t).page \notin {"register", "static", "admin"}

Collide ==
  /\ \/ \E t, u \in Slots : t # u /\ Writes(t) /\ (Writes(u) \/ Reading(u))
     \/ Free # {} /\ \E t \in Slots : At(t, "close")
  /\ Dies

-----------------------------------------------------------------------------
Main == AcceptFails \/ \E sent \in BOOLEAN : Accept(sent)

Kills(t) ==
  \/ ReplyKills(t)
  \/ NoNode(t)
  \/ AdminKills(t)
  \/ NotLoggedInKills(t)
  \/ NoDirectory(t)
  \/ Malformed(t)
  \/ NoSuchMail(t)
  \/ NotSent(t)

Step(t) ==
  \/ TakeFd(t)
  \/ ReadRequest(t)
  \/ ReadNothing(t)
  \/ ReadInvalid(t)
  \/ Reply(t)
  \/ Close(t)
  \/ Check(t)
  \/ CheckAtOnce(t)
  \/ Static(t)
  \/ Admin(t)
  \/ Register(t)
  \/ Exists(t)
  \/ Add(t)
  \/ Login(t)
  \/ Valid(t)
  \/ NotLoggedIn(t)
  \/ Compose(t)
  \/ Route(t)
  \/ Stored(t)
  \/ Local(t)
  \/ Sent(t)
  \/ Logout(t)

Next ==
  /\ alive
  /\ \/ Main
     \/ \E f \in Fds : Leave(f)
     \/ \E t \in Slots : Step(t) \/ Kills(t) \/ Unanswered(t)
     \/ Collide

\* The threads run; the storage and the mail server answer or fail.
Spec == Init /\ [][Next]_vars /\ \A t \in Slots : WF_vars(alive /\ Step(t))

-----------------------------------------------------------------------------
(***************************************************************************)
(* Properties.                                                             *)
(***************************************************************************)

\* A page works for the user of its cookie (in its message, and in the
\* choice of the node), or for one whose request was checked in while it was
\* at work: user_name is never one of an earlier request.
ActsForItself ==
  \A t \in Slots : Req(t) # None =>
    {thread[t].message, thread[t].route} \ {None} \subseteq {Req(t).cookie} \cup thread[t].since

\* A name is registered with two passwords only by registrations that were
\* under way at the same time, neither seeing the other's.
RegisteredOnce == \A u \in Users : Len(pwd[u]) > 1 => u \in raced

\* An answer goes to the connection the request was read from, unless two
\* threads have read one descriptor from comm_fd.
OwnConnection ==
  \A t \in Slots : thread[t].at \notin {"none", "start"} /\ ~thread[t].own => shared

\* A cookie goes out only to a request that gave the first stored password of
\* the name in it, or whose own cookie is of a user who has logged in; a forged
\* one earns nothing.  To such a user login gives a cookie of whatever name is
\* in the body, with any password.
CookieEarned ==
  \A t \in Slots : thread[t].cookie # None =>
    \/ Req(t).cookie \in entered /\ thread[t].cookie \in {Req(t).cookie, Req(t).user}
    \/ /\ thread[t].cookie = Req(t).user
       /\ Head(pwd[Req(t).user]) = Req(t).password

\* Every request that was read is answered and its descriptor closed, unless
\* the thread waits for another server for ever or the process ends.
Served ==
  \A t \in Slots : At(t, "routing") ~> (At(t, "none") \/ At(t, "hung") \/ ~alive)
=============================================================================
