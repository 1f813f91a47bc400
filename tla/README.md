# PennCloud in TLA+

Specifications, model-checking configurations and proofs for PennCloud
(`src/`), a small cloud service in C++: a replicated key-value store, the
master that assigns its nodes, HTTP frontends with a load balancer, and a mail
server.  The modules are translated from the code; comments and manuals are
quoted only where the code does something else than they say.

## 1. The system

```
 browser --> load balancer --> frontend --"?" user--> master <--"!" id-- storage node
                                  |                                         |   ^
                                  +------- put/get/cput/dele/... -------> primary -> secondary
 mail client --> SMTP server ------------^   admin console: "A", "U", probes
```

| component | state | operations | interacts with |
|---|---|---|---|
| storage node (`kvstore/`) | tablets in memory (user -> file -> content), an LRU list with eviction to "virtual memory" chunks, the checkpoint chunks and their metadata, the log | put, get, cput, dele, rename, getlist, getfile; a checkpoint every `CP_INTERVAL` seconds; load and replay at start | frontends and mail server (TCP, one thread a connection), its secondary or primary, the master (UDP), a joining node (migration) |
| replication (`kvstore.cc`, `chunkserver.cc`) | `seq_num_records`, `primary_holdback`, `secondary_fd` | number, hold and send a request; DONE reports; greeting "S" and resend | primary and secondary of one node id |
| identity (`kvstore.cc`) | `isPrimary` | ask the master at start; take over when a connection comes | master, everybody who connects |
| master (`master/master.cc`) | `servers` (id -> pair), `users` (id -> names), `server_index` | datagrams `!`, `?`, `A`, `U` | storage nodes, frontends, mail server, admin console |
| load balancer (`frontend/load_balancer.cc`) | `servers[i].running` under a mutex, `handler_server_id` | probe in turn; redirect a client | frontends, browsers |
| frontend (`frontend/`) | `sessions`, the globals `user_name` and `curr_user`, local copies of files | registration, login, files, folders, mail pages, admin console | master, storage nodes |
| SMTP server (`webmail/webmail_server.cc`) | the session's flags and recipient list | HELO, MAIL, RCPT, DATA, SEND, RSET, NOOP, QUIT | storage nodes, `mqueue` |
| queue delivery (`webmail/webmail_deliver.cc`) | `mqueue` | look up MX, deliver | remote mail servers |

What is hard in it:

* **No locks in the storage node.**  Workers, the checkpointing thread, the
  replication thread and `main` share every map.
* **Crash recovery from two sources** (snapshot and log) that are written and
  removed at different times by different threads.
* **TCP taken for datagrams**: whatever one `recv` returns is one message.
* **Failure detection by a connect**: the master's probe, the load balancer's
  probe, and the secondary's rule "somebody connected, so I am the primary".
* **Dynamic membership**: which users move when a node joins, and how their
  rows get there while clients write.
* **One process for all clients**: the frontends' threads share a descriptor,
  a user name and the sessions, and what ends one thread of a frontend or of
  the mail server ends them all.
* **Nested memory management**: loading a row evicts others, whose list and
  counts the same calls are in the middle of changing.

What makes each component correct: a restarted node has what it had (storage);
the secondary plus what is under way to it equals the primary, and nothing is
forgotten before the secondary has it (replication); a pair has one primary,
the master's table names the nodes that live (identity, master); users are
recorded where their requests go and a joining node gets exactly its own
(master); clients go round the running servers and are turned away only when
none runs (load balancer); evicting and loading changes no row, and counts and
list describe what is in memory (LRU cache); a row is read back from the chunk
files as it was written (chunks); a row handed over is at the new node, whole,
once and in order (migration); a request is answered for its own user, on its
own connection (frontend); commands are taken in the order HELO, MAIL, RCPT,
DATA and a mail answered with 250 has been handed on (SMTP server).

## 2. Modules

| module | models | kind |
|---|---|---|
| `KVOps` | the requests that change data and what each does to a row (`lrucache.cc`) | operators |
| `KVNode` | one storage node: workers, log, checkpointing thread, crash, start, restart | state machine |
| `KVDurable` | `KVNode` with the history variable `blurred`, its properties and inductive invariants | properties |
| `Replication` | primary and secondary for one file: numbers, holdback, sockets, reports, restart | state machine |
| `Ring` | `get_server_id`: the owner of a key | operators |
| `Master` | the master's datagrams and the identity of the nodes | state machine |
| `Dispatcher` | what a load balancer promises, without probes or a walk | abstract state machine |
| `LoadBalancer` | the probing thread and the accept loop; implements `Dispatcher` | state machine |
| `LRUCache` | memory, list, eviction and loading of one storage node | state machine |
| `Chunks` | the chunk files and their records | state machine |
| `Migration` | the transfer of rows to a node that joins | state machine |
| `Frontend` | the HTTP server: threads, shared variables, accounts, pages | state machine |
| `SmtpServer` | the mail server's sessions and its SEND loop | state machine |
| `MCKVDurable`, `MCMaster`, `MCChunks`, `MCFrontend`, `MCSmtpServer` | instances for TLC | model checking |
| `KVDurable_proofs`, `Replication_proofs`, `LRUCache_proofs`, `Migration_proofs`, `LoadBalancer_proofs`, `Master_proofs`, `SmtpServer_proofs`, `Frontend_proofs` | theorems about the module of that name | proofs |

Operators named in a comment that begins with `Fault:` are broken variants of
an action, each the way a plausible mistake in that code would break it; they
are used by no specification, and exist so that each property can be seen to
fail.

### KVOps, KVNode, KVDurable

A user is a row, a file a column, and the content of a file the sequence of
payloads appended to it; an absent file is the empty sequence.  `FirstLine[v]`
is what `getline` leaves of payload `v`.

| code | specification |
|---|---|
| `Chunkserver::put/cput/dele/rename` up to `write_log` | `Serve(w, r)`: the change in memory, the answer |
| `write_log` | `WriteLog(w)` |
| `checkpointing` lines 222-223, 224, 225-234, one turn of 237-242, 245, 247 | `ClearChunks`, `ClearMetadata`, `RemoveLog`, `WriteRow(u)`, `WriteMeta`, `WriteChunkInfo` |
| `chunk_info["checkpointing"].at(0)` on an empty vector | `RemoveLogAndAbort` |
| `initialization` with `-n` / without | `StartNew` / `Restart`, then `ReplayLine` per log record, then `Listen` |
| "shutdown" (`exit(5)`), a signal, a fault | `Crash` |

An action is as large as no other thread can tell: the loop of
`checkpointing` is one action a row, because workers run in between.
The loop visits rows in key order; the model allows any order.

`blurred` collects the users for whom the code gives up exact recovery: a
request that the log cannot replay (rename, several lines), two unlogged
requests of one user at once, a request applied after the checkpoint's log
removal and before its row, and a `-n` start over an old log.  It guards
nothing.  `RestartExact` claims exact recovery of everybody else;
`ValuesOnDisk` claims of everybody that no payload's first line is lost.

### Replication

One file, requests `Puts` (append) and `Deles` (delete, failing on a missing
file); cput and rename fail and are reported like a dele.  A worker of the
primary goes through `Serve`, `ReadSeq`, `StoreSeq`, `Hold`, `SendOut`: the
lines of `put` and `send_to_secondary`.  `Greet` and `Resend` are the branch
for "S" and `check_primary_holdback`, which works on a copy.  `ReadReports(c,
k)` and `Receive(k)` read `k` messages that one `recv` returned and do with
the merged text what the parsers do: two DONE in one text remove nothing, the
messages behind the first become the tail of a value, or of the name of the
file a dele then does not find; text without a comma aborts the secondary
(`Abort`).  `Send` is the kernel: a send to a closed peer is lost and answered
by a reset, a send on a reset connection raises SIGPIPE.  `Crash` and `Start`
are the secondary's death and return.

`Flip` is the connection that makes the secondary take itself for a primary: what
it still receives it then answers with +OK, which the primary takes for no report
(`OnlyErrors`), so that its holdback keeps the request.

The history variables say when the code has given equality up: `astray`
(InStep is claimed until then), `unreported` (a report that will not come) and
`torn` (reported DONE, died before the log).  `number` remembers the number each
request was given; of requests that share one (`Shared`) `NothingLost` claims
nothing.

### Ring, Master

`Owner(ring, key)` is `get_server_id`: the least id above the key, or the
least of all.  `JoinEmpty`, `Join` and `Rejoin` are the branches of `!`;
`Lookup` is `?` with `get_backend_info`; `Inspect` is the admin console's `A`,
probe and `U`; `Contact` is a client that connects to the node it was given.
`Told` is `confirm_identity`.  `Connect(s)` is what a connection does to a
listening node: its worker outlives the connection (`recv` returning 0 does
not end it), so `main` finds `thread_counter != 0` and a secondary sets
`isPrimary`.  A node is probed successfully only once it listens, after it has
loaded its data.  An id of -1 is what `get_server_id` returns for an empty
ring; the master then creates a pair with that id.

A node that dies while it waits for its answer may leave its `!` in the
master's socket (`inbox`); it is then answered for nobody.  A probe of a
default-constructed `Server` (no ip, unset port) is a failed probe.

### LoadBalancer, Dispatcher

`Connect` and `Record` are the two halves of a probe (the connect is outside
the lock), `Select` is the walk under the lock, `Answer` the answer and the
step to the next server.  `Toggle` is the world.  `Dispatcher` knows no probes
and no pointer: a client gets the known server nearest after the last one
used.  The refinement reads its `known` from the records, its `place` from the
history variable `last` and its `answer` from `chosen`; a probe that finds
nothing new, and every start and stop of a server, is a stutter.

### LRUCache

| code | specification |
|---|---|
| `move_to_tail`; the two assignments of `get_helper` | `MoveToTail`, `Unlink` |
| `put_helper`: refused, new user, user in memory, user in virtual memory | `Refuse`, `PutNew`, `PutInMemory`, `PutLoads` and then `PutLoaded` |
| `put` on a value larger than the memory, a client's or a loaded file's | `PutTooLarge` |
| `put`'s loop around `use_virtual_memory` | `Evict`, with nothing left `EvictNothing` |
| `load_user_from_disk`, `restore_user` | `Load`: the calls of `Restores(u)` go on top of the stack |
| `get_helper` and `get`, `cput`, `dele`, `rename` | `GetInMemory`, `GetLoads` and `GetLoaded`, `GetNobody`, with `Compare`, `Erase`, `Rename` |
| `cput`'s `put_helper` | the request "rewrite"; `Drop` when it does not fit |
| `getlist`, `getfile` | `ListFiles` |

A request is a stack of calls, because a put or a get that finds its user in
virtual memory puts every file of the row back, and each of those puts may
evict.  A value is its length.  The list is kept as the pointers the code
keeps, so that relinking a node that is still linked does what it does there:
its neighbours keep pointing at it, a walk from `head` leaves nodes out, and
eviction ends up at `tail`, whose successor is null.  Sums with a capacity are
unsigned in the code: a negative sum is larger than any capacity.

The history variables are `due`, the row a user should have by the answers,
`recent`, the order of use, and `mark`, which remembers that a node was
relinked, that counts drifted from rows, that an empty row was evicted, that a
file was cut off a row because it had outgrown the memory, and whose row was
displaced by a node `dele` left behind.  Each property is
claimed until the mark that names its exception.

### Chunks

`WriteToChunk` is `write_to_chunk` with `update_metadata`: the record
`<<#chunk, start_idx, length>>` of every part, the file each part is appended
to, `chunk_info` number 0 and 1.  `ReadRow` is `load_user_from_disk`, `Restored` what
`restore_user` makes of it.  `Evict` and `Load` work on the directory of the
evicted rows, `Checkpoint` on the directory of the snapshot, which begins anew,
and copies the other; `Restart` puts the copy back.  `chunk_info` number 1 is taken
over all files and never set back, but is used as an offset within one file:
rows in the first chunk come back as they were, rows that reach into a later
one do not, unless that file happens to be as long as the offset says, which
`FirstChunkExact` says never happens.

### Migration

The old node's worker walks `list` and, within a user, `cursor`; `SendFile`
and `EraseFile` are one turn of the two loops of `migrate_data`, `SentAll` and
`ErasedAll` their ends, `Finish` is "MIGRATION DONE".  `EraseFile` has the
outcomes of the undefined increment: the next file, the end of the loop, the
end of the process.  `NoSuchRow` is the null pointer of a user without a row
in memory.  `Read(n)` is a `recv` that returns `n` messages, of which the code
sees one; `ReadPart` is one that returns the beginning of a message.  The new
node answers every put to a peer that never reads, so that the close resets
the connection (`Close`) and drops what has not arrived.  `PutNew` and `PutOld`
are clients that asked the master after and before the join; the pieces they
put have numbers of their own, so that loss, doubling and order can be told.

### Frontend

| code | specification |
|---|---|
| `main`: accept and `pthread_create` | `Accept`, `AcceptFails` |
| `client_handler`: `int fd = *(int *)comm_fd`; `close` | `TakeFd`, `Close` |
| `Request::Request` | `ReadRequest`, `ReadInvalid`, `ReadNothing` |
| `is_already_login`, which writes `user_name` | `Check`, two at once `CheckAtOnce` |
| `reg`: `is_user_exist`, `add_user` | `Register`, `Exists`, `Add` |
| `login`, `is_login_valid`; the page of one who is not logged in | `Login`, `Valid`; `NotLoggedIn` |
| a page: message, choice of node, answer | `Compose`, `Route`, `Stored`; `Local`, `Static`, `Admin`, `Sent`, `Logout` |
| `send_to_backend`, around what the node does | `Unanswered`, `NoNode` |
| `Response::reply` | `Reply`, `ReplyKills` |

Descriptors are numbered and reused as the kernel does, and each carries the
connection behind it, so that a thread can read, answer or close a connection
that is another's.  A page's kind stands for the handlers that do the same with
the names, the storage and their failures.  `CheckAtOnce` and a page that reads
`user_name` while another thread writes it may see `Torn`; `Collide` is the
data race on `sessions` and `fds`, whose only outcome that differs from an
order of the two is the end of the process.  `Registered` are the accounts that
other frontends have stored before this one starts.  Before the first registration
`curr_user` is null and a page that builds a path from it ends the process
(`NoDirectory`); after it the bytes have been freed, and a path made of them
leads nowhere that is modelled.  `Kills` are the exceptions nobody catches and
the signals; a body without the fields its handler takes out of it is
`Malformed`.

### SmtpServer

A session is its flags, receivers, phase, and the line in its buffer.
`Execute` tries the commands in the code's order; any line may also be taken
for none of them (`NotNow`), because the comparisons read past the end of the
copies they compare.  `Rcpt` inserts a string that `handle_rcpt` never
returned, or dies of it.  `Rset` clears the receivers and no flag; the history
variable `cleared` remembers who sent it.  A line, or a message, longer than the
buffer it is read into may end the process (`Overrun`).
`ReadMessage`, `Relay`, `Store` and `EndOfList` are `handle_send`.  A client
may leave at any moment (`Leave`), by closing or, with answers unread, by a
reset; `read_command` then returns the line it has already returned
(`ReadAgain`) until an answer raises SIGPIPE.  A relay to a server that does
not answer waits for ever, as a question to the storage does (`Silent`).

## 3. Runs

A run is `tlc -config <cfg> <module>`, the module being what precedes the first
underscore of the cfg's name.

| cfg | instance | states | shows |
|---|---|---|---|
| `MCKVDurable_restarts` | 1 user, 2 files, 2 workers, every kind of request, a one-line and a two-line payload, `MaxContent` 1, `MaxLog` 2, fairness | 203,505 | `TypeOK`, `RestartExact`, `ValuesOnDisk`; `CheckpointCompletes`: requests do not starve a checkpoint |
| `Replication_restarts` | 1 worker, a put and a dele, `MaxBatch` 2, `MaxConns` 2, fairness | 864,576 | `TypeOK`, `InStep`, `NothingLost` across a restart of the secondary, which may take itself for a primary; `Drains`: the holdback empties |
| `MCMaster_pair` | ids 4 (one node) and 2 (two nodes), keys 1 and 3 | 199,003 | `TypeOK`, `UpIsListed` |
| `MCMaster_ring` | ids 1, 3, 5, keys 2, 3, 6 | 286,377 | `NamesAtOwners`, `SplitsExactly` |
| `LoadBalancer` | 3 servers, fairness | 11,520 | `TypeOK`, `FairShare`, `DownIsDropped`; `Dispatches`: it implements `Dispatcher` |
| `LRUCache` | 2 users, 2 files, lengths 1, 3 and 5, `Capacity` 4, `MaxRequests` 5, fairness | 274,776 | `TypeOK`, `Kept`, `Accounted`, `LeastRecentFirst`, `CrashHasCause`, `OverOnlyByLoading`; `Answered`: every request ends |
| `MCChunks` | 2 users, rows of 3 and 8 bytes, chunks of 4, `MaxSize` 11 | 472,969 | `FirstChunkExact` |
| `Migration` | 2 users, 2 files, `Batch` 2, one put by a client, fairness | 1,002,535 | `TypeOK`, `NothingLost`, `HandedOver`; `Ends` |
| `MCSmtpServer` | 2 sessions, 2 local receivers, 1 elsewhere, 1 mail, fairness | 594,470 | `TypeOK`, `UpToFirstLocal`, `CommandsInOrder`, `ForNobodyAfterReset`; `LeavingEnds` |
| `MCFrontend_accounts` | 2 threads, 2 descriptors; one name registered with 2 passwords, logins with and without a session | 227,348 | `TypeOK`, `RegisteredOnce`, `OwnConnection`, `CookieEarned`; `Served` |
| `MCFrontend_pages` | the same with 2 users, registered before, at pages of each kind | 2,324,760 | `ActsForItself` |

`MCKVDurable_window` finds a statement of the repository violated: a start
without `-n` is to "start data recovery" (`kvstore/README.txt:14`), but the old
snapshot and log are removed before the new are written, and a crash in between
leaves nothing to recover (`ValuesAlwaysOnDisk`).

The properties say when something goes wrong by naming the steps after which
they claim no more.  What the models reach there, and where the code says
otherwise:

* A put during the checkpoint's loop is in its row and in the log, and comes
  back twice; a rename is logged and not replayed, a payload of several lines
  comes back cut (`blurred`); "the node with load latest snapshot and replay
  its own log" (`kvstore/README.txt:6`).
* A node restarted before its first snapshot removes its log at its first
  checkpoint and aborts (`RemoveLogAndAbort`).
* A request that fails at the secondary is reported as `-ERR`; the primary
  answers it with an error, which goes to the secondary and not, as
  `chunkserver.cc:51` says ("Sends the ERROR message to the client."), to the
  client (`ReadReports`, `OnlyErrors`).
* The second send to a dead secondary kills the primary, and the holdback that
  is "for Crash Recovery" (`kvstore.cc:77`) with it (`Send`).
* Two workers of one user give two requests the same sequence number, or send
  them in the other order (`ReadSeq`, `StoreSeq`, `SendOut` interleaved).
* A node above all others is told to take users that stay with the lowest
  ("Dynamic membership with consistent hashing", `README:10`): `SplitsExactly`
  and `JoinsSplitExactly` assume an id above.
* Two nodes of a pair that start together are both told P ("Node identity:
  Primary or Secondary.", `kvstore.cc:41`), a node that restarts while its
  pair's primary is down can be made the secondary of itself (`Rejoin`), and
  any connection, the admin console's included, makes a secondary take itself
  for the primary (`Connect`).
* The LRU list is broken by the first put to a user in memory, and from then
  on the process can follow a null pointer (`mark.relinked`).  Memory in use
  exceeds the capacity after a put that had to load its row.
* A cput that is refused has already taken the old value off the counts; the
  file can then grow past the memory, and put refuses it when its row is loaded
  again (`mark.cut`): the row has left virtual memory, and the file is gone.
* Of a migrated row, what `recv` merges, splits or a reset drops is lost, and
  so is a put at the old node between sending and erasing (`mark.garbled`,
  `mark.overtaken`); the end of the migration can be merged into a value, and
  the new node then waits for ever (`mark.hopeless`).
* A page sends a message under another user's name (`since`), an answer with a
  cookie goes out on another's connection (`shared`), two registrations of one
  name are both stored (`raced`).  `frontend.cc:53` says "thread function to
  handle each client".
* Receivers of a mail behind the first local one get nothing, and its sender
  is told 250 (`UpToFirstLocal`).  After RSET a mail is taken with DATA for
  nobody, and its sender is told 250 (`cleared`).
* Whoever has logged in gets a cookie for any name he puts in the body of a
  login, with any password (`CookieEarned`).

**Bounds and why they are enough.** `MaxContent` bounds the payloads of one
file in memory and snapshot, `MaxLog` the log: with one or two records every
relation between a row, its snapshot and its log occurs (in neither, one, both,
and applied but not logged), and a log of two shows order. `MaxBatch` is 2
because the parsers treat every message after the first the same way.
`MaxConns` is 2 because one stale connection and one current one are all that
`secondary_fd` distinguishes. Three ids are the least with a node between two
others. In `LRUCache` five requests are enough to fill the memory, evict, load,
relink and crash, over a capacity that holds one long value and one short but
not two rows of each; and for a file to be cut off when it is loaded (a refused
cput, an append, an eviction, the load), after which the process follows a null
pointer. That a row keeps its other files then takes more requests and is
covered by the proof alone. In `Chunks` a short row leaves one byte of a chunk, a
long one fills two or goes on in two more, and two of them run past the
unsigned comparison. In
`Migration` `Batch` 2 for the same reason as `MaxBatch`, and one client's put
falls before, between and after every step of the worker; the initial states
are all pairs of rows in memory, in virtual memory, or nowhere, with every set
of users handed over. Two threads and two descriptors are the least with a
shared one, and a descriptor that is closed and opened again under a thread.
One session that hears every line and one that hears SEND and QUIT show all
that a session does to another: end it. All bounds are guards of actions and
constants of the modules; the theorems below hold for every value of them.

**Deadlock.**  Checked for `KVDurable`, `Master`, `LoadBalancer`, `Chunks` and
`LRUCache`, where it means that no call is ever left without a step.  Not
checked where a behaviour may end: in `Replication` when the clients have no
more requests or the primary has died, in `Migration` when the transfer is over
or a node has died, in `Frontend` and `SmtpServer` when the process has ended
or every thread waits for a server that does not answer.

**Fairness.**  `KVDurable!Fairness`: a started node finishes its
initialization, a worker logs what it applied, and the checkpointing thread,
which sleeps a fixed time and loops for ever, goes on.  `Replication!Fairness`:
every thread of a live process runs, that is, `recv` returns what arrived.
`LoadBalancer!FairSpec`: the probing loop never ends and an accepted
connection is answered.  `LRUCache!Spec`: a worker goes on with its request.
`Migration!Spec`: both nodes run their threads.  `SmtpServer!Spec` and
`Frontend!Spec`: each thread goes on with what it has read; storage and other
servers may fall silent, and are then waited for without end, which `Served`
and `LeavingEnds` name.  Clients, crashes, restarts and servers coming and
going are never fair; `FairShare` therefore assumes that connections keep
coming.

## 4. Proofs

All are checked by TLAPS for every value of the constants that the named
assumptions of the modules allow: `FirstLineAssumption`, `KindsAssumption`,
`NoneAssumption`, `BoundsAssumption` (`KVNode`); `OpsAssumption`,
`BoundsAssumption` (`Replication`); `CapacityAssumption`, `SizesAssumption`,
`UsersAssumption` (`LRUCache`); `UsersAssumption`, `BoundsAssumption`
(`Migration`); `NAssumption` (`LoadBalancer`);
`AddrAssumption`, `NamesAssumption` (`Master`); `NamesAssumption`,
`HeardAssumption`, `MailsAssumption` (`SmtpServer`); `RequestsAssumption`,
`BoundsAssumption`, `RegisteredAssumption`, `NoneAssumption` (`Frontend`).  One
theorem has a hypothesis more, `AtMostTwo`, given below.
TLC evaluates the assumptions on every run.

### Types

`NodeTypes`, `ReplicationTypes`, `CacheTypes`, `MigrationTypes`,
`BalancerTypes`, `MasterTypes`, `MailServerTypes` and `FrontendTypes` are the
type invariants.  Three of them need more than themselves: a replicating
worker's request and number depend on its stage (`WorkerInv`), what a thread of
the frontend carries on how far it has come (`Carries`), and the order of use
of the cache stays a sequence of nodes only if it has each of them once
(`Once`).

### The storage node

* **`RestartIsExact`** (`KVDurable_proofs`).  `RestartExact` is not inductive: it
  says nothing inside the checkpointing window, from which it has to come out
  true.  The invariant `RestartInv` adds `Base`, what the snapshot *will* name
  once its metadata are written, and splits the users in the loop: one whose
  row is still to come has no record in the log and no unlogged request
  (`Untouched`; else he is blurred), one whose row is written, or who needs
  none, is restored by `Base`, the log and the one request a worker holds
  (`Restorable`).  `ReplayInv` says the same during a restart of the part of
  the log already replayed.  The algebra of `Replay` (one more record, a
  record of another user, an empty log) comes first; `Replay` is a recursive
  function over `0 .. Len(log)`, whose defining equation is itself a lemma
  there, by way of a least counterexample (`Minimum`, the least element of a
  set of naturals, which is the first lemma of each module that needs it).
* **`ValuesAreOnDisk`**.  `ValuesInv` replaces `meta` by `cp_meta` while the
  rows are written and claims the security of a row from the moment it is.

### Replication

* **`FinishedIsNotLost`** (`Replication_proofs`): a finished request is in the
  holdback or has run at the secondary, or is one of those the model marks, for
  any number of workers.  What could break it is a report that removes another
  request than the one it is about.  `NumbersInv` says that every request on its
  way (holdback, copies being resent, channel, workers) carries the number it was
  given (`number`), and that a report under way of a number is about some request
  of that number that has run.  So a report removes only requests of its
  number: all but the one that has run are `Shared`, of which nothing is claimed,
  because two workers do give one number twice.  A worker still to send has a
  request that is `Secure` already.  The run has one worker, for its size;
  two workers with one connection have been checked as well (136,165 states).
* **`SecondaryInStep`** (`Replication_proofs`): with any number of workers,
  requests and restarts, and batches of any size, while the two are connected
  and no worker is on a request, the secondary's file with the requests under
  way to it is the primary's, as long as nothing has happened that the code
  gives equality up for (`astray`).
  `InStep` speaks of states with nothing between the two sides, and nearly
  every step leads out of them; `CalmInv` says what holds on the way.
  One worker at a time is on a request and only the last greeting is being
  answered (`OneAtATime`); no request is served twice and numbers grow along
  the holdback (`OrderInv`); and for some *k* (`StepInv(k)`) the first *k* of
  the holdback have run at the secondary, the others together with a request
  not yet held are exactly what its file lacks (`RunInv`), and what comes to
  it, from the channel, the copy being resent and the sending worker, are
  those others in order (`Comes`), all of them if the connection the primary
  writes to is the current one (`ComesAll`).  `ConnsInv` keeps the connections apart:
  only the last is open, and a greeting is the first message of its
  connection.  The proof has a step for each action and, for the
  secondary's receipt of a batch and the primary's reading of reports, lemmas
  about what `Keep`, `First`, `DoAll` do to a sequence, which are proved from
  traces of the recursive functions.

### Memory and eviction

`LRUCache_proofs` has one inductive invariant, `IInv`
(**`CacheInvariant`**), checked by TLC before it was proved.  The properties of
the run speak of moments between requests; `IInv` says what a stack of calls
still owes to them in the middle of one.

* `OnePlace`: no row is in memory and in virtual memory, and the node of a
  user in memory carries his name.
* `StackInOrder`: the calls are about one user; above the put of a file that is
  loaded and above a call that waits for its row there are only such puts, and
  the second half of a cput is on top and its row in memory.
* `NothingMislaid`: of each file that should be *d* long, either the row has
  *d* and no call on the stack puts it back, or the row lacks it and exactly
  one call does, with length *d* (`Pending`).  It is quantified over the users
  who have not lost a row to a node left behind by dele.
* `CountedExactly`: `user_size` is the size of the row that is due, and
  `memory_used` the sum over the rows in memory, both less what a cput under
  way has taken off (`Owed`); a user's size is below the capacity.
* `HollowMarked`, `LostStayOut`: an empty row in virtual memory has left its
  mark, a call that goes on after a load finds its row unless it was empty, and
  as long as the counts are exact whoever lost a row has an empty one and does
  not come back.  Without the last, a loaded row could belong to somebody whose
  row is not what is due, and a cput would take a wrong length off the counts.
* `RestoresFit`: until the counts drift, a file that is put back is no longer than
  the memory, because the size of its whole row is not; so no file is cut off before
  that (`CutHasCause`).
* `LoadedFits`: a put that waits for its row was not too much for its user and
  still is not, since restores do not count for him.
* `InOrder`: the list in both directions, with head and tail, is `recent`.

From it:

* **`RowsAreKept`**: `Kept`.  With no calls on the stack nothing is owed; a file
  put has refused to load is no longer due, and `CutHasCause` is the part of `Kept`
  that says when that can happen.
* **`CountsAreExact`**: `Accounted`.  The sums over rows and users
  (`SumFunction`, a fold) come with their own lemmas: a fold is a recursive
  function chosen by `CHOOSE`, so its equation, its uniqueness and what
  changing one value does to the sum are proved first (`AddsExists`,
  `SumFunctionSums`, `SumChange`), by induction over sets (`SetInduct`) and
  numbers (`NatInduct`).  The same for `FilesOf`, which lists each file of a
  row once (`FilesOfRow`).
* **`LeastRecentIsFirst`**: `LeastRecentFirst`.  `LinkWithout`, `LinkLast` and
  `LinkMade` say what get_helper's two assignments, `move_to_tail` and a new
  node do to a list that leads through a given sequence.
* **`CrashesHaveCause`**: `CrashHasCause`.  An eviction that finds the list
  empty finds nobody in memory, so `memory_used` is 0; then what does not fit
  is longer than the capacity, and put has refused that before it evicts.
* **`OnlyLoadsGoOver`**: the action property `OverOnlyByLoading`, from the types.

### Migration

Most steps of either node leave the rows alone and only move the messages of a
user along: their positions in the wire shift together and nothing else is
added, or the first is taken off and stored at the new node (`Passes`).  That
holds of a user no recv, split or reset has damaged, for all steps but the
sending of a file and a put at the new node (`Passage`), and both proofs rest
on it.

* **`RowsAreNotLost`** (`Migration_proofs`): `NothingLost` alone does not
  survive the erasing of a file.  `LostInv` adds that a file the worker has
  sent and will erase (`ToErase`) is in the wire or at the new node with every
  piece that was given.
* **`RowsAreHandedOver`**: `HandedOver` speaks of the end only.  `RowsInv` says
  of every file on the way there: if it was sent, it is in exactly one message
  or at the new node, just as it was given; if not, nothing of it has left; the
  old node has it until the worker erases it.  `EndInv` has the end of the
  migration be the last message, which leaves the wire empty, and
  `ListInv` that no user is in the list twice (from `SetToSeqIs`, for which
  `Users` must be finite).

### Master and identity

* **`OwnerIsStable`** (`Master_proofs`): adding an id to a ring changes the
  owner of a key only to that id.  The lemmas before it (`LeastIs`,
  `LeastUnique`, `OwnerIn`, `SplitBelow`) say what `get_server_id` computes.
* **`NamesAreAtOwners`**, **`JoinsSplitExactly`**: from `NamesInv`, which adds
  to the types and to `NamesAtOwners` that only ids in the ring have a
  recorded user list or a pair.  With `OwnerIsStable`, a join moves exactly
  the names whose key lies below the new id, provided the new id has one below
  it and one above.
* **`UpAreListed`**: a listening node is in the master's table, unless a probe
  missed it.  `ListedInv` adds that pairs hold nodes of their own id and that
  a node runs only when its id is in the ring and its own question is no longer
  waiting to be answered.  It assumes `AtMostTwo` nodes of one id: the table
  has room for a primary and a secondary, and the third would replace one of
  them.

### Load balancer

* **`BalancerDispatches`** (`LoadBalancer_proofs`): `LoadBalancer` implements
  `Dispatcher`.  The initial states map to an initial state; a `Record` is a
  `Learn` or a stutter, a `Select` a `Choose`, an `Answer` a `Give`.  The
  invariant is `HandlerInv`: the handler is the server after the last one used,
  whatever turned-away clients came in between, who leave it where it was because
  a full turn is the identity.  Then the server chosen is the nearest of the known
  ones, the distance of `Dispatcher` being one more than the number of steps the
  walk takes from there.

### Frontend

One invariant, `FrontendInvariant`, has a part for each property:

* **`TwiceOnlyAtOnce`**: `RegisteredOnce`.  For a user not in `raced`, at most
  one thread is between finding the name free and storing it, and none when it
  is stored (`RaceInv`).
* **`AnswersOwnConnection`**: until the descriptor passed to a thread was
  overwritten before it was read, every thread holds its own open connection
  and no two hold the same (`OwnInv`).
* **`CookiesAreEarned`**: a cookie about to be sent was asked for with the
  first stored password of its name, or by a request whose own cookie is of
  somebody who has logged in (`CookieInv`).  A stored password is never
  replaced, only followed by others, and whoever has a session has `entered`.
* **`PagesActForThemselves`**: `user_name` is what a thread's own check wrote,
  or a name written since (`ActsInv`).

### Mail server

* **`CommandsComeInOrder`** (`SmtpServer_proofs`): from `OrderInv`, which
  relates the commands agreed to, to the flags and the phase of the session.
* **`MailsStopAtFirstLocal`**: `UpToFirstLocal`.  Of a mail whose loop is at
  place *n*, the receivers before *n* are all elsewhere and were handed on; no two
  loops are about the same mail (`LoopInv`).
* **`MailsHaveReceivers`**: `ForNobodyAfterReset`.  As long as the flag of RCPT is
  up or a mail is being taken, the list has a receiver or RSET has emptied it
  (`ReceiverInv`).

### Only model-checked

Liveness (`CheckpointCompletes`, `Drains`, `FairShare`, `DownIsDropped`,
`Answered`, `Ends`, `LeavingEnds`, `Served`) is out of the prover's reach: it
rests on fairness and on `ENABLED`.  Every safety property of a passing run has
a theorem but `FirstChunkExact` (`Chunks`), which says what a row reads back
as: its parts are cut by a division by `ChunkSize` and put together by a fold
over the records, and for constants of any size a checkpoint may need more
files than the bound `MaxSize` gives it.  What `ValuesAlwaysOnDisk` shows is a
counterexample.

## 5. Not modelled, and simplifications

* `Chunkserver::parse_line` counts with a variable no declaration of which is
  in the repository; it is taken for a local counter from 0, the only reading
  under which the node accepts a request.
* Each aspect of a storage node has a module: threads, log and restart in
  `KVNode` (rows in memory, whole), memory in `LRUCache` (one request at a
  time), files in `Chunks` (a checkpoint and a restart in one step), the
  transfer in `Migration`.  They are not composed.
* The separators of a row are not modelled: `restore_user` splits a value at
  its commas.  Log and socket writes of one request are not torn.
* `LRUCache` leaves out a rename to the same name.
* In `Replication` the primary's death ends the behaviour; a connection's data
  arrive in order; one file stands for one row.  Of a secondary that takes itself
  for a primary only the answers to its primary are modelled, not what it does
  to clients of its own.
* In `Migration` an answer of the new node to a socket that is already closed
  drops nothing (in the kernel it can reset the connection, and with it what has
  not been read), and put at the new node refuses no value for its size.  The secondary of the old node is not followed, and a user the
  255-byte buffer cuts off is one who was not listed.
* Datagrams between a node and the master are not lost while both live (a node
  that waits for ever is one that crashes while asking).
* `Frontend` keeps of the storage the file `pwd` of each user; what other
  requests answer is free.  Its own connections to other servers have no
  descriptors there, and local directories are not modelled.  A descriptor that
  nobody has left to read is forgotten.
* `SmtpServer` and `Frontend` see storage, master and remote mail servers as
  ones that answer, fail or fall silent, which is all that `send_to_backend`
  and the mail relay distinguish.  Of a line or a message longer than its buffer
  only the end of the process is modelled, not what else it overwrites.
* Undefined behaviour is a choice over its outcomes where it decides something
  (the erased iterator, the missing return, the torn name, the races on the
  containers of the frontend, the reads behind a buffer); in the maps of the
  storage node, which every thread changes without a lock, it is not.
* The queue delivery (`webmail_deliver.cc`) reads `mqueue`, in which nothing
  in the repository ever puts a mail.  Test clients, HTML pages and the display side of the
  admin console keep no state of the system.

## 6. What is left

Every component that keeps state has a module, and every safety property of a
passing run but `FirstChunkExact` has a theorem.  A proof of that one would
start from an invariant about the records and the lengths of the files, and
from `Chunk` bounded by the number of rows instead of by `MaxSize`.  Beyond it:
threads on the maps of one storage node (the hazards without a property), and
the composition of `LRUCache` with `Chunks`, so that a row is loaded as the
chunks give it back.
