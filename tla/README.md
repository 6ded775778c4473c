# A verification of pgrouter

pgrouter sits in front of a PostgreSQL cluster with streaming replication.  A
client connects to it as to a single node; pgrouter authenticates the client,
opens one connection to the write master and one to a read slave, and sends
every query to the slave first.  If the slave refuses it because it writes
(SQLSTATE 25006), the query is replayed on the master.

This directory holds TLA+ models of that program, the TLC configurations that
check them on small instances, and TLAPS proofs, for every size and every input, of
what most of these parts guarantee.  The models follow a router from its
command line (`Daemon`), its files (`Config`, `AuthDb`) and its sockets (`Workers`)
to the handshake (`Conn`, `Credentials`), the message loop (`Session`, on top of
`MBuf`) and the threads that share its dataset (`Context`).

## Components

| Component | Source | State it keeps | Operations | Interacts with |
|---|---|---|---|---|
| session loop | `worker.c` `handle_client` | `in_txn`, `befd`, the buffers `fe` and `be` | receive, send, relay, drain, resend, COPY loop, shutdown | client, two backends, message buffer |
| message buffer | `msg.c` | `buf`, `start`, `fill`, cache file, two descriptors | `recv`, `send`, `resend`, `relay`, `discard`, `drain`, `reset`, `setfd`, `iserror`, `cat`, `msgtype` | sockets, temporary file |
| handshake | `conn.c` | `params`, `pwhash`, `salt`, `fd` of three connections | `pgr_conn_accept`, `_copy`, `_connect`, `_deinit` | client, backends, authdb, message buffer |
| backend choice | `worker.c` `determine_backends` | weights, cumulative weight | scan, weighted draw | shared dataset under locks |
| worker loop | `worker.c` `do_worker` | `connfd`, `fe_conns` | select, accept, count, serve, close | listening sockets, the process's descriptors, dataset |
| watcher | `watcher.c` | private health records, `master_pos` | refresh, probe, publish, sleep | backends (libpq), dataset |
| monitor | `monitor.c` | none | accept, report | dataset |
| supervisor | `main.c` | pid file, pipe to the parent, user and group, thread ids | daemonize, start, reload on SIGHUP, cancel and join on SIGTERM | other instances, all threads, configuration |
| locks | `locks.inc.c` | one rwlock for the context, one per backend | `rdlock`, `wrlock`, `unlock` | all threads |
| configuration | `config.c` | the parser's settings, the dataset's | lex, parse, configure, reload, deconfigure | supervisor |
| authdb | `authdb.c` | the lexer's position, usernames and hashes | lex, parse, install, find | supervisor, handshake |
| hashing | `md5.c` | counters, a block that is not full, the state | init, update, raw, hex | handshake |
| network helpers | `net.c` | none | endpoints, listen, connect | socket API |
| random numbers, logging, abort | `rand.c`, `log.c`, `abort.c` | | | |

What is hard in this code: a session is a three-party protocol in which the
worker decides, from the type octet of one message, whom to listen to next; the
message buffer keeps sent octets so that they can be replayed, in memory or in
a file, while `read` cuts the stream anywhere; five kinds of thread share one
dataset under two levels of read/write locks and are cancelled at any point;
they also share one table of descriptors, in which a number that is closed twice
may by then be somebody else's; instances that start at the same time meet at
one pid file; peers vanish between any two steps.  `PROJECT.json` lists these hazards at the
lines where they bite.

## Modules

| Module | Models | Runs |
|---|---|---|
| `Session`, `MCSession` | `handle_client`'s message loop, with client and backends | `session*` |
| `SessionProofs` | theorems about `Session` | |
| `PgNode` | what a client sees of one node: the abstract specification `Session` implements | (used by `Session`) |
| `MBuf`, `MCMBuf` | the message buffer, one step per system call | `mbuf` |
| `MBufProofs` | theorems about `MBuf` | |
| `Conn` | the handshake with the client and with both backends | `conn` |
| `ConnProofs` | theorems about `Conn` | |
| `Context`, `MCContext` | the shared dataset, its locks and all threads | `context*` |
| `ContextProofs` | theorems about `Context` | |
| `Config`, `MCConfig` | the configuration file: lexer, parser, start-up, reload, shutdown | `config` |
| `ConfigProofs` | theorems about `Config` | |
| `AuthDb` | the file of users: lexer, parser, table, search | (part of `Credentials`) |
| `Md5` | `md5.c`: blocks, counters, padding | (part of `Credentials`) |
| `Digest` | what MD5 promises: the abstract specification `Md5` implements | (used by `Md5`) |
| `Credentials`, `MCCredentials` | the table and the hash in use: who is let in, and what is proved to a backend | `credentials` |
| `CredentialsProofs` | theorems about `Credentials`, `AuthDb` and `Md5` | |
| `Workers`, `MCWorkers` | listening sockets and descriptors, for all threads | `workers` |
| `WorkersProofs` | theorems about `Workers` | |
| `Daemon`, `MCDaemon` | start-up of several instances: pid file, fork, privileges, addresses | `daemon` |
| `DaemonProofs` | theorems about `Daemon` | |

How they fit together.  `Conn` is what happens between `accept` and the message
loop; its invariant `HandOver` is what `Session` takes for its initial state.
`Session` treats a message as one unit and a buffer as a sequence of messages;
`MBuf` shows that this is what the buffer provides (`Framed`, `WholeMessage`,
`Contiguous`: relay and send pass on exactly one whole message; `ReplayExact`:
resend repeats exactly what was sent).  The one thing `Session` and `Conn` must
not assume, that a message is complete when its header is, is a parameter of
both (`Split`).  `Context` reduces a handshake and a session to a choice of how
they end, and looks at what the threads do to each other.  `Config` is where the
context comes from: what the file says, what a reload may replace in it, and who
owns its strings; `Context` starts from any such context.  `Conn` identifies a
hash with its user and a digest with what it is the digest of; `Credentials`,
which composes `AuthDb` and `Md5`, shows where that is justified.  `Workers` has the
sockets that `Context`, `Conn` and `Session` take for granted, and reduces a session
to the descriptors it opens and closes.  `Daemon` is what happens before all of
this, up to the supervisor's loop.

### Session

The worker's variables are `handle_client`'s: `in_txn`, `befd`, the output
descriptor of `fe` (`feout`) and the input descriptor of `be` (`bein`), and what
the two buffers hold: of `fe` the messages `saved` for a replay and those not
sent yet, of `be` the messages received.  Each action is the code between two
calls that may block: `Top` (the top of the outer loop), `RecvFe`/`Send` (the
request loop, with BEGIN and COMMIT recognised by their text), `RecvBe`/`Relay`
(the response loop), `Drain`/`DrainRecv`/`Redirect` (a refused request),
`CopyRecv`/`CopyRelay`, and the ways out (`FrontendGone`, `BackendGone`,
`SendFails`, `RelayFails`, `DrainGone`).  What a client does is its `mix`, chosen at the
start from `Mixes`: the kinds of its requests, how many of them it leaves
unanswered (`window`), and whether messages arrive in pieces (`split`).  The reader
refuses writes with 25006.  A COPY is executed when its last message arrives;
until then `copying` says which one a backend is taking in.  `Node` maps the session to `PgNode`, a single node: its
client's view is the requests and the answers, and everything the router does
between them is a stutter.

### MBuf

An octet is its position in the input stream, so a lost, repeated or misplaced
octet is visible.  Calls on the buffer come in any order.  Between two system
calls any number of octets may arrive and either peer may close.  `LenMod`
stands for 2^24: `u32` loses the first octet of a length.  Messages in `Untyped` have
no type octet, as a StartupMessage has none, and `size` reads their length from their
first octets.  `SetFd` may switch either descriptor to another peer: what was read
from the old one stays in the buffer, and the stream goes on with what the new one
sends, in the middle of a message if the old one had stopped there (`dropped`).

### Conn

The buffer of a call is a sequence of messages; a reply is appended to it, and
relay sends the first message in it, which need not be the reply.  The client
may send any message at any time.  Passwords and hashes are identified with
their users, so `proved` is the user whose password the client knew.

### Context

One step runs from one lock operation or blocking call to the next.  `rd` and
`wr` say who holds each lock; locks prefer readers, as glibc's do.  The watcher
probes all backends, then publishes one after the other under the context's
write lock and each backend's.  `Garbage`, `IntHalf` and `LagMod` are there for the
arithmetic on positions: an uninitialised `int` and an unsigned 64-bit lag.  What a
probe finds is a WAL location, as the digits on either side of its slash; `xlog`
makes a number of it the way `watcher.c` does, digits as distances from `'0'`, to the
base 15, with `HiUnit` in the place of 2^32.
SIGTERM cancels all threads, which end at their next cancellation point with
whatever locks they hold.

### Config

A file is a sequence of words chosen while the lexer reads, after one of a few
preambles that bring the parser into a stanza.  A word is a class (a keyword, a
bare word, an address, a number with or without a unit, a mark, a character no
word begins with) and a value.  `Lexeme` and `StuckOn` say what `config.c` makes of
it, including what it makes of it by mistake; `Odd` marks these cases.  `Parse`
hands one token to the function `p->f` names, one action per function and place
in the statement.  `Apply` is `pgr_configure`, the same code for start-up and reload;
`Launch` is the rest of start-up as far as it reads the context; `Refresh` is the
watcher's only look at what it connects with; `Deconfigure` is `pgr_deconfigure`.
`OpenCrashes` is a file that can be opened and whose size cannot be told: `parser_init`
then frees a parser without a lexer.

What the files say is used in two places.  The context is what `pgr_configure` writes
and the monitor prints.  The threads took some of it earlier: `threads` is the number
of workers `main` read once (`main.c:335`), and `cached` what the watcher built its
connection strings from.  It looks at a backend again when the backend's `serial`
changes, which is incremented at start-up only (`config.c:1241`), so a reload never
makes it look again; and the strings it takes are the backend's own
(`ctx.backends[i].strs`), which point to those of start-up.  `told` records what had
been said when each of them was taken.  `Faithful` is about both: `ContextAsSaid` and
`UseAsSaid`.  It does not claim that a reload of the health stanza takes effect, which
it does not, except for the interval (`WatcherFollows` and `ReloadsBackends`, below).

A string is identified by the file, the setting, how often that file had set it,
and its text, so that sharing and a second `free` are visible.  `Half` stands for
2^31, half the number of ints there are.  `said` records the statements in force, independently of
the parser's tables.

### AuthDb, Md5 and Credentials

`AuthDb` has one action per call of a lexer function and per token the parser gets.
The file is a sequence of octets here, as the code's mistakes are about single ones;
an octet stands for its class.  It is put together from pieces that come with what
their author means by them, which is what `Faithful` compares the table with.

`Md5` has one action per function of `md5.c`; blocks, the two counters, the buffer
and the two shapes of the padding are as in the code, with `Block`, `Field`, `LoMod`
and `HiMod` in the place of 64, 8, 2^29 and 2^32.  The compression of a block is
left uninterpreted: a state is the initial value and the octets compressed so far,
so that two digests are equal only if the padded messages are.  `ComputesDigest`
says that this implements `Digest`, in which a message has no blocks.

`Credentials` takes a connection through `check_auth` and `password_message`, which
call `Md5` with what `AuthDb` has found, and also feeds `Md5` directly, in pieces of
any length.

### Workers

`fds` is the table of descriptors of the process; a new one has the lowest free
number, and all calls that open one fail when there is none.  A step is one system
call.  `Boot` opens the listening sockets of whatever the configuration says, with
`Address4` and `Address6` as `net.c` reads an endpoint.  `Select` and `Accept` are two
steps, so that the connection may be gone in between; `Leave` may happen at any
point of a session; `Close` is one descriptor at a time, the client's twice.  The cache
file of `fe` is opened by `WarmUp` and closed, by the number in `cachefd`, by `Reset`, the
`pgr_mbuf_reset` after a redirect; a session that ends otherwise forgets it.

The table is that of the whole process.  `Other` are the threads that are not workers
and have one descriptor at a time: the monitor (the connection it reports on), the
watcher (libpq's socket to the backend it probes) and the supervisor during a reload
(the file it reads).  They differ in nothing the table can see, so `Open` and `Done` are
the actions of any of them.

### Daemon

An instance goes through the system calls of `main` and `daemonize` in their order
(`Calls`, with `Does` for those that are skipped); each may fail if it is in `Faulty`,
and the instance may be killed anywhere.  Files have an identity of their own, so
that an instance can hold the lock of a file that is no longer at the path.  The four
addresses are bound one after the other (`turn`), so that two instances may each get
one of a pair and both go on, as `main` is content with one.  After
the fork the parent is a process of its own, which reads the pipe to its end.

## Runs

Passing runs:

| Run | Properties | What it shows |
|---|---|---|
| `session` | `SessionInv`, `LooksLikeOneNode`, `Answered` | Reads, failing and extended queries, COMMIT and Terminate, two in flight, messages in pieces; and writes and COPY, one at a time, each refused, drained and replayed; any peer vanishing: the session looks like one node, leaves nothing behind and answers every request. |
| `session_mixed` | `RefusalMasked`, `WritesInOrder` | Reads, writes, COPY and transactions mixed, two in flight, and a reader that may vanish: the refusal does not reach a client whose answers have been its own so far, and without BEGIN the writer executes writes in order and none twice, although requests can be lost or misanswered (below). |
| `mbuf` | `TypeOK`, `Bounded`, `ReplayExact`, `Contiguous`, `Framed`, `WholeMessage`, `ResendWrites` | All mixes of calls over one stream. |
| `conn` | `ConnInv`, `HandOver`, `ClientHears`, `HandshakeEnds` | Any client against any two backends: the backends serve the user whose password was proved, the session starts clean, nobody waits for ever, with three stated exceptions. |
| `context` | `ContextInv`, `ClientsCounted`, `ScanIsSnapshot`, `PickSound` | Two workers, watcher, monitor and supervisor on two backends. |
| `context_live` | `LocksGranted`, `KeepsPublishing` | With a reload at any point, every thread gets its locks and the watcher goes on publishing. |
| `config` | `TypeOK`, `EmitSafe`, `FreedOnce`, `Faithful`, `ParseEnds` | Files of any words, read at start-up and on SIGHUP: every file is read to an end, no string is freed twice, and what the files say, up to their first error, is what the context holds; the workers and the watcher use what had been said when they took it; all of it where the lexer takes words for what they are. |
| `credentials` | `LexerInv`, `Faithful`, `Accounted`, `ComputesDigest`, `AdmitsOwner`, `ProvesSame`, `ReadEnds` | Files of users made of any three pieces, and messages hashed in pieces of any length: the table says what the file says up to its first broken line, the lexer stays inside the file and comes to an end, a digest is that of the octets handed over, a client is let in if and only if it knows the hash of its first line, and the backend gets the answer it expects. |
| `workers` | `WorkersInv`, `NothingLeaks`, `Served` | Two workers and two other threads on few descriptors: whatever is closed twice or reused, listening sockets stay, sessions leave no connection open, and a client is accepted unless all workers are busy, or wait for a connection that another one took. |
| `daemon` | `DaemonInv`, `FailureTold`, `ParentEnds` | Two instances started in any way, any call failing, either instance killed at any point: the pid file names the daemon that runs, with one stated exception, the parent hears of the failures of `daemonize` and always ends, and privileges are dropped before any address is bound. |

An invariant whose name ends in `Inv` is the type invariant of its module together
with the parts its definition names (`SessionInv` is `TypeOK` and `Settled`, for
instance); `Accounted` is `WholeBlocks` and `Counted`.

Runs that refute what the documentation or the code says:

| Run | Property | What it shows |
|---|---|---|
| `session_begin` | `Answered` | After BEGIN the worker writes to the writer and still reads from the reader; the first transaction of a session is never answered. |
| `session_read_write` | `OwnAnswer` | `fe` is reset only by a redirect, so a replay repeats earlier requests too, and their answers reach the client. |

### Bounds

Three requests make a session long enough for every interaction of two requests
and a third that meets what they left behind; `session_mixed` has four, because
the answers have to get out of step before a refusal can slip through.  A window of
two is pipelining.
The buffer of six octets with a header of two holds two small messages or part
of the large one, so that every position of a message relative to the end of
the buffer, and the change from memory to file in the middle of a message,
occurs.  Three client messages are SSLRequest, StartupMessage and
PasswordMessage, or two StartupMessages and a password.  Two backends of
different weight give a reader and a writer, or two candidates, or none; two
workers give every conflict of one worker with another.  `MaxArrivals` bounds
connections and signals together.  Three words after a preamble complete a
statement and begin or break the next one, in any stanza; one reload meets the
strings of start-up, and the shutdown those of both.  With a `Half` of 128 a
value of 200 is a negative `int` and 256 wraps.  Blocks of four octets with a length of
two have both shapes of the padding; counters modulo 8 and 2 wrap and carry within
a message of 19 octets, which may be handed over in one piece or octet by octet.
Three pieces of a file give an entry before and an entry behind anything that may
break a line.  Six descriptors are two or three listening sockets and three or four
for everybody else, fewer than two sessions want (six, and two cache files), so that
all calls are refused one at some point; one cache file at a time (`MaxCache`) leaves
enough for the rest.  Of the three other threads, which are interchangeable, two are in
the run, enough for one to get what another has closed.  Two instances have every conflict about the pid file and the
addresses that one may have with another.  The proofs need none of these bounds.

### Fairness

The worker, PostgreSQL and the reading side of the client keep running
(`WF`); nothing makes a client send, or a peer vanish.  In `Conn` a backend
also gives up a connection whose StartupMessage never becomes complete
(`authentication_timeout`).  In `Context` the threads are scheduled fairly, and a
thread that wants the context's lock gets it if the lock is free again and again
(`SF`): the watcher, the only thread that takes it without being asked to,
sleeps for seconds between two rounds.  In `Config` the supervisor goes on reading
a file it has opened (`WF` of `Parse`); nobody has to send a signal.  The same holds
for the file of users in `Credentials`.  In `Workers` a worker goes on with its own
system calls; a session lasts as long as its client likes.  In `Daemon` processes run,
and nobody has to start or kill one.

## Known deviations

Besides the two runs above, the models show the following.  Each is obtained
by changing the constants of a configuration, where that is said, and naming
the property in the place of those of the configuration.  A mix of kinds K,
window W and split S is
`{[kinds |-> K, window |-> W, split |-> S]}`; window is 1 and split FALSE where they are
not mentioned.

| Property | Configuration | What happens |
|---|---|---|
| `Answered` (Session) | `SessionBegin.cfg`, `Mixes` of kinds `{"copyfail"}` | CopyFail is `f`, the loop looks for `F`; the COPY never ends. |
| `Answered` | `SessionBegin.cfg`, `Mixes` of kinds `{"flush"}` | Only Query and Sync end the reading of a request, so a Flush is never answered. |
| `Answered` | `SessionBegin.cfg`, `Mixes` of kinds `{"write"}` and window 2, `MaxReqs = 2` | The reset after a replay drops requests received and not sent. |
| `TransactionsToWriter` | `SessionBegin.cfg`, `Mixes` of kinds `{"start"}`, or `{"begin"}` and split TRUE | START TRANSACTION, or a BEGIN whose text arrives late, goes to the reader. |
| `RefusalMaskedAlways` | `SessionReadWrite.cfg`, `Mixes` of kinds `{"read", "write", "begin"}`, `MaxReqs = 4` | Once a replay has put the answers out of step, the refusal of a write is still under way when the client goes on to BEGIN.  BEGIN changes `befd`, and `handle_client` takes the refusal for the writer's and passes it on. |
| `WritesInOrderAlways` | `SessionReadWrite.cfg`, `Mixes` of kinds `{"read", "write", "begin", "commit"}`, `MaxReqs = 7` | With the answers out of step a BEGIN gets through; the writes of the transaction go to the writer and stay in `fe`, and a later redirect replays them: they are executed twice. |
| `RecvZeroMeansEof` (MBuf) | `MBuf.cfg` | A buffer full of sent messages makes `recv` return 0, which callers take for the end of the stream. |
| `SendWhole` | `MBuf.cfg` | A send that meets the end of the stream in the middle of a message returns 0. |
| `FramedAlways` | `MBuf.cfg`, `LenMod = 4` | A message of 2^24 octets or more is cut and framing lost. |
| `RefusalSeen` | `MBuf.cfg` | A refusal whose SQLSTATE is not buffered yet is passed on. |
| `DrainEnds` | `MBuf.cfg` with `FairSpec` | `drain` spins when the peer closes inside a header. |
| `RefusalHeard` (Conn) | `Conn.cfg`, `MaxMsgs = 2`, `Mortal = {}`, `Split = FALSE`, `Notices = FALSE` | The ErrorResponse for a wrong password is one octet shorter than it says; client and worker wait for each other. |
| `HandshakeEndsAlways` | `Conn.cfg`, `MaxMsgs = 2` | A NoticeResponse from a backend during start-up is not discarded; the worker looks at it for ever. |
| `ReaderViable` (Context) | `ContextLive.cfg`, `Probes <- MCProbes` | A draw of 0 picks the first backend, viable or not. |
| `WriterKnown` | `ContextLive.cfg`, `Probes <- MCProbes` | Without a known master the host name passed to `pgr_connect` is NULL. |
| `WriterPromoted` | `ContextLive.cfg`, `Probes <- MCProbes`, `N = 3`, `Signals = {}` | The last backend in the list whose role is master becomes the writer, failed or not. |
| `MasterLagZero` | `ContextLive.cfg`, `Probes <- MCFarProbes` | `master_pos` is an `int`; positions are 64 bits wide. |
| `OrderKept` | `ContextLive.cfg`, `Probes <- MCHexProbes` | `xlog` tests `>= '0' \|\| <= '9'`, which always holds, and multiplies by 15: hexadecimal digits are misread, and of two positions the later one may get the smaller number. |
| `WorkersTrue` | `ContextLive.cfg` | A reload changes the number reported and starts or stops no thread. |
| `ShutdownCompletes` | `ContextLive.cfg`, `N = 1`, `MaxArrivals = 3`, `Signals = {"term"}` | The monitor is cancelled while it holds the context's lock; a worker then waits for it and the join never returns. |
| `WatcherReadsLive` (Config) | `Config.cfg` | The backends share the health strings of start-up; a reload before the watcher's first refresh frees them. |
| `Survives` | `Config.cfg` | A reload that sets a string of start-up for the first time passes NULL to `strcmp`; start-up without `user`, `group`, `listen` or `monitor` dereferences NULL. |
| `FaithfulAlways` | `Config.cfg` | `5m` is read as 5 and read again for ever; an address with a first number of one digit is a decimal; a last word without a newline loses its last octet; the beginning of a keyword is the keyword; large numbers wrap; a weight of `0.33` becomes 32 and not 33, as its double is smaller and is cut off. |
| `WatcherFollows` (Config) | `Config.cfg` | `pgrouter.h:75` says that a reload increments a backend's serial, and `watcher.c:331-333` that the watcher then reads it again; no reload does, so new health credentials and timeouts reach the context and are never used. |
| `ReloadsBackends` | `Config.cfg` | `watcher.c:91-92` and `314-317` say that a reload adds and removes backends; `pgr_configure` ignores the backends of a reload. |
| `DefaultsFirst` | `Config.cfg` | `DESIGN.md:184-194` changes `backend default` between two groups of backends; there is one default, and the last one holds for all. |
| `ReadToTheEnd` | `Config.cfg` | A statement the parser does not take, such as the backend without braces of `DESIGN.md:190`, ends the parsing; what is behind it is dropped and `parse` reports success. |
| `LastLineKept` (AuthDb) | `Credentials.cfg` | A file of users without a final newline loses the last octet of its last hash. |
| `ProvesSameAlways` (Credentials) | `Credentials.cfg` | A hash that is shorter than 32 octets is checked as it is, and read beyond its end for the backend. |
| `OwnDescriptor` (Workers) | `Workers.cfg` | `handle_client` and `do_worker` both close the client's descriptor; in between another worker may have got the number, and loses its client. |
| `NeverMisled` | `Workers.cfg` | Two workers wake up for one connection; the second blocks in `accept` while a client waits at the other socket. |
| `NoCacheLeaks` | `Workers.cfg` | The cache file of a session that ends without a redirect stays open for ever. |
| `BindsAsAsked` | `Workers.cfg`, `Endpoints <- MCOneAddress` | `ipv6_endpoint` ignores what `ipv6_hostport` returns, so an IPv4 address also listens on every IPv6 address. |
| `PidFileAlways` (Daemon) | `Daemon.cfg`, `Faulty = {"chown"}` | A start that fails unlinks the pid file, which by then may be about to be locked by another instance; with all of `Faulty`, a failed write leaves the old pid in the file. |
| `StartupTold` | `Daemon.cfg` | The pipe to the parent is closed before the port is bound, so these failures reach nobody; `pgr_monitor` returns no value, and `main` looks at it.  The parent exits with 0 in any case. |

`ClientHears` and `HandshakeEnds` state their exceptions: a StartupMessage with a
payload of 12 octets (a user name of one letter and nothing else) is taken for a
CancelRequest; a NoticeResponse during start-up is looked at for ever.

## Proofs

`MBufProofs` proves, from `MBufAssumption` alone (a buffer at least as large as a
header, a stream that is a sequence of messages), for every `Spec` behaviour:

| Theorem | Property |
|---|---|
| `TypeCorrect` | `TypeOK` |
| `BufferBounded` | `Bounded` |
| `StreamContiguous` | `Contiguous` |
| `ReplayIsExact` | `ReplayExact` |
| `ResendIsExact` | `ResendWrites` |
| `FramingKept` | `Framed` |
| `MessageWhole` | `WholeMessage` |

The argument about the buffer has three layers.

1. `BufInv` is `TypeOK`, `Bounded` and `Shape`.  `Bounded` alone is not inductive: an
   action in the middle of a call needs to know how `len` relates to what is
   buffered, for instance that a call that waits for more octets has used up the
   ones it had, which is `Shape`.
2. `Contiguous` and `ReplayExact` are inductive over `BufInv`.  The lemmas `ReadStep`,
   `WithoutStep`, `AdvanceStep` and `KeptStep` say what a read, a memmove, an advance of
   `start` and a warm-up do to the two halves of the buffer; the proof then goes
   action by action.  `Calls` relates the history variables to the step of the
   call and gives `ResendIsExact`.
3. `FrameInv` is `Place` (where in its message a call in progress is), `Progressed`
   (what it has written is the message up to that place) and `Completed` (a call
   that succeeded has written all of it).  `Framed` speaks only of the state
   between calls, so nothing of it survives the first step of a call; `Place`
   carries it through.  Both theorems assume that lengths fit (`LengthsFit`), as
   `Framed` and `WholeMessage` do.

`ConfigProofs` proves, for every set of words and preambles and any number of
reloads:

| Theorem | Property |
|---|---|
| `EmitAlwaysSafe` | `EmitSafe` |
| `StringsFreedOnce` | `FreedOnce` |
| `ConfigTyped` | `TypeOK` |
| `RunsAsSaid` | `Faithful` |

`EmitSafe` is inductive: `EndsWithLast` shows that a call of `emit` that ends the lexer
returns T_EOS or T_ERROR, `LastStops` that every parse function gives up on these.
`FreedOnce` is not: that a string is not freed twice depends on who holds it.
`HeapInv` adds that the context owns live strings of earlier files and the parser
live strings of the file that is read (`ContextOwns`, `ParserOwns`), each in the slot
of its own setting, and that what was freed of the file at hand was set before what
the parser holds now (`FreedBefore`).  A string then cannot be in two slots, nor in
parser and context at once, and a string newly set was never freed.  `FreeStep`
says what freeing a table of such slots does; there is one lemma per action that
touches the heap.

`ConfigTyped` and `RunsAsSaid` begin with the lexer: `WordIs` and `EmitIs` say that a token
always has a value of its type, and the value its word says unless the word is `Odd`.
`ParseIs` then reduces the eight parse functions to the six things they may do
(`Sets`): give up, go on, set a string, an int or a value of a stanza, name a backend.
`Faithful` speaks of a router that is up, while a file is read statement by
statement and applied at once.  `SaidInv` says what is true in between: the settings
that would be in force if the file were applied now (`IntNow`, `StrNow`) are the ones
said so far, at start-up the stanzas hold what was said of each backend and are in
one-to-one correspondence with the backends named (`StanzasSaid`), and from start-up
on the servers do (`ServersSaid`), whatever stanzas a reload reads.  `HealthSaid` says the
same of the health strings before the backends share them, and `TakenSaid` that what
the backends, the watcher and `main` have taken since is what `told` says, which no
reload changes.  `WithIs` says what
one more statement changes; `BackendsSaid` is the merge of a stanza with the default,
where it matters that a value that was said is never -1, the mark of one that was
not.  The proof of `WordIs` did not go through at first for decimals: `(int)(f * 100)`
makes 32 of `0.33`, and no C rule says what it makes of a double no int can hold.  Both
are in the model since (the class `rounded`, and `Weights`), and `Odd`.

The other proof modules have the same plan: an inductive invariant `IInv`, which TLC
has checked on the instances of the runs; lemmas about sequences, sets and the
operators of the module; one lemma per action, with a step per conjunct; and
theorems that are consequences of `IInv`.

| Module | Theorem | Property |
|---|---|---|
| `SessionProofs` | `SessionTyped` | `TypeOK` (a part of `SessionInv`) |
| | `WritesAreInOrder` | `WritesInOrder` |
| | `TameSessionsSettle` | `SessionInv`, of a session whose mix is in `Tame` |
| | `TameSessionsLookLikeOneNode` | `LooksLikeOneNode` (a refinement), of the same |
| | `TameSessionsMaskRefusals` | `OwnAnswer` and `RefusalMasked`, of the same |
| `ConnProofs` | `IdentityProved` | `ConnInv` |
| | `SessionStartsClean` | `HandOver` |
| `ContextProofs` | `DatasetSafe` | `ContextInv` |
| | `ClientsAreCounted` | `ClientsCounted` |
| | `ScansAreSnapshots` | `ScanIsSnapshot` |
| | `PicksAreSound` | `PickSound` |
| `WorkersProofs` | `ListenersSafe` | `WorkersInv` |
| | `SocketsClosed` | `NothingLeaks` |
| `DaemonProofs` | `StartUpSafe` | `DaemonInv` |
| | `FailuresTold` | `FailureTold` |
| `CredentialsProofs` | `LexerSafe` | `LexerInv` |
| | `OctetsAccounted` | `Accounted` |
| | `DigestComputed` | `ComputesDigest` (a refinement) |
| | `SameHashProved` | `ProvesSame` |
| | `KnownAdmitted` | `AdmitsKnown` (defined there) |

`SessionProofs`, from `SessionAssumption`: any kinds of requests, any window, messages
whole or in pieces, any number of requests, any peers that vanish.  `WritesInOrder`
speaks of what the writer has executed, and says nothing about what it will be sent.
`InLine` adds where the requests are that the writer may still get (with the writer,
saved in `fe`, not sent yet, with the client), that each of these queues is sorted
and comes before the next, and `Executed` that everything executed, or being copied,
is ahead of them all.  A redirect moves the saved requests behind the writer's, which
keeps that order because a session without BEGIN has sent nothing to the writer
directly (`Routed`): that is why the replays of `handle_client` repeat reads and no
writes.

The last three theorems of `SessionProofs` are about one sort of session, `mix \in Tame`,
among whatever others `Mixes` allows: nothing but reads, failing queries, COMMIT and
Terminate, with any window and messages in pieces; or nothing but writes, COPY and
Terminate, one at a time and in one piece.  These are the two sorts of the run `session`,
here for any number of requests and any peers that vanish.  They cannot be extended
to every session: with a read before a write, two writes in flight or a refusal in
pieces the client is told what no single node would tell it (the run
`session_read_write` and the deviations above).  BEGIN, Flush and CopyFail, which are
never answered, are left out too.  The invariant is `Steady`, which TLC has checked on the instance of the run.  It gives request n the
positions 2n to 2n + 2, each message a step between two of them (an error or a
CommandComplete leads from 2n to 2n + 1, the ReadyForQuery from there to 2n + 2), and
says that the queues, from the client's answers through `be`, the backend's replies,
its requests and `fe` to what the client has just sent, are one walk without a gap: what
one ends with is what the next begins with (`Answers`, `Handed`, `Waiting`, `Heard`).  `Stage`
says where the worker is in that walk at each step of its loop, `Replay` that `fe` holds
exactly the request the reader is about to refuse, `Routes` that the other backend is
not involved.  At the top of the loop the walk inside the router is empty, which is
`Settled`; and the first message the client gets starts where its oldest unanswered
request starts or goes on, which is what `PgNode` asks for.  From there `OwnAnswer`
follows, as a property of `PgNode`, and so does the absence of any 25006.

`ConnProofs`, from `ConnAssumption`: any users, a client that sends anything in any order,
any peers that vanish, notices or none, messages whole or in pieces.  `Named` and
`Proved` tie the hash that `check_auth` compares with to the user named last, and that
user, from AuthenticationOk on, to all three connections; `Told` says that no message
under way to a backend, in the buffer or in the socket, is about anyone else.
`Greeting` is what a backend's part of the handshake looks like from its first
message to ReadyForQuery: a request for a password comes first or not at all, behind
ReadyForQuery there are only notices.  `Phases` says which backend is where in it, and
`Patient` that a client that waits for its answers never has a message behind the one
that is handled, so that what relay sends is the reply (a reply goes behind what is
left in the buffer, and relay sends the first message).

`ContextProofs`, from `ContextAssumption`: any number of workers and backends, any weights
and any results of probes.  `Locked` says which lock a thread holds at each step, which
gives `NoRace`; it is an implication only, as a monitor that is cancelled keeps its
locks.  `Tallied` is the count of `ok_backends` while the watcher publishes; `Weighed` that
the weights of a scan are cumulative, so that the backend where a draw stops has a
weight of its own; `Current` that what a worker has seen still holds, as the watcher
needs the context's lock to change it.

`WorkersProofs`, from `WorkersAssumption`: any numbers of workers, other threads,
descriptors and clients.
A worker may close a number that is somebody else's by now, so that what it knows of
its own descriptors cannot be inductive.  What is inductive is `Apart`, that a number
somebody is going to close (of a connection, of a cache file, of another thread) is
never a listening socket's, and `Owned`, that every socket of a session and every
descriptor of another thread is going to be closed by somebody.

`DaemonProofs`, from `DaemonAssumption`: any number of instances, any call failing.  `Files` says
that an instance which has locked its file holds the lock until it ends, and that only
the holder writes; `Pipes` that the child keeps the pipe open as long as it may report a
failure, and that the parent does not go before the pipe has ended.

`CredentialsProofs`, from `AuthDbAssumption`, `Md5Assumption` and `CredentialsAssumption`: a
file of any octets, blocks, length fields and counters of any size that fit each
other, any salts and hashes.  `IInv` has four parts (TLC has checked all but the typing
of the octets in `Stream`, whose set is infinite).
- `Lexing`: each function of the lexer finds a token begun at `start`, inside what was
  read; `emit` is only called while `f` is a function; the entries and the table are
  strings.  `as_string` takes off quotes and backslashes by positions, and `NthIs` and
  `AsStringIs` show that the result is a string again.
- `Stream`: the message is what was compressed and what the buffer holds; `lo` and `hi`
  count its octets.  `Streamed` follows `pgr_md5_update` through its three cases (the data
  fits, it fills the held block, whole blocks follow); `Carried` is the addition with
  carry.  They rest on lemmas about quotients and remainders, as the solver does not
  know what `%` by a constant does.  For the refinement, `OneBlock` and `TwoBlocks` show
  that `pgr_md5_raw` appends the padding of `Digest` whether or not the length field
  still fits into the last block.
- `Known`: from the search on, `pwhash` is what the table has for `who`, and what is
  admitted is a `claim` equal to it.  The digest is not interpreted, so that equal
  digests are equal padded messages; `PaddedOnce` shows that padding loses nothing of
  the data.  This is where the proof uses that MD5 has no collisions.
- `Handed`: which octets have been handed to the digest at each step of the two
  exchanges.

Left to TLC: liveness under fairness and everything about `ENABLED`, which the
prover does not handle; `RefusalMasked` of sessions that mix everything, whose answers
may be out of step in ways that `Steady` does not describe;
`Faithful` of `AuthDb` and `AdmitsOwner`, which compare the table with
what the author of each line meant: that is given with the lines of the instance,
and what the lexer makes of a whole line is an induction over data.  `KnownAdmitted`
is the part of `AdmitsOwner` behind the table.

## Not modelled

The compression of one block of MD5 (64 fixed steps on 32-bit words, with a
published reference); line and column numbers and the messages of both lexers, and
comments of the configuration's; logging (`log.c`), the usage text and the look-up
of options; `pgr_sendn`, `pgr_sendf` and the receive helpers of `net.c`, loops around one
system call whose outcomes are steps of the modules that use them; the seeding of
random numbers; the initialisation of lock objects; the script that generates the
table of keywords; the load generator in `driver/`.  Allocation failures abort the
process and are left out.  In `Context` and `Workers` a session is a choice of how far
it gets.  The cumulative weight of `determine_backends` is an `int` in the code and a
natural number in `Context`: a sum of weights of 2^31 is not modelled.  A thread that
is cancelled ends at its blocking calls; that writing a log message may be a
cancellation point too, under the write lock (`watcher.c:350`), is left out, and would
be one more reason for `ShutdownCompletes` to fail.  What libpq does inside a probe, and
the resolution of names, are left out.

## Plan

Done: `Session` with `PgNode`; `MBuf`; `Context`, with `xlog`; `Conn`; `Config`; `AuthDb`, `Md5`
with `Digest`, and `Credentials`; `Workers`; `Daemon`; proofs about all of them.

Next: `RefusalMasked` for every mix.  It needs an account of how far the answers may be
out of step after a replay, in the place of the walk without a gap of `Steady`.
