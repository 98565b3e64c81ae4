# Linux network programming, in TLA+

TLA+ specifications of the programs in `src/00_tutorials` and
`src/01_networking_libraries`: small TCP, UDP, TLS and HTTP servers with their
clients. Each module is read off the C or C++ source named in its header
comment; `PROJECT.json` gives, definition by definition, the lines it stands
for.

## 1. The system

Every program is a process that makes socket calls in a loop. What goes wrong in
such programs does not happen inside one call: it happens because the kernel
and the peers act *between* two calls. Clients connect, send, hang up or
reset their connection at any moment, descriptor numbers are reused at once, and
one client's state is kept in several places (a descriptor, an entry of a table,
an SSL object, a heap cell).

| Component | Source | State | Operations | What makes it correct |
|---|---|---|---|---|
| poll() server | `13_multiplexing_poll_client_server.c` | `fds[]`, `revents`, `nfds`, scan index, request | poll, accept and store, scan, recv, send, close and move the last entry | entries name different, open connections; a drop loses nobody else; nobody blocks the loop; nobody kills the process |
| select() server | `12_multiplexing_select_client_server.c` | `fds_client[]`, `master_set`, `read_set`, `global_max_fd` | select, accept and store, scan, recv, send, close and clear | the three tables agree; select() looks at all of them |
| Threaded server | `09_multithread_client_server.c` | main thread's locals, heap cells, detached threads | accept, calloc, pthread_create; recv, send, close, free | a thread serves its own client only; cells are returned; nobody waits for another's client |
| Sequential server | `08_simple_client_server.c` | `sock_client` | accept, recv, send, close | it leaves no live client; the queue moves on |
| Non-blocking server | `11_non_blocking_sockets.c` | `sock_client` | accept, recv, send that may return EAGAIN | one connection held, status not dropped |
| UDP server and client | `10_peer_to_peer_client_server.c` | address and buffer of the last datagram | recvfrom, sendto | the answer taken is the answer to the last line |
| TLS server and client | `openssl/src/ssl_client_server.c` | `fds[]` and `arr_ssl[]` side by side, `revents`, `nfds` | poll, accept, SSL_accept, SSL_read, SSL_write, drop | descriptor and SSL object move together; only the gone are dropped |
| HTTP server | `my_http_server/*.cpp` | `fds[]` (uninitialized), `revents`, `nfds`, response | poll, accept, handler (recv, parse, route, send), drop | each request answered once, with its own page; nobody forgotten |
| HTTP parser, router, response | `my_http_server/http_{parser,router,response}.cpp` | none: functions | parse, route, to_string | status and body fit the path; what throws is known |
| run_client | 08, 09, 12, 13 | place in the loop, last command | connect, fgets and send, recv, close | one exchange at a time; a wait ends |
| HTTP and HTTPS clients | 05, 06, 07, `https_client.c` | bytes sent and received, response buffers, redirection count | connect, send, recv, copy, redirect, return | a request goes out once, in order; what is returned is the last response; chains are cut; the programs end |
| Broadcast | `14_broadcasting.c` | two detached threads, a socket each | create and detach, set up, sendto, recvfrom, prompt | hosts hear each other in spite of losses; quit ends the program |
| libcurl examples | `libcurl/src/*.cpp` | easy and multi handles, threads, the strings the callbacks fill, files | init, perform, wait, callback, join, write, clean up | a file is a whole page; libcurl is not torn down under a transfer; the loop ends |
| Set-up and release | all of the above, 01, 02, 04 | what is acquired | getaddrinfo, socket, bind, listen, connect, calloc, SSL_CTX_new, SSL_new, and their undoing | whatever fails, everything acquired is given back, once |
| 00, 03, utilities, logging, build files, certificates, pages | the rest | none | | not modelled: no state to check |

How the components interact: a client and a server share a TCP connection (two
byte streams and their ends), and all the connections of a server share its
descriptor table and the accept queue of its listening socket. The threaded
server's threads further share the descriptor table and the heap, those of curl_multithreaded.cpp the library, and
those of 14 nothing but the life of the process. Nothing is
persisted; a process that ends is a closing of all its descriptors.

What is hard: interleaving of kernel, peers and server (all servers), of threads
(09); numbers that are reused (descriptors, entries, cells); readiness that was
true when poll() or select() said so (12, 13, TLS, HTTP); partial failure (one
client's failure must stay its own); limits (entries, descriptors, buffers); and
liveness (a silent client must not hold up the others). `PROJECT.json` lists the
hazards line by line.

The programs that fetch pages and those that talk in datagrams have no code in
common with the servers: their peers are hosts of the Internet, which the
modules describe by what they may do (send in parts, close, reset, lose, repeat).

## 2. The modules

```
TcpSockets                descriptor table, accept queue, streams, send(), close()
 +- CommandClient         run_client, and clients that do not wait (Eager)
 |   +- PollServer        13    +- MCPollServer    +- PollServerProofs
 |   +- SelectServer      12    +- MCSelectServer  +- SelectServerProofs
 |   |                             (implements EventLoop)
 |   +- ThreadServer      09                       +- ThreadServerProofs
 |   +- SequentialServer  08                           (of 08 and 11 too)
 |   +- NonBlockingServer 11
 +- SslServer                   +- MCSslServer     +- SslServerProofs
 |   |                             (implements EventLoop)
 |   (08, 09, 11, 12 and SslServer: +- MCTwoClients)
 +- HttpServer                  +- MCHttpServer    +- HttpServerProofs
     +- HttpMessages      parser, router and response, as functions
EventLoop                 what a server with one loop promises (abstract)
HttpExchange              what an HTTP client promises (abstract)
HttpClients               05, 06, 07, https     \
Curl                      the libcurl examples   +- MCExchanges   +- ExchangeProofs
UdpExchange               10                     |  (HttpClients implements HttpExchange)
Broadcast                 14                     |
SetupPaths                what every program    /
                          acquires and gives back
TcpSocketsProofs          lemmas on accept(), recv(), send() and close()
 +- CommandClientProofs   lemmas on the streams and on the client's steps
```

Two modules put several small programs together, `MCTwoClients` and
`MCExchanges`: the initial state chooses one among those the run names
(`Servers`, `Kinds`, and for the set-ups `SetupPrograms`), and everything of the
others has ended there, or keeps its first value. They share their network module
where there is one, and no step is shared.

**One action is one system or library call**, with everything the code does
before its next call. The call decides what the outside world can do in
between. A blocking call is an action that is enabled when the call would
return. `pc` holds the call the server is about to make.

**TcpSockets** is the kernel, which is not in the repository. `files` is the
descriptor table (`accept()` gives the lowest free number; EMFILE when there is
none), `acceptQ` the connections the kernel has completed, `inbox[c]` the
commands sent and not received, `outbox[c]` the replies sent and not read,
`peer[c]` the client end: up; closed (`fin`); reset, still to be reported
(`rst`); or reset and reported (`broken`). The first send to a closed peer
succeeds and is answered by a RST, which may or may not have arrived at the next
one; a client that closes with unread replies resets the connection; a send on
a broken connection raises SIGPIPE. `SO_SNDBUF` is `SendBuf` replies. A stream
carries whole commands; `recv()` takes any non-empty prefix of them, and two
commands taken together are plain text to the servers' `strcmp` chain
(`Received`).

**CommandClient** is `run_client()`: a line, a reply, until exit, quit or
shutdown. An empty line is a `send()` of 0 bytes: nothing is sent, and the
client waits. `Kill` is Ctrl-C, a crash, or the client's own SIGPIPE, at any
moment. Clients in `Eager` are other TCP programs, which send without waiting.
Every connection is made once; a client that comes back is another member of
`Clients`.

**PollServer.** `Poll` rewrites `revents` of the first `nfds` entries only, as
poll() does; `Accept` fills `fds[nfds]` and leaves its `revents` as they
were; `Drop` closes, moves the last entry's fd (its `revents` stay) and
re-examines the slot. **SelectServer.** `read_set` is a copy of `master_set` that
select() reduces, or, when it fails, does not; `activity` is its result.
**ThreadServer.** The main thread's locals, a heap of cells, and per thread the
call it is at; `owner` is a history variable. The result of calloc() is not looked
at, so that its failure ends the process (`CallocFails`); that of
pthread_create() leaves cell and connection behind. **SequentialServer**,
**NonBlockingServer** follow their two nested loops; a call that returns EAGAIN
changes nothing and is a stuttering step. **SslServer.** What is sent is
records: the handshake, a whole record, the first part of one, or, from a program
that does not speak TLS, something that fails the handshake; `arr_ssl[i]`
is the descriptor that SSL object was set to, so that the two arrays can come
apart. The handshake is made on a blocking socket, the reads on a non-blocking
one. **HttpServer.** The handler runs for entries *without* POLLIN, because the
`else` at `http_server.cpp:77` belongs to the outer `if`; `revents` is
arbitrary at the start, because `fds` has no initializer. **HttpMessages** has
the functions the handler calls. A request is a path and the values of its
Content-Length headers; `Parse` takes what one `recv()` has brought of it (a
part of the path, the first line, a header without its value, or all) and keeps
the last of several headers, as the map does; `Throws` says when `std::stoi` or
`resize` do; `Route` gives the set of outcomes (the page may not be readable,
and the part of a path may itself be a directory); `to_string` counts the
Content-Length headers that go out. `asked` and `reply` are history variables.
**UdpExchange.** Datagrams are numbered by a history variable
(`round`), which the programs do not have. The network may lose them, and deliver
one of each client in `MayStray` a second time; the recvfrom() of these clients
may also fail, after which the loop prompts again. `astray` remembers the clients
that either has happened to. A sendto() that fails is a loss at the server
(`lost`), and at the client a prompt more.

**HttpClients.** A unit is the least that `send()` or `recv()` moves. `wire` is
what has gone out on the current connection, `given` how much of its response
the server has sent; the units in the buffers carry the number of the connection
they came on, so that what an earlier response left behind can be told apart.
05 has actions of its own (`SendWhole`, `SendWholeFails`), because it sends from
the start of the request each time and tests the wrong variable; 07 copies into
the buffer of `main()` and calls itself (`Redirect`); `LeaveWith` is every way
out that releases. With a full buffer `recv()` is asked for 0 bytes: it waits
until anything has arrived, and returns 0 (`RecvEnds`). **HttpExchange** is the
abstract specification: on one connection at a time the request goes out once,
from its start, then the response is received in order, and nothing is taken
from an earlier connection. 06, 07 and the HTTPS client implement it; 05 does
not.

**Curl.** The callbacks run inside a perform call and nowhere else (`InPerform`):
for the multi handle in the thread of `main()`, for the others in their own.
`transfer` and `page` are libcurl's and the server's side. `StartThread` may
throw, which ends the process. **Broadcast.** On each host `main()` and two
threads, each at its place; `air` holds the messages under way, one per pair of
hosts at most; `typed` is what the next `fgets()` will find. A failed
`pthread_create()` leaves the `pthread_t` uninitialized, and
`pthread_detach()` of it may do nothing or crash; a set-up stores through the
result of calloc(), and crashes if that is NULL. **SetupPaths** is a table: for each
program its calls, what each acquires, and what the code gives back, in order,
if that call fails or the work ends; a small machine walks through it.

**EventLoop** is the abstract specification: one connection in service at a
time, taken up only when it has something to read (unless the wait itself
failed), and dropped only while it is served. `SelectServer` and `SslServer`
implement it (`ImplementsEventLoop` of each, with `Loop == INSTANCE EventLoop
WITH ...` as the refinement mapping); for the latter a connection whose handshake
is under way is still pending, and EventLoop says nothing of how long that takes.
It permits a server to turn away what it accepts; that 13 and the TLS server do so only
when the table is full is said by their `NeverForgets`.
`PollServer` does not implement it, and that is what `PollServerBlocked` shows.

Definitions under a comment `Variant:` are plausible mistakes, each of which
must break a property (`mutants` in `PROJECT.json`); no action uses them.

## 3. What is checked

| Run | Instance | Shows |
|---|---|---|
| MCPollServer | 4 clients, 3 entries, fds 3..6, poll() and accept() may fail; symmetry | `SlotsSound`, `OneExchange`, `SurvivesItsClients`, `NeverForgets` |
| PollServerLive | 3 clients (one eager), 3 entries, fds 3..5 | `MonitoredAreServed` |
| PollServerBlocked (violation) | 3 clients | `NoBlockedRecv` fails: stale `revents` |
| MCSelectServer | 3 clients (one eager), 2 entries, fds 3..6, select() and accept() may fail; symmetry | `TablesAgree`, `LoopGoesOn`, `ImplementsEventLoop` |
| MCHttpServer | 3 clients, 3 entries, fds 3..6, any initial `revents`, three requests that come in part, accept(), poll() and the file system may fail; symmetry | `SlotsOpen`, `OneReplyThenClosed`, `ReplyFitsRequest`, `NeverForgets` |
| HttpServerAnswers (violation; module MCHttpServer) | 2 clients, none idle | `RequestsAnswered` fails: entries with POLLIN are passed over |
| ThreadServer (module MCTwoClients) | 09: 2 clients (one eager), 2 threads, 2 cells, calloc() and pthread_create() may fail | `OwnConnection`, `CellsHaveOwners`, `AskersAnswered` |
| MCTwoClients | one of 08, 11, 12, TLS: 2 clients (one eager in 08 and 11), fds 3..5, room for both; in 11 accept() may fail, 12 has empty lines, TLS records in parts | 11: `OneClientIn11`, `SendsIn11`, `AnsweredIn11`; 08: `LeftIn08`, `AcceptedIn08`; 12: `AnsweredIn12`; TLS: `ReadInTls` (each a property of the server's own module) |
| MCSslServer | 3 clients (one eager), 3 entries, records in parts, handshakes that are none, accept() and poll() may fail; symmetry | `TablesAgree`, `NoStaleRead`, `SurvivesItsClients`, `NeverForgets`, `ImplementsEventLoop` |
| Datagrams (module MCExchanges) | 10: 2 clients, 2 lines each; 14: 2 hosts; losses in both, in 10 also one datagram that comes twice and a recvfrom() that fails, at one client | 10: `DatagramsSound`, `AskersAnswered`; 14: `PeersAreHeard`, `QuitEnds` |
| SetupPaths (module MCExchanges) | 01, 02, the 12 programs of 08 to 13 and the HTTP server, any one call failing | `ReturnsClean`, `ReleasedOnce` |
| Fetchers (module MCExchanges) | 05, 06, 07, HTTPS: request of 2 units, buffer of 3, responses up to 4, 2 redirections, 2 pages; libcurl: 2 urls, pages of up to 2 pieces | clients: `LastHopIsReturned`, `ConnectionsBounded`, `ImplementsExchange`, `ClientsEnd`; libcurl: `FilesAreWhole`, `LibraryOutlivesTransfers`, `ExamplesEnd` |

The type invariant of a module is the first conjunct of its principal invariant:
`SlotsSound`, `TablesAgree`, `SlotsOpen`,
`CellsHaveOwners`, `OneClientHeld` (`OneClientIn11`), `OnlyTheGoneAreLeft` (`LeftIn08`), `DatagramsSound`,
`ReturnsClean`, `LastHopIsReturned`, `FilesAreWhole`.

**Bounds.** *Clients*: each connects once, so the number bounds the connections
of a behaviour. The table algorithms move the last entry into a gap, so two
client entries, a client in between and a newcomer are the smallest case in which
a wrong move shows; three entries (the listening socket among them) with a
client more than fits give the full table as well. *MaxFd*: as many descriptors
as clients, so that an overfull table is reached; with one fewer (MCPollServer)
accept() also runs out of them. Numbers are reused as clients leave. *SendBuf* = 1: the buffer
fills at once; in MCHttpServer it is 2, so that a second response would not be
held up by the first. *MAX_CONNECTION* is 2 for the HTTP server, which leaves one
entry for a client; it is checked with 3, where entries are moved as well. *MaxInbox* = 1 or 2: what an eager client has under way; with 2,
one recv() may return two commands. *MaxRounds* = 2: an answer to the first line
can be late for the second. *Messages*: one command that is answered and one
that ends the connection. *HttpClients*: the request takes two sends, the
response three receives or more than fits the buffer; two pages and two
redirections let an earlier response be longer than a later one, within one
call and between two. *Curl*: with two urls one transfer may fail, be slow or
not have started while the other ends. *Hosts* = 2: a host hears itself and one
other, and pairs do not interact. The slots are indices, so no constant stands for a
number with overflow.

**Fairness.** `WF(ServerStep)` - for the threaded server one per thread - says
that the scheduler runs a process that is not blocked; failures that nobody owes
(`PollFails`, accept() failing for lack of memory) are left out of it.
`ClientFairness` says that a client blocked in recv() returns when there is
something to return. `UsersLeave` says that every user leaves some day. It is
an assumption on users, not on code, and is used only where the property says
"once users leave": a server that serves one client at a time, or blocks in
recv() on a silent one, cannot promise more. `AskersAnswered` of the threaded
server and `CommandsAreAnswered` of the select() server need none of it. In
`SslServer` it is `WF(Leave)`: SSL_accept() waits, without a limit, for a client
that does not start its handshake. `HttpServer` assumes instead that no client is idle, to
show that requests go unanswered all the same. `HttpClients` assumes that a
server, which is asked for `Connection: close`, does close some day
(`WF(ServerEnds("fin"))`): no client has a time limit. For the same reason
`Curl` assumes that a transfer ends if perform is called often enough; that is
strong fairness, because between two calls of `curl_multi_perform()` no
transfer can end. `Broadcast` assumes, as every claim about a lossy network must,
that what is sent again and again is not lost for ever: strong fairness of a
successful `sendto()` and of `RecvFrom`. A user is never assumed to type.

**Deadlock** is not checked: a server whose clients have all left waits for
ever, and one that was killed has stopped.

## 4. What is proved

TLAPS proves the following for every value of the constants that the named
assumptions allow: any set of clients, any number of descriptors, entries,
threads and cells, any buffer size. The assumptions only say that a constant
has its type and is not degenerate (`SocketsAssumption`, `ClientAssumption`,
`PollAssumption`, `SelectAssumption`, `ThreadAssumption`, `SslAssumption`,
`HttpAssumption`, `HttpClientsAssumption`, `FetchersAssumption`,
`UdpAssumption`); the runs evaluate all of them. In each module `Invariance` is
`Spec => []IInv`: `IInv` holds at first (`InitIInv`), and for each of its
conjuncts a lemma `Next...`, with a step for each action, shows that it is kept.
The other theorems follow from it. The programs that `MCTwoClients` and
`MCExchanges` instantiate have invariants with names of their own (`Inv08`,
`Inv11`, `CurlInv`, `DatagramInv`, `SetupInv`) and the lemmas and theorems that go with
them (`Init08`, `Next08`, `OneThreadInvariance` and so on). These invariants and
their parts stand in the proof modules; the modules of the programs have the
properties only.

| Module | Theorems | State |
|---|---|---|
| PollServerProofs | `TypeCorrectness`, `SlotsAlwaysSound`, `ExchangesOneAtATime`, `ServerSurvives`; `NobodyIsForgotten` | invariants; action property |
| SelectServerProofs | `TablesAlwaysAgree`, `LoopAlwaysGoesOn`, `ExchangesOneAtATime`; `ImplementsLoop` | invariants; refinement of EventLoop |
| ThreadServerProofs | 09: `ConnectionsAreOwn`, `CellsAlwaysHaveOwners`; 08: `OnlyTheGoneAreEverLeft`; 11: `OneClientAlwaysHeld`, `SendsAlwaysGoThrough`; 09, and 08 with 11: `NothingAskedIsLost`, `NothingAskedIsLostByOne` | invariants |
| SslServerProofs | `TablesAlwaysAgree`, `NoReadIsStale`, `ServerSurvives`, `NothingAskedIsLost`; `NobodyIsForgotten`; `ImplementsLoop` | invariants; action property; refinement of EventLoop |
| HttpServerProofs | `SlotsAlwaysOpen`, `AnsweredOnce`, `RepliesAlwaysFit`; `NobodyIsForgotten` | invariants; action property |
| ExchangeProofs | clients: `LastHopAlwaysReturned`, `ConnectionsAreBounded`, `ImplementsHttpExchange`; libcurl: `FilesAreAlwaysWhole`, `LibraryAlwaysOutlives`; 10 and 14: `AnswersAlwaysMatch`, `AskedStaysUnderWay`; set-ups: `SetupsReturnClean`, `SetupsReleaseOnce` | invariants, refinement of HttpExchange; invariants |

The lemmas that the servers share are in `TcpSocketsProofs` (what accept(),
recv(), send() and close() do to descriptors and streams: a server step is a
`SocketStep`) and `CommandClientProofs` (what a client does, and `ExchangeOf`:
of command, service and unread reply a connection of run_client has one at
most; `AnswerDue`: while it waits, it has one).

**Two facts that all servers share.** A close() frees the descriptor of one
entry; that it is nobody else's is known only if no two entries name the same
connection (`OneServerEnd`). And a send() to `run_client` cannot block or raise
SIGPIPE because of where the client is in its loop; `ExchangesSound` says that
case by case, and needs `StreamsSound`: data waits on attached connections only,
and a client end is closed only if that client is done.

**Nothing asked is lost.** That a client which waits is answered is a liveness
property, and only TLC checks it. But such a property can fail in two ways: the
server does not come to what is there, or there is nothing to come to. The second
is safety, and is proved of every server of commands: while a client waits for the
answer to a line that is not empty, and its connection has a server end, the
command is unread, the server has it in hand, or the reply is unread (`AnswerDue`;
`OneExchange` in PollServer and SelectServer, `AnswersDue` in 09, `DueByOne` in 08
and 11, `RecordsDue` in the TLS server, `AskedUnderWay` in 10, where a loss is
excepted). It holds however entries are moved, descriptors, cells and threads
reused, or a reply dropped because the buffer is full (there is one in it then);
and it holds also where the server stops coming to it, as 13 does when it is
blocked. A step moves what is due to the next of the three places, and the proofs
show that it does so for the client whose step it is and leaves the others
theirs; `StreamsSound` gives that a `send()` to a client that waits meets an open
peer, so that the reply does go out.

**poll() server.** `SlotsSound` is nearly inductive. That an accept stores a
descriptor which is in no entry follows from it (the descriptor was free), and
`ServiceInRange` adds that the entry in service is a monitored one.

**select() server.** `TablesAgree` does not say that the listening socket stays
monitored, nor that the others in `master_set` are connections; `TablesSound`
adds both. For `LoopGoesOn` it also needs that what is left in `read_set` and
not yet visited (`Unvisited`) has something to read: a step of the scan reads
its own descriptor only, and what a peer sends or closes never takes readability
away. After a failing select() that is not so, and there `blind` is true in
EventLoop. Which action of EventLoop a step of the server maps to
depends on whom it has in service before and after (`TakenUp`,
`DropImplements`).

**Threaded server.** A thread is tied to its client in two ways, by its cell
and by the number in it. `ThreadsSound` says for every thread between its
creation and its end that the cell is its own and that the number still means
its connection: nobody else closes it, and while it is open accept() does not
give it again. After the close(), before the free(), the number may be another
client's already; no thread uses it then. A cell without a thread (`Orphan`)
holds the connection of a client which no thread could be created for;
`CellsSound` says where it comes from, and `CellsHaveOwners` follows.

**Sequential and non-blocking server.** The theorems about them are about
`MCSpec` of `MCTwoClients`, whose initial state says which program runs. `Inv08` says that a connection which 08 holds and does not
serve is that of a client that is gone (`Gone`: its end is closed and nothing of
it waits to be read), which the paths that skip the close() give, and which no
later step takes back. `Inv11` says that between two accepts 11 holds nothing,
and `ExchangeOf` bounds what lies on the connection in between; without it
nothing would keep a `send()` from finding the buffers full. The client program of
11 sends its time, whence the hypothesis `"time" \in Messages`.

**TLS server.** `NoStaleRead` has the longest argument. 13 has almost the same
loop, and there an entry can be judged by the `revents` of another one. Here
poll() is given all `MAX_CONNECTION` entries, so that it clears `revents` of the
unused ones; a connection is accepted at entry 0 only, before any drop of the
same scan, so that it meets a cleared entry; and the scan does not look again
at a slot into which a drop has moved the last entry (`ReventsSound`).
`SlotsSound` covers the entry whose handshake is under way, which is in the arrays
before it is counted (`Used`). For `ImplementsLoop` the end of a handshake is
`Admit` of EventLoop, which may consume what the client sent first, and
`ReventsSound` gives that what the scan takes up is ready (`TakenUp`), so that no
step is `blind`.

**HTTP server.** The handler may close the listening socket itself, so that
`SlotsOpen` can say nothing of entry 0 in particular; that `fds` is never
empty all the same rests on `ScanSound`: the scan starts only if some entry has
`revents`, and the handler runs only for entries without, so that what it drops
is never the last one.
`OneReplyThenClosed` and `ReplyFitsRequest` need the history of each exchange
(`ExchangesSound`): the request in the stream, then the response in service, is
that of the client's own `asked`; `AnswerFits` is the lemma on `Parse`, `Route`
and `to_string`.

**HTTP clients.** `HopsSound` counts connections by page and redirection: with
`open \subseteq 1..conn` it bounds how many are open. `RequestSound` and
`ResponseSound` say that `wire` is the request up to `sent_bytes`, and
`http_response` what this connection brought, in order, up to
`received_bytes`; under the refinement mapping each `Send` is then a step `Ask`
of HttpExchange, each `Recv` a step `Get`, and every way out a step `End` or a
stutter (`SendAsks`, `RecvGets`, `LeavingEnds`). 05 maps to stutters. The
response buffer holds units with the number of their connection, so that
`LastHopIsReturned` is about older bytes too.

**libcurl examples.** `StagesSound` ties the place of `main()` to the program,
`HandlesSound` the handles to the place (threads have ended when the library is
cleaned up), and `TransfersSound` says that data is whole when a transfer ends
well, and that in the multi example none is running any more once the loop has
been left with `running_handles` 0. The set of urls is any finite set that
contains the one of basic_curl.cpp.

**Datagrams.** `AnswersMatch` speaks of answers under way only, and is not
inductive: nothing in it forbids an earlier line that is still on its way to the
server. `ExchangeSound` covers the three places where a datagram can be, the two
directions and the server between `recvfrom()` and `sendto()`: a client that
prompts has none of its own at any of them, a client that waits has its last line
or the answer to it, at one of them. So an answer is lost with its client waiting
for ever, and never taken for the next one. A client in `astray` is excepted, in
the property as in the invariant: when its recvfrom() failed, it prompts while the
answer is on its way, and when the network delivered a datagram twice, the second
answer meets the next line; the program has nothing to tell them apart with.
Losses, and what happens to other clients, need no exception. `AskedUnderWay` adds
that the line or its answer is at one of the three places unless a datagram of that
client was lost: the server answers every request but the empty line, and to its
sender.

**Set-up and release.** `SetupPaths` is a table, and a theorem about the programs
that are in it today would be an evaluation. What is proved is the rule
(`SetupInvariance`): if each way out of a program lists what it has acquired up to
there and does not keep, each once (`Balanced`), then on every path what is owned
is what was acquired, and what is still to be released is what is still owned
(`SetupInv`). `TidyBalanced` goes through the fifteen programs for which this
holds, with two lemmas for what they have in common (`SocketSetup`: the set-up of
a socket; `OneCall`); `SetupsReturnClean` and `SetupsReleaseOnce` follow for any
selection of them. The others leak (section 5).

*Model-checked only.* Liveness (all `~>` properties) is out of the provers'
reach, and so is `ENABLED`, on which fairness depends. Induction over data is
out of reach too: nothing here computes recursively, and no module declares a
RECURSIVE operator. Every invariant and every action property of a passing run,
and the three refinements, are proved.

## 5. Known divergences

Where the code does not do what `src/README.md` says, a run under `expect:
violation` or one of the following configurations has TLC produce the behaviour
(`tlc -config X.cfg M` must report the violation; with `-continue -workers 1`
it reports each of several):

| Configuration (module) | What happens | Where | What the documentation says |
|---|---|---|---|
| PollServerBlocked (PollServer) | A moved or new entry is judged by the `revents` of the one before it: recv() blocks on a silent client, and with it the server | 13:163 | README:1478 "handles events as they occur" |
| HttpServerAnswers (MCHttpServer) | Requests that poll() reports are passed over | http_server.cpp:52 | README:1712 "processes the requests, and sends back an appropriate response" |
| PollServerOverflow (PollServer) | Past `MAX_CONNECTION` an accepted descriptor is neither stored nor closed | 13:152 | README:1497 "Each new connection is added to the pollfd array" |
| PollServerEmfile (PollServer) | When accept() fails, `continue` skips the clients; poll() reports the listening socket again, for ever | 13:140 | README:1478, as above |
| SelectServerOverflow (SelectServer) | The same with `fds_client` full | 12:161 | README:1397 "Adds the new client socket (sock_client) to master_set for monitoring" |
| SelectServerEmptyLine (SelectServer) | After an empty line the client waits for a reply to nothing | 12:311 | README:1002 "Sends user input to the server and waits for a response" |
| HttpServerReplies (MCHttpServer), `KeepsListening` | A poll() that reports only a client makes the handler run on the listening socket, which is then closed | http_server.cpp:77 | README:1712 "It listens for incoming connections" |
| ThreadServerLeak (ThreadServer) | A thread whose client hangs up ends without close(); descriptors run out | 09:47 | README:744 "close(): Closes the socket, releasing system resources." |
| SequentialServerLeak (SequentialServer) | The same in the sequential server | 08:126 | README:744 |
| NonBlockingServerStops (NonBlockingServer), `PendingAreAccepted` | recv() = 0 changes nothing: the server stays with a dead client | 11:158 | README:1276 "allows the server to accept multiple client connection at a time" |
| NonBlockingServerStops, `KeepsRunning` | ECONNRESET ends the server | 11:155 | README:1280 "continuously checks for connections and data" |
| SslServerPartial (SslServer) | SSL_read() = -1 with SSL_ERROR_WANT_READ is taken for the end of the client | ssl_client_server.c:271 | README:2503 "the SSL connection is ready to send and receive encrypted data" |
| UdpExchangeEmptyLine (UdpExchange) | A datagram of 0 bytes counts as a failure and is not answered | 10:94 | README:1152 "Send request and wait for response" |
| SetupPathsLeaks (SetupPaths), `ReturnsClean` | 04, 05, 06, 14 and the TLS and HTTPS clients leave a socket, an address list or a cell behind when a call fails; in 07 a followed redirection does | https_client.c:108, 14:55, 07:140 | README:744 |
| SetupPathsLeaks, `ReleasedOnce` | The TLS server closes its listening descriptor twice | ssl_client_server.c:313, 320 | README:497 "no longer refers to any file and may be reused" |
| SetupPathsLeaks, `ShutdownReachesPeer` | SSL_shutdown() comes after close() of its socket | ssl_client_server.c:460, https_client.c:188 | README:2515 |
| HttpServerReplies, `EveryReplyFits` | A request that comes in two segments is routed by the part of its path that has come, and may be answered with another page and status 200 | http_connection_handler.cpp:23 | README:1712, "an appropriate response" |
| HttpServerReplies, `OneContentLength` | Every response with a body carries Content-Length twice | http_response.cpp:36 | none |
| HttpClientsStale (HttpClients), `RequestOnce` | After a partial send() 05 sends the request from its start again | 05:65 | none |
| HttpClientsStale, `PrintedIsFresh` | The end of an earlier, longer response is printed behind a shorter one, and the whole of it when a request fails | 07:123, 159 | none |
| CurlLeftovers (Curl), `EveryFileIsWhole` | curl_multi_handle.cpp writes a file for a transfer that failed, with the part that has come | curl_multi_handle.cpp:83 | none |
| CurlLeftovers, `HandlesReleased` | No thread of curl_multithreaded.cpp cleans up its easy handle | curl_multithreaded.cpp:75 | none |
| BroadcastEof (Broadcast) | At the end of stdin the prompt loops without waiting | 14:183 | none |

## 6. Not modelled, and why

- The text of messages, except where a length or a comparison decides what
  happens next. A receive buffer holds its commands, not their bytes: the
  terminator at `buffer[received_bytes]` is out of bounds only for a recv() that
  fills the buffer, which `OneExchange` excludes for `run_client`, whose lines
  are shorter. Likewise a full response buffer of 07 has no terminator for
  `strstr()`; `Redirected` looks at what was received.
- Calls that only report (getnameinfo, printf, setsockopt, fcntl), and signals
  other than SIGPIPE. 00 and 03 consist of such calls.
- Short writes of the servers: `send()` of `MESSAGE_SIZE` bytes is taken whole.
- Cryptography: a TLS record arrives, in one or two parts, or does not. A record
  longer than `MESSAGE_SIZE`, which takes two calls of SSL_read(), is not modelled:
  run_client sends shorter lines. Alerts that the library sends of its own are not
  modelled either.
- What sets accept() failures apart: that one fails for want of descriptors, of
  memory or otherwise makes no difference to the code, and a connection that ends in
  the queue stays there until it is accepted and found closed.
- In `SetupPaths`, the connections that a server accepts: the table is about what is
  acquired before the work begins. What is accepted later, and is still open when
  a loop ends, is in the `files` of the server's own module, and goes with the
  process.
- 08's client asks again after an empty line (08:236), as no other does. No run
  with 08 has empty lines, and `CommandClient` is run_client without that branch.
- `select()` on descriptors past `FD_SETSIZE`: the programs hold a few.
- libcurl itself, and the progress callbacks, which only print.
- Logging, build files, certificates, pages.

## 7. Plan

All components with state of their own are modelled, and every safety property
of a run is proved. What is left is liveness, whose safety half is proved
(section 4); the other half, that the server comes to what is there, stays with
TLC on instances of two and three clients. What could be added is an abstract
specification of a server that answers, with the fairness it needs, implemented
by 09 and 12 under theirs.
