# A TLA+ model of neblina2

neblina2 is a C++ library for TCP and TLS servers: a `Server` waits on a
`Poller`, hands each event to a `ThreadManager`, and each client's `Session`
runs in one of its threads over a `Connection`. This directory holds TLA+
modules of its parts, TLC configurations that check them on small instances,
and TLAPS proofs, for every value of the constants, of every safety property those
runs find to hold.

    tlc -config ServerSafety.cfg MCServer      # one run
    tlapm ServerProofs.tla                     # the proofs about the server

`PROJECT.json` lists components, runs, mutants, the source lines behind each
definition, findings, hazards and theorems. Operators whose name ends in a
fault (`MayErase_unlocked`, `Finished_oneshot`, ...) are not part of any
specification: each is a plausible mistake in the operator defined after it, and
shows that the property it is paired with in `PROJECT.json` would notice.

## Inventory

| Component | State | Operations | Calls / is called by |
|---|---|---|---|
| `Server` (server.cc, server.hh) | `running_`, the listener `fd_` | `iterate`, `run`, `stop`, `stop_on_SIGINT`, destructor | waits on Poller, calls ThreadManager, `accept` and `create_connection` |
| `Poller` (linux: epoll, bsd: kqueue, win32: WSAPoll) | the kernel's registrations and ready list; on Windows a vector of descriptors | `wait`, `add_client` | the kernel; called by Server |
| `ThreadManager` | `threads_` | `add_session`, `remove_session`, `data_available` | routes by `fd % threads_.size()` |
| `ThreadMulti` | `sessions_`, `queue_`, `mutex_`, `cond_`, the worker `thread_` | the three calls, the worker's loop, destructor | called by the server's thread, runs sessions in the worker |
| `ThreadSingle` | `sessions_` | the three calls | runs sessions inside `data_available` |
| `Session`, `Protocol` | a `Connection` | `iteration`: recv, process, send | called by the thread |
| `LineSession` | `buffer_` | `iteration`: cut into lines, process each | the same |
| `TCPConnection`, `SSLConnection` | descriptor, `SSL*` | `recv`, `send`, closing destructor | the kernel, OpenSSL |
| `TCPServer`, `SSLServer` | listener, `SSL_CTX` | `create_listener`, `accept`, `create_connection` | the kernel, OpenSSL |
| `Client`, `TCPClient`, `SSLClient` | descriptor, `SSL*`, the static `ctx_` | constructor, `send`, `recv`, `recv_spinlock`, `recv_future` | the kernel, OpenSSL |
| load test | options, results, the server process | `run_server`, threads that make a client per attempt, `kill_server` | Client; the load test's server in a process of its own |
| `Init`, log, socket utilities, demos | - | start-up, output, a few lines each | - |

What is hard in this code, and what makes it correct:

- **Descriptor numbers are reused.** Events, queue entries and sessions all name
  a client by its descriptor. A session must only talk to the client it was made
  for, and a stale event must not end a new client.
- **Two threads share the sessions.** The server's thread erases sessions while a
  worker iterates them.
- **Edge-triggered events.** epoll reports a change once; a session that does not
  take everything, or data that come before the registration, must not be lost.
- **A condition variable without predicate,** members that are destroyed before
  the thread that uses them is joined, and a destructor that sleeps 15 ms.
- **Streams** that recv() cuts anywhere, partial sends, timeouts with half a
  response in hand.
- **Stale entries.** The Windows poller keeps every descriptor it was ever given.
- **Failures:** a client that resets, or does not speak TLS, makes recv(), send() or
  the constructor of its connection throw where nothing catches it; accept() may
  fail; each call of a client's constructor and of a server's may fail.
- **Two processes.** The load test connects to, and ends, a server that may be
  anywhere in its start.
- **stop()** comes from a signal handler or another thread at any moment.

The full list, each at its line, is under "hazards" in `PROJECT.json`.

## Modules

    Sockets ----> Poller ---------+
        \                         +--> Server --> MCServer
         `-----> ThreadManager ---+      | `----> ServerProofs --> ServiceProofs
    Service <------(refines)-------------+
    Thread <--(refines)-- ThreadMulti --> ThreadMultiProofs
    LineSession --> MCLineSession
         `--------> LineSessionProofs <-- SetInduction
    Transfer --> TransferProofs
    ClientSetup --+--> LoadTest --> MCLoadTest
    ServerStart --+       `-------> LoadTestProofs

- **Sockets**: clients and kernel. `conn` is the open-file table, `backlog` the
  listen queue. Stream contents are counted (`sent`, `rcvd`): TCP delivers in order,
  so counts say which units. A unit is a byte for TCP, a record for TLS. The way back has
  two counts, because send() repeats its data after a partial ::send: `written` is what is
  on the wire, `replied` the units whose send() has returned. `Chunk` is `Connection::recv`,
  `SendReturns` what one ::send may return (any part of the data, or -1 for a reset and for
  EAGAIN), `accept` is `TCPServer::accept`. What the
  kernel does is modelled from how the library uses it and marked external. A
  reset becomes visible to the server in the step the client makes it; a recv()
  that still succeeds then stands for one that came before the reset arrived.
  The clients in `Plain` do not speak the server's TLS: SSL_accept throws out of
  iterate() if their bytes are there (`AcceptFails`), and otherwise recv(), which
  continues the handshake, takes them and returns nothing or throws (`Delivered`,
  `RecvFails`).
- **Poller**: the three files behind one interface. `backend` says which was compiled;
  `interest` holds the registrations (on Windows the vector `fds`), `ready` epoll's
  ready list. epoll reports only descriptors with an edge; kqueue and WSAPoll report
  whatever is pending. `wait` returns at most `EVENT_BUFFER_SZ` events in any order, and
  unregisters a hung-up client, as the code of epoll and kqueue does. With WSAPoll there
  is no limit, an entry may give two events, the order is that of the vector
  (`Precedes`), and neither a hang-up nor a close takes an entry out: a closed
  descriptor is reported as POLLNVAL in every wait().
- **ThreadManager**: per thread `sessions`, `queue`, the descriptor `busy` whose
  session is iterating, what its recv() `got`, and the `pos` of its send(). iteration()
  is recv, then one step per turn of the loop of send() (`IterationSend`, the first with
  process()), all under the mutex; each turn gives ::send the whole data again, and the
  loop ends when `pos` has reached their size (`SendDone`). A call of the server's thread
  waits for `Unlocked`. `sessions` remembers which client a session was made for, which the
  code does not know and the properties ask about.
- **Server**: iterate() as the steps wait, accept and create_connection,
  add_session, add_client, data_available, remove_session; run(), stop() and the
  destructors. `alive` becomes FALSE when an exception leaves a thread.
- **Service** is what a client sees of a server, whatever poller and threads it has:
  a connection is taken from the listen queue once, answered only while it is served
  and only what it asked, and let go only after its client left or when the listener
  has been closed. What is written to a client is counted apart from what is answered: at
  least as much, always less than twice what it asked, and nothing while no answer is
  due. (Which units are repeated is Transfer's matter.) Server implements it under
  `StatusOf`, which reads a client's status off `peer`, `backlog` and `conn`. A crash is a server that takes no more steps.
- **Thread** is the interface as ThreadManager uses it: calls are atomic and
  exclude iterations. **ThreadMulti** is threadmulti.cc with its mutex, condition
  variable (waits of 10 ms, lost notifications, spurious wake-ups) and the stages
  of its destruction, and implements Thread under the mapping `busy <- it`,
  `over <- mpc = "destroyed"`.
- **LineSession**: the loop of iteration(), byte for byte, for either value of
  `include_separator`, and a client that may or may not wait for its answers
  (`paced`). `Lines` is the reference: cut the stream after each separator. The `i` at
  which a search starts may be behind the end of the shortened `buffer_`; find() then
  gives npos.
- **Transfer**: Connection::send (TCP and TLS; TCPClient::send and SSLClient::send
  are the same loops) into a bounded wire, and Client::recv_spinlock out of it: over
  TCP a recv() returns any part of what is there, over TLS the rest of one record.
  recv_future is a call for more bytes than ever come.
- **ClientSetup**: the constructors of TCPClient and SSLClient in several threads, with
  every call failing or not. If socket_mark_as_nonblocking() throws, no Client owns the
  connected socket and it stays open; `leaked` counts these.
- **ServerStart**: the process of the load test's server from execlp() through
  create_listener (for each address socket(), bind() and the close_socket() after a bind()
  that failed; then listen()) and the making of the poller, the threads
  and the TLS context, to run(); every call may fail, and a signal may end it anywhere.
  The kernel accepts connections from listen() on, before anybody serves them.
- **LoadTest**: loadtest.cc on top of the two: options, run_server and kill_server in the
  POSIX and the Windows variant, the threads, the verdict. Another process may hold the
  port (`foreign`), and then the load test's own server cannot bind.

## Runs

| Run | Instance | Shows |
|---|---|---|
| server_safety | epoll, 3 clients, descriptors 4, 5, 6, two workers (4 and 6 share one), resets, 2 events per wait | `SessionOwnsFd`, `NoLeakedDescriptor`, `IteratingSessionExists`, `NoMissedEdge`, `CleanExit`, `OnlyLeaversClosed`, `ImplementsService` |
| server_liveness_epoll | epoll, 2 clients of one worker, 2 units each, recv takes 2 | `ImplementsService`, `RequestAnswered`, `LeaverReaped`, `StopEnds` |
| server_liveness_level | kqueue or WSAPoll, Threads::Single, recv takes 1 of 2 units, one client may reset and speaks no TLS | `SessionOwnsFd`, `NoLeakedDescriptor`, `RequestAnswered`, `LeaverReaped` |
| server_windows | WSAPoll, Threads::Single, two clients, one descriptor | `OnlyLeaversClosed` is **violated** |
| epoll_stall | epoll, recv takes 1 of 2 units | `RequestAnswered` is **violated** |
| thread_multi | 2 descriptors, queue of 3 | `NoUseAfterDestroy`, `Implements`, `QueueServed`, `DestructorEnds` |
| line_session | CR LF, one other byte, 7 bytes | `Conservation`, `WholeLines`, `OnlyShorterSkipped`, `PacedLineByLine` |
| line_session_pipelined | the same | `LineByLine` is **violated** |
| transfer | 3 responses of 2 bytes, room for 3, reads of 0, 2, 3 or 7 bytes | `SentOnceUnlessPartial`, `ExactLength`, `WholeResponses` |
| transfer_partial | the same | `SentOnce` is **violated** |
| loadtest | 2 threads, 2 attempts, 2 addresses on either side, up to 2 options | `VerdictTrue`, `AllRecorded`, `NoSocketLeft`, `ContextLoaded`, `OneListener`, `Ends` |
| loadtest_options | the same | `RunServerHonoured` is **violated** |

The five violations are disagreements between the code and its own tests, demos,
comments or help text; "findings" quotes them:

1. *epoll_stall*: with EPOLLET and one recv() of 16 K per event, the rest of a
   longer request waits until the client sends again. Over kqueue, which is
   level-triggered, the same instance is answered.
2. *line_session_pipelined*: after erasing a line the search goes on at the old
   position, so a shorter line that follows is missed and later glued to the next.
3. *transfer_partial*: send() repeats the whole data after a partial ::send.
4. *loadtest_options*: `--run-server` is declared to require an argument.
5. *server_windows*: the entry of a closed descriptor is reported in the wait() that also
   reports a new client; NewClient is handled first, accept() returns the closed number,
   and the ClientDisconnected of the old entry closes the new client.

**Bounds.** `MaxSend`, `MaxQueue`, `MaxBytes`, `MaxResponses`, `MaxCalls`, `MaxArgs`
cap what is unbounded in the code. The safety run has more clients than any one
worker serves, lets a number be reused by a later client while an entry for the
earlier one is still queued, and lets a batch be shorter than the ready list;
`MaxQueue` = 4 is more than three clients of one message each can fill, so the
guard never blocks there. Requests of one unit make every ::send whole, so partial ones
are in server_liveness_epoll, where a response may have two units and go out as 1 + 1 or
1 + 2: `ImplementsService` is checked in both. In the safety run three clients are symmetric and a
permutation of them is sound; the liveness runs use no symmetry. Seven bytes hold
two CR LF lines and the start of a third in every cutting, which is what the
search's leftover position needs to go wrong. Three responses of two bytes through
three bytes of buffer give partial, whole and failing sends; a read of 7 asks for
more than is ever sent. Two addresses let the first fail and the second succeed, for
the clients and for the server.

In loadtest, `NoSocketLeft` allows for the sockets that socket_mark_as_nonblocking() threw
for (`leaked`), which the code does leave open, and `Ends` for the server of a load test that
an exception from send() or recv_spinlock() aborted, and for a handshake that never ends.
`OnlyShorterSkipped` bounds what line_session_pipelined finds: a line stays behind in
`buffer_` only if it is shorter than the one processed before it.

In server_liveness_level, `RequestAnswered` leaves out a client that the fault of
server_windows has dropped (`Dropped`), and, in both liveness runs, the clients that speak
no TLS. `NoMissedEdge` is about epoll only.

**Fairness.** `FairSpec` of Server: the server's thread and each worker take a step
when they can for ever: the operating system schedules both, wait() has a timeout
of 50 ms and the worker's wait_for one of 10 ms, so neither sleeps for good.
Nothing is assumed of clients. In the liveness runs `EVENT_BUFFER_SZ` is at least
the number of descriptors, as 64 is for few clients: which of more than 64 ready
descriptors are reported first is the kernel's choice, and no order is assumed.
ThreadMulti: the worker and the destructor are scheduled. LoadTest: main and the
threads are, and recv_spinlock ends by its timeout; the handshake is excluded,
since SSL_connect is retried without one. A signal that was sent arrives (`Killed`);
nothing is assumed of how fast the server starts, or whether it does.

**One timing assumption** is in `SleepEnds`: within the 15 ms that ~ThreadMulti sleeps,
a worker whose wait_for lasts at most 10 ms has left the wait and has the mutex
again (or is out of the loop). Without it (`SleepEnds_no_sleep`) the worker uses the
destroyed condition variable. `NoUseAfterDestroy`, `DestructorEnds` and the theorem about the
former say nothing about a worker that is held up for longer.

## Proofs

`ServerProofs` proves for any sets of clients and descriptors, any number of threads,
both thread classes and any sizes:

- `TypeCorrect`, `SessionsOwnTheirFd`, `NoDescriptorLost`, `NoIterationOnErased` and
  `ExitIsClean` over each of the three pollers, from the constants' assumptions alone;
- `EdgesNotMissed` from `Window <= RecvMax` as well: what a client sends ahead of complete
  replies fits in one recv(). epoll_stall shows the assumption is needed;
- `ClosedOnlyByLeaving` over epoll and kqueue. server_windows shows that it fails over
  WSAPoll.

`ServiceProofs` proves `ServerImplementsService`, the refinement of Service, over epoll and
kqueue and from the same invariant: one lemma per action says which step of Service it
is, or that it changes nothing a client sees. The bounds on what is written need an
invariant of their own, `Wire`, proved from `IInv`: between two send() calls the client has been
written at least what was answered and at most twice that; inside one, with `pos` less than the
response, `pos` units more (the last ::send before the loop ends adds at most a whole
response to them, so less than two responses in all). A thread whose `pos` is positive is
the only one that writes to its client, because the session that iterates stays in the map
and its descriptor open (`SendUndisturbed`, `OneSend`, `OnlySendWrites`). Over WSAPoll the dropped client of
server_windows is a step Service does not have.

None of the invariants is inductive alone. Even `TypeOK` is not: that recv() counts on
the stream of a client, not of "no client", needs the session that iterates to be in
the map and its descriptor open. The inductive invariant `IInv` adds: the open-file
table matches clients and descriptors one to one (`Matching`); registrations and
pending ClientDisconnected events are about live sessions, and such an event's
descriptor is no longer registered and its client has left (`Tracked`), which is why
the number cannot be reused before the event is handled; the client between accept()
and add_client() is not registered (`Joining`); what holds in each phase of the server's
life (`Phases`); and that counters are ordered (`Counts`). Of `Tracked` and `Joining`, what
says that a closed descriptor is forgotten is for epoll and kqueue only. There is one lemma
per action. `IInv` was checked with TLC before it was proved.

`ThreadMultiProofs` proves `TypeOK`, `NoUseAfterDestroy` and `Implements` (ThreadMulti
refines Thread) for any set of descriptors. The invariant ties the mutex to the
worker's position and says that after a stop request and the sleep the worker never
gets back to the lock.

`LoadTestProofs` proves `NoSocketLeft`, `ContextLoaded`, `OneListener`, `AllRecorded` and `VerdictTrue` for any finite set of threads, any number of attempts and
addresses and any options. (`LoadTestAssumption` says the threads are finite in number:
the report compares counts.) The invariant says what a thread owns from where it is
(`Holdings`: besides the leaked ones, one socket exactly between the socket() and the end
of its client), that the
thread which loads the CA store is the one that holds the mutex (`Context`), what main()
may rely on at each stage (`Stages`, `ServerLife`), and, for the two counting properties,
that the numbers in the report are the cardinality of a set (`Tally`): successes and
failures together are the attempts made, and the echoes that arrived are the successes
together with those some thread has not recorded yet. `AllRecorded` and `VerdictTrue` say this
of the last state only, when no thread is between an echo and its result.

`TransferProofs` proves `ExactLength`, `SentOnceUnlessPartial` and `WholeResponses` for any
size of response, room in the buffers and lengths asked for. What was received and what is
on the wire are one stream. As long as no ::send was partial, byte `o` of response `k` is at
the place `Size * (k - 1) + o` of it (`Streamed`). As long as no call has dropped bytes and
all were for a whole response, the values returned, followed by the buffer, are what was
received (`Split`), so that each value starts where a response does.

`LineSessionProofs` proves for any separator, any alphabet and any length of the stream:

- `Conservation`;
- `OnlyShorterSkipped`. It is inductive with `SearchPlace`: inside the loop `i` is 0 or where the
  last processed line had its separator, so that a find() that gives npos has searched
  from there on;
- `PacedLineByLine`, for the client that waits for its answers. The invariant `Pace` says
  why the search that goes on at the old position is harmless for it: what is on its way is
  at most one line with nothing behind it, and between a line and its answer nothing is;
- `WholeLines`, if no proper prefix of the separator is also its end (`Unbordered`). The
  default CR LF is such a separator, as every one of two different bytes is (`TwoBytes`).
  The hypothesis is needed: for a separator `\n\n`, TLC finds a stream in which the search
  from the middle of `buffer_` finds `\n\n` across the end of a line.

These rest on what `Framed`, the reference that cuts a stream into lines, does with any
sequence: that the lines of `s \o t` are those of `s` followed by those of `t` when nothing
is left over of `s` (`FramedConcat`), that find() finds the first line (`FirstLine`), that the
rest holds no separator (`NoSeparator`). They are proved by induction over sequences in the
form of `SetInduction`: a set that holds the empty sequence and is closed under Append holds
every sequence, which follows from the least element of a set of naturals. For this `Framed`
is a recursive function of the number of bytes, and Transfer says by index where a byte is.

`IInv` of each of the three modules was checked with TLC before it was proved (that of
LineSession also for the separators `\n\n` and `\n\r\n`).

Only model-checked: the liveness properties `RequestAnswered`, `LeaverReaped`, `StopEnds`,
`QueueServed`, `DestructorEnds` and `Ends` (fairness and ENABLED are out of the prover's
reach), and the five violations. Every invariant, action property and refinement of a
passing run is also a theorem.

## Not modelled

- Errors of epoll_create1, epoll_ctl, kqueue, WSAPoll, and of socket_mark_as_nonblocking in
  accept(), which throw and end the server, once it runs; at its start they are part of
  `SetUp`. In a client's constructor socket_mark_as_nonblocking may throw (`ConnectSocket`):
  the load test catches that.
- How much room a send buffer has in Server: every ::send may take any part, or fail.
  Transfer has the room.
- SSL_shutdown in ~SSLConnection, which writes a record and for a client that reset may end
  the process by SIGPIPE; what OpenSSL leaves unread after a failed handshake (`Delivered`
  takes all); an SSL_write of several records that fails after some of them (`TlsTaken` takes
  none; the process ends).
- A stop() during wait() whose batch is still handled: `Iterate` tests `running_` in the step of
  wait(), and a stop() after it has the same effect.
- `Init` (calls before main() without state of their own), the log, main.cc and the
  demos: output, or programs of a few lines. ya_getopt and doctest are vendored; what
  getopt_long does with the load test's options is in LoadTest.
- The contents of TLS, and of a protocol's process() beyond an echo.
- A queued connection that vanishes between wait() and accept(), on which the blocking
  listener would wait: in the model it stays queued until it is accepted.
- kqueue or WSAPoll with ThreadMulti: a readable descriptor is queued again on every
  wait() until a worker reads it, so `queue_` has no bound. The proofs cover the
  combination up to `MaxQueue`; the liveness run is with ThreadSingle.
- A thread count of 0, for which `fd % threads_.size()` divides by zero; a second server in
  one process, which the static `global_server` of stop_on_SIGINT would ignore.
- The numbers given with `--attempts` and `--threads`, and the times the load test reports.

## Plan

Done: the server with its three pollers and its threads; Service and the proof that the
server implements it; ThreadMulti and its refinement; LineSession; Transfer; the
constructors of clients and servers; the load test with its server process.

Proved: every safety property and both refinements, partial ::send calls included. Left is to tie the parts that are proved
apart closer together: that the server's threads, in the form ThreadManager gives them, are
the ones Thread describes; and properties of the load test's server that hold only once it
accepts connections.
