# A TLA+ model of the torchat daemon

torchat is a chat daemon: it accepts connections from a local client and, through
Tor, from other daemons; it keeps the messages of other peers until the client
asks for them, and relays the client's messages to other daemons. This directory
holds a model of it in TLA+, the TLC runs that check it on small instances, and
proofs checked by TLAPS. Paths below are those of the repository.

## Inventory

| part | code | state it keeps | operations | who calls it |
|---|---|---|---|---|
| event loop | `src/main.c` | `exitFlag`, `nConn`, `trackFd`, the epoll set, the batch of events | `event_loop`, `exit_from_signal`, `main` | the process |
| connection coroutine | `src/main.c`, `src/actions.c` | its descriptor, its deadline | `event_routine`, `parse_connection`, one function per command | the loop, `go()` per readable event |
| framing | `src/torchatproto.c` | a handle per coroutine | `torchatproto_mrecv`, `torchatproto_msend` | the coroutine, the relay |
| message store | `src/datastruct.c` | the hash table `head`, a linked list of messages per peer | `insert_peer`, `insert_new_message`, `get_unread_message`, `get_peer_list`, `clear_datastructs` | `store_msg`, `client_update`, `send_peer_list_to_client`, `main` |
| relay | `src/actions.c`, `src/socks_helper.c` | `struct domainData`, a thread and a socket per SEND | `send_routine`, `send_over_tor`, `open_socket_to_domain_thread` | the coroutine of a SEND |
| SOCKS5 client | `include/proxysocket.c` | `sock` and `initrecv` of each call, its place in the handshake | `proxysocket_connect` | the threads of the relay |
| JSON | `src/jsonhelper.cpp` | none | two conversions | `parse_connection`, every answer |
| configuration | `src/parseconfig.c`, `src/settings.c` | the settings | `parse_config` | nothing: not in `CMakeLists.txt` |
| logging, dates, start-up | `src/logger.cpp`, `src/util.c`, `src/main.c` | log files | | everywhere |

**How they meet.** One thread runs the loop and all coroutines of libdill, which
are cooperative: they change over at `yield()` and `go()` only. The loop yields
once after each `epoll_wait`, before it looks at the events; a coroutine yields
while a body is incomplete (`torchatproto_mrecv`) and while its thread dials
(`send_over_tor`). The threads of `send_over_tor` are real ones; each runs a
SOCKS5 handshake with Tor, and they share the descriptor table with the loop.
Clients, Tor and the network move at any time.

**What is hard in it.** Events are edge-triggered, so one that is dropped is
never repeated; events name descriptors, which can be closed and reused between
`epoll_wait` and the handler; frames can be cut by TCP; a coroutine has a
deadline that is looked at only when it runs; the coroutine and its thread
communicate through a pointer; the exit flag is set in the middle of a batch;
descriptors run out; the handshake has twenty ways out and compares the result
of `recv()` with an unsigned number; the lists are built from raw pointers.
`PROJECT.json` lists these hazards with their lines and the properties aimed at
them.

**What makes each part correct.** Store: each message is handed out once, oldest
first; the table lists exactly the peers with unread messages; no pointer leads
to freed memory and nothing that was handed out is kept. Loop: no wake-up is
lost, events go to the connection they were raised for, no connection is closed
for another's sake, the daemon stops when told. Coroutine: each frame is served
once at most, and a request that has an answer gets it eventually. Relay: the
client should be told what happened; as built it is not. Handshake: a connection
is returned only after Tor granted it, and every failure closes what it opened.

## Modules

| module | what it is | state and actions, and the code |
|---|---|---|
| `MailBox` | the abstract promise of the store | `in`, `out`; `Deposit`, `Withdraw`, `Close` |
| `MessageStore` | `datastruct.c`, `store_msg`, `client_update` | `table` is the uthash table in insertion order, `queue[p]` the list `p->msg`; `StoreMsg`, `GetUnreadMessage` (with `delete_message` and `delete_peer`), `ClearDatastructs`. `arrived` and `handed` are history variables. Implements `MailBox` |
| `MessageList` | the same on the heap | `heap[n]` is a node with its `next` and `prev`, `table` has the pointers `p->msg`; `StoreMsg`, `ClientUpdate`, `ClearDatastructs`. Implements `MessageStore` |
| `MCMessageStore`, `MCMessageList` | for TLC: bound the number of stored messages; symmetry of the nodes | |
| `MessageStore_proofs` | proofs about the store | |
| `MessageList_proofs` | the pointers: all safety properties, and that they implement the store | |
| `Daemon` | the loop, the coroutines, frames, commands, clients, the network, the dialling threads; `Store == INSTANCE MessageStore` | see below |
| `MCDaemon` | for TLC: the sets of requests and of cuts, symmetry | |
| `Daemon_proofs` | the daemon implements the store's specification, hence the mail box | |
| `DaemonConns_proofs` | types, answers, messages: each frame is served once, each message goes to one client | |
| `DaemonEvents_proofs` | events: none is lost, what can make one stale, what closes a request unread | |
| `Relay` | one SEND: the coroutine up to the loop it never leaves, its thread, descriptors | `routine`, `pointer` and `own` (the two variables `domainData`), `thread`, `sockOf`, `fds`; `Start`, `Turn`, `DialOpens`, `DialSucceeds`, `DialFails`, `ThreadExit` |
| `Relay_proofs` | no relay leaves its loop | |
| `Socks` | the handshake of `proxysocket.c` in the threads of the relays. Implements the thread of `Relay` | `at`, `sockOf`, `fds`, `conn`, `stream`, `initrecv`; one action per system call |
| `Socks_proofs` | all safety properties of the handshake, and that it implements the thread of `Relay` | |
| `Framing` | the lengths of frames: header, buffer, limit | `len`, `head`, `size`, `got`, `text`; `Msend`, `RecvHead`, `RecvBody`, `ParseConnection` |
| `Framing_proofs` | frames of any length | |

So there are three layers over the store (`MessageList` implements
`MessageStore` implements `MailBox`, and `Daemon` uses `MessageStore` by its
operations only) and two over the dialling (`Socks` implements the thread of
`Relay`; `Daemon` has the two steps of it that touch the descriptors).

Definitions marked as mutants in the modules are plausible errors in one
operation; they are used by no specification and serve to show that each
property can fail.

### `Daemon` in detail

`ready` is libdill's queue of ready coroutines; its head runs. One action is what
a coroutine does between two points where it may change over, or one system call
of the loop (each `accept()`, each event), so that clients, the network and the
threads move between them.

* `Poll` is `epoll_wait` and the `yield()` behind it (`main.c:197-198`). It may
  return with no event: its timeout is 120 s and a signal interrupts it. `edge`
  is what epoll has on its ready list; `Reported` filters it by the present state
  of each socket, as the kernel does.
* `ErrorEvent`, `ListenEvent`, `AcceptOne`, `AcceptFails`, `ReadEvent` are the
  branches of the `for` loop; the events of a batch are taken in any order.
  `AcceptFails` counts and tracks the descriptor -1, as lines 222-223 do before
  they look at it.
* `ReadEvent` is `go(event_routine(fd))`: the loop goes to the tail of the queue,
  the coroutine runs up to its end or first yield. `GoodHead` is
  `fd_recv_dimensionhead`, `RecvBody` one turn of the loop of
  `torchatproto_mrecv`, `Dispatch` the `switch` with the whole handler of the
  command, `Refuse` the path that closes the descriptor.
* `FieldMissing` is a body that is JSON but not a request: `nlohmann::json`
  throws in `convert_string_to_datastruct`, nobody catches it and the process
  ends, for all connections.
* `ResumeBody`, `DeadlineOver`, `ResumeRelay` are a coroutine that runs again.
* `NextRound`, `LeaveLoop`, `Shutdown`, `Interrupt` are the end: `LeaveLoop` has
  the cleanup of line 261, which passes `trackFd[i]`, a truth value, to `close`.
* `DialOpens`, `DialEnds` are what the threads of `send_over_tor` do to the
  descriptor table: `dial[c]` is the thread of the SEND on `c`, with the number
  it opened, which it closes when the dialling fails, whatever the number stands
  for by then.

### Abstractions of `Daemon`

* A frame is `HeadLen` = 2 units of header and `BodyLen` = 2 of body. Two is the
  least number that can be cut in the middle. A unit has no value: whether the
  bytes a `recv()` returned are the body from its start follows from how many
  were taken before (`taken`). The bytes of a body are never taken for a valid
  header of four digits; the JSON of the protocol begins with a brace.
* A connection carries one frame at most, as `main.c:114` says of the clients.
  `NOT_JSON` is a body that does not parse, `NO_FIELD` one that is JSON with a
  field missing or of the wrong type, `NO_HEAD` a header that is not four digits.
* `Reply` always fits the send buffer, so `fd_send` does not wait; a client that
  has closed answers it with a reset.
* Descriptors: 0 and 1, which the cleanup closes, and `FirstFd..MaxFd` for
  connections and dialling threads. The fixed ones between them (logs, listening
  socket, epoll) are left out. `socket()` and `accept()` take the lowest free one.
* A coroutine that waits for a body on a descriptor that became a thread's socket
  may take bytes there; a thread whose descriptor became a connection may write
  on it. Neither transfer of bytes is modelled, only who closes what.
* The socket of a thread is in blocking mode (`proxysocket.c:478`). An event of
  the batch, or a coroutine that waits for a body, may be left over on a number
  that became such a socket; its `recv()` then blocks the whole loop until Tor
  sends or closes. `ReadEvent` and `ResumeBody` on such a descriptor are the
  moment at which it returns, with any of its results. `MayBlock` are the states
  in which the next step is such a `recv()`, and the loop has no fairness there.
  Meanwhile a signal may set the flag and clients may act, as in any state; steps
  of the loop that the model allows in between (another event of the batch first)
  are those of an order in which the `recv()` comes later.
* `Shutdown` frees the configuration of the proxy (`main.c:315`), which a thread
  that dials may still read. Either way the process ends: "stopped".
* `trackFd` is the set of indices that are true. Writes outside its 16 entries
  are recorded in the set and have no other effect.
* A relay whose coroutine never ends keeps its queue entry: it runs, finds its
  pointer unchanged and yields (`ResumeRelay`). `Relay` says why.

### `MessageList` in detail

A node stands for a `struct message` with its strings, allocated and freed
together. `NewMessage`, `GetTail`, `Linked`, `FreeNode` are the functions of
`datastruct.c` on the heap as a value, and the actions are the callers:
`StoreMsg` makes the node the list of the peer or its new tail; `ClientUpdate`
copies the head into a node of its own, frees the head, follows its `next`, takes
the peer out of the table when there is none, and frees the copy. A free node has
no fields anybody may read: `FreeNode` clears them, so that a use after free
shows (the mutant `TakeCopiesLate` is one).

Three things the module makes visible, none of which a request can reach:
`delete_message` leaves `prev` of the new head pointing to the freed node
(`datastruct.c:115`), which is why `BackLinks` begins behind the head;
`delete_peer` frees the first message of a peer only, so `clear_datastructs`
loses the others (the process ends there, and `MessagesNotLeaked` is about the
time before); and no line frees the `struct peer`, though the comment at
`datastruct.c:123` speaks of freeing the peer.

### `Relay` in detail

`domainData` of `send_over_tor` and `domainData` of
`open_socket_to_domain_thread` are two variables: `pointer` and `own`. The thread
frees the struct and clears its own (`socks_helper.c:160-161`), the coroutine
tests the other (line 178). So the code behind the loop (the join, the send, the
two `close()` of lines 122-123, the answer of `send_routine`) is reached by no
run of the program; it is not modelled, and nothing is claimed about it.

The thread keeps the descriptor it opened, and closes it when the dialling fails.
`DialSucceeds` looks at no descriptor, as line 160 does not: it takes the return
value of `proxysocket_connect`.

### `Socks` in detail

`initialize_proxy_connection` asks for one SOCKS5 proxy without a login and with
names resolved by the proxy, and behind it in the list is the direct connection,
so `proxyinfo_connect` calls itself once. `Lookup`, `Socket` and `Connect` are
the inner call, the rest the outer one: one action for each `send()` and
`recv()` with the decisions that follow it, up to the next system call. `Aborts`
is the macro `ERROR_DISCONNECT_AND_ABORT`.

The proxy (`Answer`, `Drop`) answers what was asked, with any of the replies the
code tells apart, closes, or resets. A reply is a sequence of items, each what
one `recv()` of the code asks for; TCP may stop within one (`Cut`). `recv()`
gives what is there; at the end, 0; after a reset, -1 once and then 0, as on
Linux. Then comes what is easily missed: `recv(...) < sizeof(initrecv)` compares
with an unsigned number, so -1 is not below it. A failed `recv()` goes unseen
(`FailsUnseen`), and the bytes of the variable are those of the last read, or of
the stack. `OnlyAfterSuccess` says that this cannot make a connection out of
nothing: the stale bytes are never the SUCCESS of the status unless the proxy
sent it, and the next `recv()` gives 0. `KilledByMethodOnly` says where it can
hurt: when the method was lost the stack may hold any method, and the thread
sends once more on a connection whose reset was already reported, which raises
SIGPIPE, and `main` installs no handler. The lengths of the request and of a
name are `int`s, so that -1 is seen there.

The handshake has no timeout. `Returns` therefore needs a proxy that answers or
goes away; one that does neither keeps the thread for ever.

### `Framing` in detail

`Daemon` has frames as units that TCP may cut; `Framing` has them as lengths,
delivered whole, one after the other. `Msend` is `torchatproto_msend` with the
limit of `torchatproto_msendl`; `RecvHead`, `RecvBody` and `ParseConnection` are
the receiver up to the `strlen` of `actions.c:40`. The buffer is zero before
(`actions.c:35`), so a body that does not fill it ends where it was read to; one
of exactly 512 bytes has no terminator, and the length `strlen` finds is any from
512 to 512 + `Overrun`. What the module makes visible: `torchatproto.c:337` says
"maximum size = 2000", the code sends up to 8188 bytes of body and receives up to
512, so a frame of 513 to 8188 bytes is sent and then refused.

## Runs

| run | instance | shows |
|---|---|---|
| `store_fifo` | 3 peers, 2 texts, 4 messages | the store's invariants, and that it implements `MailBox` |
| `store_heap` | 2 peers, 2 texts, 5 nodes, 6 messages | no use after free, nothing kept, the links; the nodes implement the sequences |
| `daemon_all` | 2 connections, 6 requests, cut frames, hang-ups and resets, descriptors 5..7 | with coroutines that wait, are resumed and read what is not theirs: each frame is served once at most, no lost wake-up; a stale event, or a request closed unread, is the work of a left-over coroutine or thread only |
| `daemon_readers` | 3 connections, 2 messages of one peer and its readers, descriptors 5..7 | handed out once, in order; no lost wake-up |
| `daemon_live` | 2 connections, UPDATE, HOST, SEND, EXIT, END, a refused frame, SIGINT; fairness | events are fresh, only invalid frames are closed; every request answered, the daemon stops, a client that hung up gives its descriptor back |
| `socks` | 2 threads, 2 descriptors, every reply, cut, close and reset; fairness | no connection without SUCCESS, descriptors, SIGPIPE, every dial returns, refinement of `Relay` |
| `framing` | every length from 0 to 10100 | what is parsed is whole, what is refused is empty or too long |

The runs that find a disagreement between the code and what the repository says:

| run | the line | what happens |
|---|---|---|
| `relay_waits` | `socks_helper.c:177` "if the variable has been freed the thread exited" | the thread clears its own copy of the pointer; the coroutine waits for ever and answers nothing |
| `update_by_id` | `README.md:184` "polling for unread messages from a peer ("id" field)" | UPDATE takes the peer from `msg` (`actions.c:156-161`); a request whose `id` names another peer is answered about the one in `msg` |
| `cut_deadline` | `torchatproto.c:304` "should not happen" | a body that is late by three seconds ends the daemon |
| `hang_up_leak` | `main.c:253` "fd is closed in event_routine" | only for a refused frame; a RECV whose end arrives with it leaves the descriptor open |
| `backlog_stuck` | `main.c:214` "accept all connections" | not after a failure for want of a descriptor |

`Released` (in `daemon_live`) and `ClosedInRoutine` (in `hang_up_leak`) differ in
the requests: where there is an answer, the closed client resets it and an error
event arrives; RECV has no answer.

`ServedOnce` has two parts. A connection is answered once at most, and a text of
a peer is stored no more often than RECV frames brought it, so no frame reaches
the store twice: a descriptor is reported again for a second segment and for the
end of the stream, and each report starts a coroutine that reads what is there,
for whichever connection has the number by then (`daemon_all` has requests that
are served by an event of an earlier connection).

`EventsAreFresh` and `ClosesOnlyInvalid` hold in `daemon_live`, where frames
arrive whole, which is what `torchatproto.c:332` aims at ("send all in a single
operation"): error events, relays, accepts and threads make no event stale. They
fail when TCP cuts frames: a coroutine that waits for the rest of a body keeps
the number of its descriptor; when a later event closes it (the end of the
stream starts a coroutine that finds no header) and `accept` gives it to another
connection, the first coroutine takes the header of that one for its body, and
closes it. `StaleByBodyOnly` and `SparesUnread` (in `daemon_all`) say for frames
cut in any way how far this goes. The number of an event changes hands under it
only by a coroutine that waits for a body on this number, or by the thread that
dials on it; a valid request that is there as a whole, unread, is closed only by
one of these or by a stale event. In `daemon_all` the coroutine and the stale
event do occur: without these alternatives TLC refutes the properties. That a
dialling thread closes another's number takes three connections and is not
reached there; the theorems cover it.

More disagreements are visible in the models and have no run of their own:

* the cleanup of `main.c:261` leaves the connections open and closes 0 and 1,
  though `main.c:178` says it closes "all the accepted connection";
* a message is stored "until it is read" (`README.md:183`), but
  `client_update` removes it before it is sent and drops the result of the send:
  `HandedOutOnce` does not exclude this loss, it says that only a client that
  hung up can have met it;
* after the yield of the loop an event may have nothing to read any more, because
  a resumed coroutine read it (`main.c:249`, "We have data on the fd waiting to
  be read");
* `torError` (`socks_helper.c:18`) is set by `set_tor_error`, which nothing calls,
  and read by the answer of a SEND, which is not reached;
* `main` reads a port from its arguments and listens on 8000.

### Bounds, and why they are enough

* Two connections are the least at which coroutines, batches and accepts
  interleave; `daemon_readers` has three because an order of two messages needs
  two writers and a reader. A connection is used once, so reuse of a descriptor
  needs two connections: all runs have that.
* The inputs of `Daemon` are split over the runs to keep each small. `daemon_all`
  has what makes coroutines wait and descriptors change hands: `Cuts` (the body
  behind its header, and a cut body), resets, SEND, frames that are refused after
  the body was read, `NO_FIELD`; no SIGINT. `daemon_live` and `daemon_readers`
  have whole frames, closes and SIGINT. A header that is cut is refused as
  `NO_HEAD` is; `cut_deadline` has every cut.
* `MaxFd`: 5..7 gives three descriptors to two connections and their dialling
  threads, one less than they need together, so running out is reached with a
  SEND; `backlog_stuck` has one descriptor for two connections.
* `MaxArrivals` = 4 in `store_fifo`: a peer with a list of several messages
  beside one that leaves the table and comes back. The proofs have no bound.
* `Nodes` has five in `store_heap`: four messages and the copy, so two lists of
  two, one of four, or one of three beside one of one, and every node is reused
  (six messages).
* Two threads and two descriptors in `socks`: the threads do not share anything
  but descriptors, and `socket()` may fail at any time, since the rest of
  the process may have the others. The proofs have no bound. `Bytes` holds the values that the code or the proxy's
  replies name; any other is in the same branch as 255.
* `MaxLen` = 10100 in `framing`: past the buffer (512), the limit of the sender
  (8192) and the four digits of the header (9999), where a header without the
  limit would name a length below 512 again. `Overrun` = 4 stands for any overrun.
* The symmetric sets are the connections, in `daemon_readers` the texts, in
  `store_heap` the nodes; no run with symmetry checks liveness.
* `CHECK_DEADLOCK FALSE`: clients need not do anything, the daemon stops by EXIT,
  SIGINT, an exception or the assertion, and the dialling threads end.

### Fairness

`WF(DaemonStep /\ ~MayBlock)`: the operating system runs the process, and
`epoll_wait` returns after its timeout at the latest, so the main thread makes its
next step, unless that may be a `recv()` on a blocking socket to Tor: from there
nothing is assumed. (With whole frames such a state is not reached.)
`WF(Deliver(c))`: TCP delivers what is under way. Clients, signals and dialling
threads have none in `Daemon`. In `Relay` each coroutine gets its turn, each thread
is scheduled, and Tor answers or goes away. In `Socks` each thread is
scheduled and the proxy answers or goes away, as long as the process lives.

## Proofs

All proofs are for any value of the constants. Liveness stays with TLC.

* `MessageStore_proofs`. The inductive invariant is `StoreInv`: types,
  `OneEntryPerPeer`, `ListedIffUnread` and `Fifo` together. They need each other:
  `GetUnreadMessage` removes one entry of the table, which takes the peer out of
  it only if it has one entry (`OneEntryPerPeer`); the peer may leave because its
  list is empty (`ListedIffUnread`). Lemmas about `Without`, `Append` and `\o` do
  the sequence reasoning. From `StoreInv` follow `StoreTypeCorrect`,
  `StoreOneEntry`, `StoreListing`, `StoreFifo`, and, because `Fifo` says that the head of the list
  is the message number `Len(handed) + 1`, `StoreImplementsMailBox`.
* `Daemon_proofs`. Every step of the daemon is a step of the store or leaves it
  alone (`DaemonUsesStore`), given that what is read from a connection is a
  request (`RequestInv`) whose fields name a peer and a text
  (`RequestsAssumption`). With the store's theorem, `DaemonKeepsMail`.
* `MessageList_proofs`. No property of the heap is inductive: that the tail
  `insert_new_message` writes to is live follows from the whole list, and that
  `delete_message` frees nothing of another list from all of them. `ListInv` says
  what the shape is. `Chain(h, n, L)`: the nodes of `L` are live, have a message,
  are tied by `next` and, behind the head, by `prev`, are all different, and the
  last has `NULL`. `Shape(h, table, lists)`: each entry of the table has such a
  list, no node is in two of them, and every live node is in one. The lemmas are
  about values of the heap (what `new_message`, `insert_new_message` and
  `delete_message` make of a list, then of the table), so that they serve before
  and after a step. `ListFrom` follows pointers recursively; that it finds `L`
  whenever `Chain(h, n, L)` is not proved by induction but by the least step at
  which the two differ (`ChainIsList`, with the well-foundedness of `<`). From
  `ListInv` follow `ListTypeCorrect`, `ListNoDangling`, `ListNotLeaked` and
  `ListBackLinks`. `ListImplementsStore` maps each action to that of
  `MessageStore`: the texts of a peer's list grow at the end only with
  `store_msg`, lose their head with `client_update`, and those of other peers stay
  (`StoreMsgContents`, `TakeContents`). With `StoreImplementsMailBox`, the three
  layers over the store are proved.
* `DaemonConns_proofs`. The inductive invariant is `ConnInv`. `Places`: a
  connection waits once in the backlog or has one descriptor, and once it lost its
  place it gets none; without it a closed connection could be accepted again.
  `Traffic`: what is in the socket, was taken from it and is under way
  (`Carries`) is one frame at most; `Unasked`: nothing before the client asked.
  Together they say that a body is complete once only, after which the whole frame
  has been taken and nothing is left to read: `Spent`. Since an answer and a
  dialling thread exist for spent connections only (`AnswersSpent`, `DialSpent`),
  a connection is answered once, although a coroutine may serve one that was given
  the descriptor of another. The other half of `DaemonServesOnce` counts: each
  step that makes a text arrive at the store makes a connection with such a RECV
  frame spent that was not (`Brings`), so the texts that arrived are no more than
  the RECV frames that were served (`ArrivedServed`). `DaemonTypeCorrect` needs `Places` and `DialSpent`
  too: a thread's descriptor is in the table only if the thread is not started
  twice. `DaemonHandsOutOnce` compares two finite sets of places, those where a
  client was given a message and those where the store handed it out; each step
  that adds to one adds to the other, for a client that is still there. All
  three hold with any cuts of frames, resets and any number of descriptors.
* `DaemonEvents_proofs`. `DaemonSeesReadables` needs no hypothesis: with
  edge-triggered events, what arrived on an accepted connection is on epoll's
  ready list, in the batch, or waited for by a coroutine (`Seen`).
  `DaemonNoLostWakeup` adds the backlog, under `EnoughDescriptors`: a descriptor
  for every connection and, when SEND is among the requests, one for every thread
  but that of a connection that waits. Without it the property is false, as
  `backlog_stuck` shows; a counting argument over `Places`, `TorOwned` (the sockets
  to Tor are those of the threads) and `DialMeant` (a thread exists for a SEND
  only) says that with it `accept()` does not fail while a connection waits. The
  passing runs of `NoLostWakeup` satisfy it exactly: three descriptors for two
  connections with a thread, or for three without.
  `DaemonStaleByBodyOnly` and `DaemonSparesUnread` need no hypothesis. The lemma
  `StepOnDescriptors` says what a step may do to the number `f`: nothing, open it
  while it is free, or close it, which is the doing of an event for `f`, of a
  coroutine that waits on `f`, or of the thread that dials on `f`. `EventsInv`
  rules out the rest. `OneEvent`: the events of a batch name different numbers, so
  an event that is handled leaves the others fresh. `ErrorsAnnounced`: an error
  event is for a client that is gone, so it closes no waiting client's request
  unless it is stale (it rests on `EndsAnnounced`: an end on the way was sent by
  the client). `StdHeld`: while the process is not leaving, 0 and 1 are held and
  no event, coroutine or thread names them, so the cleanup, which closes them, is
  no case to consider. What is left for a fresh event on a connection with a whole
  valid frame is to serve it (`WholeIsServed`), which keeps the descriptor.
* `Framing_proofs`. `FramesWholeOrRefused` for bodies of any length. The
  arithmetic is one lemma, `HeadTells`: the value of the header of a number below
  10000 is the number. `FrameInv` says for each stage that the header is that of
  the length sent and that the length is within the limit of the sender.
* `Relay_proofs`. `RelayNeverLeaves`: the invariant `WaitInv` adds that the
  pointer of a coroutine that waits is set; no step of the thread touches it.
  `RelayTypeCorrect` needs that a thread that dials has a descriptor, and, for the
  lowest free one to exist, `MaxFd \in Nat`.
* `Socks_proofs`. The seventeen actions of a thread do one of four things to its
  place and the descriptors (`ThreadMoves`): they open the lowest free one, close
  their own and return, go on, or nothing. `OwnInv` (types, nothing open before
  `socket()`, and `OwnSocket`) is preserved by each of the four whatever the other
  threads do, which gives `SocksOwnSocket`. That `Lowest` of a set of naturals
  exists is the well-foundedness of `<` (`LowestIsFree`). `TrafficOK` has the
  types of what goes over the connection, with a lemma for what a reply may be
  (`RepliesTyped`) and what arrives of it (`ArrivesTyped`); together they give
  `SocksTypeCorrect`. `StageInv` adds what can be under way at each place of the
  handshake: nothing before a question, one answer to a two-byte question, and
  behind the status either a SUCCESS that was said or a connection that is lost
  and empty. It says why stale bytes do no harm: before the grant of a login they
  are those of a method 2, which is no grant, and behind the status the next
  `recv()` finds the end. From it follow `SocksOnlyAfterSuccess` and
  `SocksKilledByMethodOnly`. `SocksImplementsRelay` maps each step by where the
  thread goes; `OwnSocket` says that a failure gives back the descriptor that
  `DialFails` of `Relay` frees.

Assumptions on the constants: `MaxLenAssumption`; `DescriptorsAssumption`
(descriptors are naturals, above 1); `ConnsAssumption`; `RequestsAssumption`;
`SegmentationsAssumption` (a cut is a sequence of segments that carry one frame
at most, which is what a client sends); `EndsAssumption`; `SocksAssumption` (the bytes the code names are bytes, "free" is no thread);
`NullAssumption`; `HeapAssumption` (memory is finite). TLC evaluates them in the
runs. `EnoughDescriptors` (`DaemonNoLostWakeup`) and `MaxFd \in Nat`
(`RelayTypeCorrect`) are no assumptions but hypotheses of the theorems named.

Only model-checked:

* liveness under fairness: `Answered`, `Stops`, `Released` (`Daemon`), `Leaves`
  (`Relay`), `Returns` (`Socks`);
* `EventsAreFresh` and `ClosesOnlyInvalid`, which need whole frames; what holds
  for any cuts, `StaleByBodyOnly` and `SparesUnread`, is proved;
* the five disagreements between code and comments, which are counterexamples.

## Not modelled

* Third-party code that the build uses: `json.hpp`, `loguru.hpp`, `uthash.h`,
  `libdill.h` with `fd.c` and `iol.c`. They are nine tenths of the lines of the
  repository; their use is modelled (the run queue, the table, a body that
  parses or throws), not their inside.
* Branches of `proxysocket.c` that the daemon's configuration never enters:
  SOCKS4, the web proxy, a login of ours, names resolved by the client,
  `socket_receiveline`, and the functions that build the configuration, which run
  once. `gethostbyname` is not safe between threads; all of them look up the same
  name.
* The configuration file (`parseconfig.c`, `settings.c`, `argparse.c`): not part
  of the build, and nothing in the daemon calls it. Whoever connects it should
  know that `argparse_parse` leaves out the first word of its vector
  (`argparse.c:332-333`), which for the vector of `parse_config` is the first
  option of the file, and that `valBuf` keeps the value of the line before
  (`parseconfig.c:144` clears `optBuf` only).
* Answers that `fd_send` sends in pieces (`fd.c:106-157`): `Reply` puts the whole
  frame on the connection. The answers of a fresh connection fit its send buffer.
* Logging, dates, core dumps, daemonizing, the start of the process: no state
  that a property depends on.
* The date of a message: it is sent between daemons (`jsonhelper.cpp:166-170`)
  although `README.md:193` says that it must not be. The model has no dates.
* The code behind the loop of a relay (`socks_helper.c:182-198`,
  `terminate_connection_with_domain`, the answer of `send_routine`): not reached
  (`RelayNeverLeaves`). Whoever repairs the loop should know that the socket is
  closed twice (`socks_helper.c:122-123`), and that in between another thread may
  be given its number.
* Functions that are never called: `announce_exit`, `get_list_head`,
  `open_socket_to_domain`, `torchatproto_mrecvl`, `torchatproto_socket_create`,
  the iolist helpers, `set_tor_error`.
* Two daemons that talk to each other: as built a relay sends nothing
  (`RelayNeverLeaves`), so such a composition has no behaviour beyond that of
  each daemon alone.

## Plan

The model covers the daemon's own code as far as it is reached, and every safety
property and refinement that a passing run checks is stated by a theorem, but for
the two named under "Only model-checked". What is left:

1. `Daemon`: `EventsAreFresh` and `ClosesOnlyInvalid` under the weakest hypothesis
   that a cut frame leaves, for instance that no connection is reset while its
   body is on the way.
2. `Relay`: when the loop is repaired in the code, what lies behind it, composed
   with the handshake of `Socks`.
