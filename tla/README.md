# A verification development for the ZJU sponge network stack and chat system

This directory models the programs of the repository in TLA+: the user-space TCP of
`src/zju-comnet-labs/libsponge` (the CS144 "sponge" stack as completed here), its
network interface and router, its sockets and event loop, the copying program around
them, and the chat server and client of `src/lab6/code`. The models are checked with
TLC on small instances; theorems about the sequence numbers, the sender, the
reassembler, the pair of connections, the endpoint's byte streams, the network layer
and the chat system are proved with TLAPS for every value of the constants. Source paths
below are relative to `src/zju-comnet-labs/libsponge/` unless they begin with `src/`
or `apps/`, which stands for `src/zju-comnet-labs/apps/`.

## 1. Inventory

### Library, bottom up

| Component | State | Operations | Talks to | Correct when |
|---|---|---|---|---|
| `ByteStream` (`byte_stream.cc`) | buffer, capacity, ended and error flags, two counters | write, peek, pop, read, end_input, set_error | the three owners below | never over capacity, nothing lost or reordered |
| `WrappingInt32` (`wrapping_integers.cc`) | none | wrap, unwrap | sender, receiver | unwrap finds the number closest to the checkpoint |
| `StreamReassembler` (`stream_reassembler.cc`) | ordered map of chunks, next index, counter, end index, output stream | push_substring | receiver (calls it), socket (reads the output) | the output is the stream whatever the arrival order; ends exactly at the end; memory bounded |
| `TCPReceiver` (`tcp_receiver.cc`) | peer's ISN, FIN flag, reassembler | segment_received, ackno, window_size | connection | the ackno is true: everything before it is in the output |
| `TCPSender` (`tcp_sender.cc`) | outbound stream, next and acknowledged number, peer's window, outstanding segments, timer, back-off, queue | fill_window, ack_received, tick, send_empty_segment | connection | everything unacknowledged is held; timer runs iff something is; window obeyed; back-off sane |
| `TCPConnection` (`tcp_connection.cc`) | sender, receiver, linger and active flags, idle time, queue | connect, write, segment_received, tick, end_input_stream, destructor | socket | two reliable streams; a clean close only when both are done; a reset otherwise |
| `TCPState` (`tcp_helpers/tcp_state.cc`) | none (a view) | state_summary | socket, tests | the RFC 793 diagram |
| `NetworkInterface` (`network_interface.cc`) | ARP cache with ages, requests with ages, pending datagrams, frames out | send_datagram, recv_frame, tick | router, adapters | no datagram sent to a wrong or expired address, none stuck, one request per address per 5 s |
| `Router` (`router.cc`) | routing table, interfaces | add_route, route | network interfaces | longest match, TTL, no datagram lost or repeated |
| `EventLoop` (`util/eventloop.cc`) | rules | add_rule, wait_next_event | socket, apps | a callback runs only while its rule is interested; no busy loop |
| `TCPSpongeSocket` (`tcp_helpers/tcp_sponge_socket.cc`) | connection, pipe to the application, event loop, abort flag, thread | connect, listen_and_accept, four rules, wait_until_closed, destructor | everything above | all bytes cross the pipe; the thread ends; an aborted connection resets its peer |
| Adapters (`tcp_helpers/fd_adapter.cc`, `lossy_fd_adapter.hh`, `tcp_over_ip.cc`, tun/tap) | configuration, listening flag | read, write | socket | only this connection's segments pass |
| Buffers, parser, headers, checksum, files and sockets | bytes | encode, decode, system calls | everything | encoding round trips |

### Programs

`apps` holds command-line programs around the library. The ones with logic of their
own are `bidirectional_stream_copy.cc`, four event-loop rules that move bytes through
two bounded buffers, `lab4.cc`, whose network thread runs a router and a host's
interface, and `network_simulator.cc`, hosts and routers on wires. `src/lab6/code` is
a chat server (a client table under a mutex, one thread per client) and client (a menu
thread and a receiving thread sharing a socket variable). Tests, doctests, scripts,
lab reports and homework are read as documentation only.

### How the parts interact, and what is hard

One thread runs a socket's event loop: datagrams in (rule 1), bytes from the
application (rule 2), bytes to the application (rule 3), segments out (rule 4), and
a tick after every round. So a `TCPConnection` sees a sequence of method calls whose
order is up to poll, the network, the clock and the application. The application is
on the other end of a socket pair, in a thread of its own with an event loop of its
own. Below the adapter, a datagram waits in an interface for an ARP mapping, crosses
a wire, is routed, waits again. Hard are

* unreliable delivery: segments and acknowledgments lost, repeated, overtaken; frames
  lost and damaged; a host that starts again under a new Ethernet address;
* timers: retransmission, back-off, giving up, lingering, ARP mappings and requests,
  each racing late answers;
* boundaries: full output, window of zero, window edge inside a substring, wrap of
  the 32-bit numbers, end of the 64-bit ones, the FIN that just fits, prefixes of
  length 0 and of full length, a time to live of 1;
* endings: who lingers, close after a failure, simultaneous open and close, two
  half-closed directions through four buffers, two threads that end together;
* event-loop rounds: interest is computed before poll, callbacks run after it;
* the chat programs' threads: a descriptor looked up under a lock and used after it,
  a socket variable shared by two threads.

`PROJECT.json` lists each of these as a hazard at its line, with the properties that
cover it or the reason why none does.

## 2. Modules

### TCP

| Module | Models | State and actions |
|---|---|---|
| `ByteStream` | `byte_stream.cc` | a record; one operator per method |
| `StreamReassembler` | `stream_reassembler.cc` | a record; `push_substring` in closed form: which chunks its loops erase, cut, write and store |
| `ReassemblerLoops` | the same function | the two loops over the ordered map, one iteration at a time; the reference `AgreesWithLoops` compares with |
| `ReassemblerSpec`, `MCReassembler` | a reassembler with its peer and its reader | `Push` (any excerpt of the stream, from `TCPReceiver`), `Read` (rule 3) |
| `WrappingIntegers` | `wrapping_integers.cc` | wrap, unwrap at widths `Mod32`, `Mod64` |
| `WrappingSpec` | two counts of one stream that drift apart; with the sender in `MCSender` | `SenderAdvances`, `ReaderAdvances` |
| `TCPSegment` | `tcp_header.hh`, `tcp_segment.cc` | a record of the fields that are read |
| `TCPReceiver` | `tcp_receiver.cc` | a record; one operator per method |
| `TCPSender` | `tcp_sender.cc` | a record; `fill_window`'s loop is the set of segments that one call cuts |
| `SenderSpec`, `MCSender` | a sender, its application, clock and peer | `Connect`, `Write`, `EndInput`, `Tick`, `PeerAck`, `Deliver`, `DeliverImpossible`, `Lose` |
| `TCPConnection` | `tcp_connection.cc` | a record; each operator is a whole method with the segments it queues |
| `TCPState` | `tcp_helpers/tcp_state.cc` | the summaries of a connection and the official states |
| `TCPPair`, `MCPair` | two connections, their owners and the network | `Connect`, `Write`, `EndInput`, `Read`, `Tick` (the socket's calls), `Receive`, `Lose` |
| `ReliableStream` | what a connection promises | `Write`, `Close`, `Arrive`, `Take`, `Release` |

### Network layer

| Module | Models | State and actions |
|---|---|---|
| `NetworkInterface` | `network_interface.cc`, `AsyncNetworkInterface` of `router.hh` | a record; `send_datagram`, `recv_frame`, `interface_tick`; which headers are refused, dropped or thrown at |
| `Router` | `router.cc` | `BestMatch`, and `route` over interfaces that are `NetworkInterface` records: both loops are recursive functions (`Drain` within `route`), so that they can be reasoned about; the routing table is a constant |
| `FdAdapter` | `tcp_helpers/tcp_over_ip.cc` | a record of the configuration and the listening flag; `unwrap_tcp_in_ip`, `wrap_tcp_in_ip`, with a checksum that names the addresses it was computed over |
| `Network`, `MCNetwork` | hosts and a router on wires (`apps/lab4.cc`, `apps/network_simulator.cc`) | `Send` (an adapter's write), `Transmit` (a frame crosses its wire, lost at some interfaces), `Route`, `Tick`, `Damage` (of a header, its addresses or time to live, a segment, or an ARP message), `Restart` |
| `DatagramService` | what the network promises | `Post`, `Arrive`; `Alter`, `ArriveAltered` for what a wire made another of |

### Socket, event loop and the program around them

| Module | Models | State and actions |
|---|---|---|
| `EventLoop` | `util/eventloop.cc` | `wait_next_event` but for its error paths (section 7), over rules, readiness and callbacks given as constants; its two loops over the rules are recursive functions whose steps are `Enlist` and `Serve` |
| `StreamPair` | the socket pair, used through `util/file_descriptor.cc` | a record per end: bytes to be read, direction shut down; read, write, shutdown, poll |
| `SpongeSocket` | `tcp_helpers/tcp_sponge_socket.cc` | a record: connection, phase, abort flag, rules; the four callbacks and a turn of `_tcp_loop` |
| `StreamCopy` | `apps/bidirectional_stream_copy.cc` | a record: both buffers, stdin, stdout; the four callbacks and a turn of the loop |
| `Endpoint`, `MCEndpoint` | a program such as `apps/tcp_udp.cc`, with a peer | `Turn` (the socket's loop), `Copy`, `WaitUntilClosed`, `Destroy`, `PeerStep`, `PeerReset` |

### Chat

| Module | Models | State and actions |
|---|---|---|
| `ChatServer` | `src/lab6/code/server/server.cpp` | `clients`, `next_client_id`, a `worker` per connection, `conns`, `alive`; `Accept`, `Serve` (a recv with what it leads to, a send, the close) |
| `ChatClient` | `src/lab6/code/client/client.cpp`, `func.cpp` | `cli`, per user: script, `connected`, `BaseSock`, receiving threads; `Command`, `Send`, `Drop`, `Quit`, `StartThread`, `ThreadStep` |
| `Chat`, `MCChat` | server and clients together | the actions of both, with threads that cannot be made |

### Proofs

| Module | Theorems about |
|---|---|
| `WrappingProofs` | `WrappingSpec` |
| `SenderProofs` | `SenderSpec` |
| `ReassemblerProofs` | `ReassemblerSpec` |
| `NetworkProofs` | `Network`, which implements `DatagramService` |
| `PairProofs` | `TCPPair`, which implements `ReliableStream` |
| `ChatProofs` | `Chat`: the table; what clients are told |
| `EndpointProofs` | `Endpoint`: the bytes stay in order across its buffers |
| `ConnectionLemmas` | what `unwrap` returns, and what the methods of `TCPSender`, `StreamReassembler`, `TCPReceiver` and `TCPConnection` keep: used by all the modules above but `NetworkProofs` and `ChatProofs` |

Operators keep the methods' names; a method of the C++ class of an object becomes an
operator from the record before the call to the record after it. A class that two
other classes extend with a method of the same name has a prefix (`sender_tick`,
`receiver_segment_received`). Operators named `X_Something` or `Y_Something` just
before `Something`, or `Something_Variant`, are mutants: deliberately wrong variants
that the properties are tested against.

The abstractions: a byte is a number, options and the encoding of headers are left
out, time runs in ticks. Addresses are short numbers; ports matter only in
`FdAdapter`; a checksum stands for what it was computed over, and is taken to find any
damage of that (a real one's complement sum misses words that change places). Two counters stop
where nothing depends on them any more: `time_since_last_segment_received` stops at
`LingerTime`, the only value it is compared with, and an ARP timer at zero. The
sequence-number arithmetic keeps its widths as the constants `Mod32` and `Mod64`. In
`TCPPair` an action drains `segments_out` in the same step, since rule 4 runs before
the next call or the segments merely spend more time in the network; `Endpoint` has
the rules themselves. A chat message's text and a client's name are left out; the
order of messages on a connection and who they are for is what is kept.

## 3. Runs

All runs use `tlc -workers 2`.

| Run | Bounds | Shows |
|---|---|---|
| `reassembler` | capacity 4, stream 8, excerpts up to 4 | order, overlaps, excess over the capacity, end of stream, counter, and the agreement with the loops; liveness |
| `sender` | `Mod32` 16, `Mod64` 64, 3 bytes, payload 2, window up to 3, 2 acknowledgments in flight, retry limit 1; counts up to 15 apart | accounting, timer, back-off, window; and of the sequence numbers, for every ISN and checkpoint of four periods: closest number, round trip |
| `pair` | eight scenarios (below), up to 2 bytes, 2 or 3 segments in flight each way, retry limit 1, linger 1 | refinement of `ReliableStream`, true acknos, safe close, no way back in the diagram of states |
| `pair_live` | a byte each way, 1 loss, 4 segments in flight, retry limit 2, linger 10 | nobody gives up, both close |
| `network` | addresses of 3 bits, 3 hosts, a router with 2 interfaces, mapping lifetime 2, request interval 1, one loss or restart, one or two damages, a damaged time to live of up to 3 (`MaxTTL`) | refinement of `DatagramService`, segments handed over as they were sent whatever is damaged, true mappings that expire, one peer per connection; everything arrives where nothing is lost |
| `endpoint` | pipe 1, copy buffers 3, connection capacity 2, up to 3 bytes each way, retry limit 1 | bytes in order, ends after bytes, no callback that throws without a reset, both threads end |
| `chat` | 3 users, 2 descriptors, 3 connections, scripts of up to 5 commands, `TimeRequests` 2, one failed thread | table, ids, replies; every request answered, every leaver forgotten |
| `reassembler_capacity`, `reassembler_counter`, `sender_partial_ack`, `endpoint_reset`, `chat_replace` | one scenario each | the disagreements of section 5 |

Why the bounds are enough.

*TCP.* The reassembler needs room for two stored chunks with a gap on either side and
an excerpt that covers one and cuts the other: capacity 4 with excerpts of 4 has them,
and chunks beyond the window's edge as well. The sender's payload of 2 against 3 bytes
gives segments of both lengths, an acknowledgment inside a segment, and a FIN that
rides, follows or waits. The counts of `WrappingSpec` share that run without meeting
the sender: one moves while the other is where it began. Up to `Mod32 - 1` apart, they
have every remainder against every checkpoint. `Mod32 = 16` with ISNs at the end of the range makes
every handshake cross the wrap. With payload 1 and capacity 1 or 2 every pair run
passes through windows of zero; a retry limit of 1 makes giving up, resets and closes
after them part of every pair run. The scenarios of `pair` are `Lossy` (a segment of the
handshake or a FIN is lost), `Delayed` (a byte, and segments that stay on their way for
any time, or for ever, which is as good as a loss), `OldOnes` and `Duplicates` (any
segment comes again any number of times, at any later time or with a byte of data),
`LossyTwice` (two losses, with a byte), `BothWays` (either end finishes first),
`SimultaneousOpen`, and `Overtaking` (two data segments and a FIN in any order). `MaxCounted` bounds the reassembler's counter, which would otherwise grow
for ever because of the finding `reassembler_counter`; the bound stops only calls that
would lift it further. `inFlight` bounds the network: a call whose segments do not fit
is not made until there is room.

*Network.* A datagram needs at most three mappings on its way (sender to router, router
to receiver, and the way back for a reply), so three hosts on two wires have every
situation: alone with the router on a wire, sharing it with a host that overhears, and
being another host's gateway. The table of `MCRoutingTable` has a default route of
length 0, prefixes inside one another, and two routes of full length for one address;
`AnyDestination` sends to each of the eight addresses with a time to live of 0, 1 and
2. Two damages to one datagram are enough to change an address and one more thing, on
its way to a listening adapter as well, so that the header passes the router with a good
checksum and is damaged again. `TwoClients` has a second client while an adapter listens, `Exchange` a datagram
each way with ARP exchanges that cross. Lifetimes of 2 and 1 make a mapping outlive a
request, as 30 s and 5 s do, and let either run out while a frame is on the wire.

*Endpoint.* A pipe of one byte makes every write into it partial and every reader wait;
copy buffers of 3 and a connection of 2 fill before the stream ends. Two bytes one way
and three the other make either direction finish first. `Listening`, `Resets` (the
peer may die whenever the connection is open) and `Abandons` (the owner destroys the
socket at any turn) have shorter streams, since what matters there is the moment. A
turn in which a rule was called back takes no time, so a rule that is called back in
every round holds the clock and with it the end of the lingering: that is how
`BothThreadsEnd` would find a rule that spins (its mutant is one).

*Chat.* Two descriptors among three connections give a descriptor to a second client.
`Concurrent` is the shape of `src/lab6/code/concurrent.sh`; `Return` has a user who
leaves and comes back while a message to the old id is on its way; `Wrong` has commands
out of place, a target id that is no number, and a thread that cannot be made. `Replace`,
where a third user takes the place of the one who leaves, is the finding's.

Deadlock checking is off where the system stops: a pair or a copy that is closed, users
whose scripts are done, a network that has delivered, a count that reached the end of
its range.

### Fairness

`ReassemblerSpec!FairSpec`: the peer keeps resending from the first missing byte,
which is what its retransmission timer does, and the application keeps reading.
`TCPPair!FairSpec`: weak fairness of the applications' calls and of the service the
event loop gives (reads, ticks, delivery). The loop of `tcp_sponge_socket.cc:25-40`
wakes at least every 10 ms, so its ticks and rules keep coming.
`Network!FairSpec`: the wires carry, the router routes, the clocks tick, as the loops of
`apps/lab4.cc:248-258` and `network_simulator.cc:158-205` see to. `Endpoint!FairSpec`: the TCP thread,
the owner's thread, and the peer with its application. `Chat!FairSpec`: the accepting
thread and each client's thread on the server; the users owe nothing.

Except in `Chat` these are written with the enabling condition spelled out (`CanPushNext`,
`CanApply`, `CanServe`, `CanCarry`, `CanTurn` and the like), because TLC evaluates
`ENABLED` of these actions far too slowly.

Liveness of the pair is checked in *prompt* scenarios: clocks agree, and a tick comes
only when everything in flight has arrived and everything arrived has been read. The
code guarantees less, and then promises less: a reader or network slower than the
retransmission limit makes `tcp_connection.cc:91` reset the connection. That is its
design, not an assumption to hide: in `pair`, `Lossy`, `Delayed` and `OldOnes` have clocks
that run freely. `Endpoint` is prompt in the same sense: a turn of the loop in which nothing
happened lets time pass only when the peer and the owner have nothing left to do.
`EverythingArrives` is about networks that lose nothing: an interface asks for a mapping
only when it is given a datagram (`network_interface.cc:40`), so a lost answer leaves a
datagram in the queue until another one is sent by the same way, as TCP will do.

## 4. Proofs

`WrappingProofs` proves, for all widths satisfying `WidthAssumption`, that below
the highest period `unwrap` returns a number that wraps to its argument and none is
closer to the checkpoint (`UnwrapClosestHolds`), and that a number less than half a
period from the reader's count survives the trip over the wire (`RoundTripHolds`). The argument:
the first guess `Splice` lies in the checkpoint's period and wraps to n; each
correction keeps the remainder; numbers with equal remainders are a whole number of
periods apart, so one within half a period is a closest one.

`SenderProofs` proves that every property of the sender in the run `sender` holds for every ISN,
capacity, payload size, window, number of bytes and of acknowledgments in flight
(`SenderAssumption`, `SenderSpecAssumption`, `WidthAssumption`; for the window
`WindowAssumption` as well), and the sender's type invariant. But for the window,
`unwrap` is only known to return a natural number, so those results do not depend on
the acknowledged number being the right one: a wrong acknowledgment can drop a segment
too early, and none of these invariants notices.

`ConnectionLemmas` says what each method of `TCPSender` keeps and `SenderProofs` puts the
peer, the clock and the application around them; the proofs about connections use the
same lemmas. For
them `bytes_in_flight` is written as the number of pairs of an outstanding segment and a
position in it, which is the sum of the lengths without a fold over a set.

The properties are not inductive one by one. The inductive invariant `SenderInv` is
their conjunction with three strengthenings:

* `Covers`: every outstanding segment takes at least one number. Without it a new
  segment could have the start of an old one and replace it in the map.
* `Buffers`: the bytes in the outgoing stream are the ones after those that were
  read, and fit its capacity. `Carries` needs it to know what a new segment holds.
* `Accounts`: before the SYN nothing was sent.

Inside a call the timer invariant is weaker (`TimerRuns`: a timer runs if something
is outstanding), because `ack_received` stops the timer last. The argument follows the
calls: `CountedMultiples` and `PiecesTile` show that the segments `fill_window` cuts
fill the numbers from the old to the new next number without gap or overlap, each
queued once; `TrackCovers` and `DataStep` that sending them keeps the invariant;
`AcknowledgeStep` that dropping what ends at or before the acknowledged number leaves
everything after it covered, and that dropping anything implies that the window moved
(which gives `BackoffHolds`); `Oldest` that the first key of the map is the segment
with the first unacknowledged number (which gives `TimeoutHolds`). `EveryStep` puts
them together, one step per action.

`WithinAdvertisedWindow` compares the sender with its peer, so its invariant
`WindowInv` is about what lies between them: the acknowledgments in flight stand for
numbers that never fall and advertise right edges that never move left, from the
sender's own number and edge to the peer's (`Advance`, `Behind`). An acknowledgment
taken out of the middle leaves such a chain (`Thinned`), one that the peer adds
continues it (`Appended`), and the oldest one becomes the sender's own end of it
(`DeliverWindow`), because `unwrap` gives the number back that was wrapped
(`NearNumbers`, by the lemma behind `RoundTripHolds`). For that `WindowAssumption`
asks that the largest window, and one more for a number that was not sent yet, is less
than half the period, and that the stream ends before the highest period: a window has
16 bits in the code and half a period is 2^31. Nothing is assumed of acknowledgments that arrive
out of order; `WithinAdvertisedWindow` does not hold of them.

`ChatProofs` proves for any set of users, scripts, descriptors and failed threads, and
for every interleaving of the server's threads, that the table keeps its type
(`ChatTypeCorrect`) and that it has exactly the descriptors of the connections that
nobody is taking off, no two of which share one (`EntriesAreClients`); it uses
`ServerAssumption` only. The inductive invariant is `TypeOK /\ EntryPerClient` with

* `Shapes`: connections and threads are sequences of records with the same fields. What
  the records hold is left open, so messages need no type.
* `NewAreServed`: nobody takes off a connection that was not admitted yet. Without it
  admitting one could add an entry for a thread that is about to close.

The argument: `RemoveClient` erases the entry while it still has the descriptor open
(`server.cpp:29-41`), so between erase and close nobody else can be given the number,
and the close then frees a descriptor without an entry. Every other step leaves the
table's domain and the descriptors alone; `QuietStep` says so once for all of them.

Its second half proves of the same system that no id is told to two connections and
that a client in the table is there under the id that it was told (`IdsHold`), and that
a client is sent the replies that its requests call for, in order and with none left
out, whatever other clients' messages are sent to it in between (`RepliesHold`). It adds
`ClientAssumption` (a `time` command sends a number of requests) and to the
invariant three parts, `IInv` being all of them:

* `Sessions`, of a connection and its thread: the thread's sends are its client's
  messages to others, then at most one reply, to its own descriptor (`Outbox`); replies
  sent and due are as many as the requests dealt with (`Replied`: fewer, at the end,
  for a client that left); CONNECT is asked for once, and no id is told before
  (`AskedOnce`). `RepliesInOrder` alone says nothing of what a thread holds between
  `recv` and `send`.
* `IdsGiven`: ids told, *and those in threads' hands*, are below `next_client_id` and
  belong to one connection each. Two threads may each hold an id that was not sent yet.
* `Menus`: a user sends to connections of their own only, and CONNECT as the first
  thing on each. Without it a second CONNECT would give a client a second id, which
  the server would do (`server.cpp:121-128`).

`RepliesInOrder` counts replies (`Replies`) where a filter of the sequence would be
recursive.

`ReassemblerProofs` proves all safety properties of the run `reassembler` but the
agreement with the loops, for every capacity, stream length and length of excerpts
(`ReassemblerAssumption`): chunks are disjoint pieces of the stream (`Disjoint`), the
output is its prefix (`Delivery`) and is closed exactly at the end (`Ending`), output
and store together exceed the capacity by less than one substring (`Excess`), the
counter covers the stored bytes and so never wraps below zero (`Counter`), and a stored
byte inside the window leaves the store for the output only (`NoLoss`). The inductive invariant joins these (`Good` and `Closed`) and adds that no
chunk is empty, none begins before `next`, and none reaches past the end of the stream
or as far as one substring past the window (`Near`). Each depends on the others: that the cut is right needs that chunks are disjoint, that
the written bytes are the stream's next ones needs that chunks hold what their index
says and that none begins before `next`, and that the counter is only decreased by bytes
that it counted needs both. The counter is compared with a *set* of indices (`Held`), so that bytes
under two chunks count once; erasing, cutting and storing move it by at least what
they do to that set. `Closed` is kept by whole calls only: within `push_substring` the
end is recorded before it is acted upon, and `Good` is what each part keeps.

`PairProofs` proves every safety property of the run `pair`, for any ISNs, capacity,
payload size, retry limit and scenario (`PairAssumption`, `ConnectionAssumption`,
`SenderAssumption`, `WidthAssumption`), whatever the network delays, reorders, loses or
repeats: an endpoint believes acknowledged only what its peer has taken (`AcknoHolds`),
the pair implements `ReliableStream` (`PairKeepsPromise`), the endpoint that does not
linger leaves a settled peer (`NoLingerHolds`), and the states of `tcp_state.hh` never
go back (`NeverGoesBackHolds`). `StreamAssumption` bounds the streams by half the period
of the wrapped numbers: `TCPPair`'s network may keep a segment for ever, and an old one
would otherwise be taken for a new one a period later, by the code as by the model. The
period is 2^32, and a real network drops segments after their lifetime.

The inductive invariant `PairInv` has for each end a sending half (`Sends`: the
invariant of a sender's calls), a receiving half with regard to *the peer's sender*
(`Hears`: its ISN is the peer's, the reassembler satisfies the invariant of
`push_substring` for the stream that the peer has sent so far, whose length grows
under it, and knows an end only if the peer sent a FIN), and for each segment in flight
that it is `Sound`: a reset, blank, or the part of the sender's stream that its number
says, with an acknowledgment of no more than its sender has taken. All three are
needed for any one: that an acknowledgment is true needs that segments carry true
parts, that they are put where they belong needs that `unwrap` is given a number within
half a period, and that needs that nobody believes or takes what was not sent. The
conditions are about a stream that only grows (`Ahead`, `Onward`), so what was true of a segment when it
was sent stays true when it arrives late or a second time (`SoundStays`,
`HearsStays`). The proof follows a method of `TCPConnection` through its parts
(`FillMoves`, `AckMoves`, `TakeMoves`, `AnsweredMoves`, `ClockMoves`, `FailMoves`),
each of which moves a connection that is `Fine` to one that is, and then through the
seven actions. `FilledUp` is the sender's side of it: after a call, no number that the
window allows is left unsent.

* *The refinement.* Each call is a `Write`, `Close`, `Take` or `Release` of
  `ReliableStream` or not seen by it, and a segment that is received is an `Arrive` with the bytes
  that `Good` says the reassembler wrote (`ReceiveSeen`). `Release` needs that a
  connection that ends without a reset had both ends (`DoneIsEnded`): its own numbers are
  all acknowledged, and by `AcknoHolds`'s argument the peer has then taken its FIN.
* *Lingering.* `LingerInv`: an endpoint cleared `linger` because the peer's FIN came before
  its own was sent, so every FIN that it sends acknowledges everything the peer has sent; so whoever
  knows its end has everything acknowledged, and cannot clear `linger` as well. The second part,
  that a clean close has both ends, is what keeps it so after the close. It was
  checked by TLC on the run `pair` before it was proved.
* *The states.* A summary of `tcp_state.cc` is computed from counters and flags;
  `StageIs` says which order these induce (`Stage`), by showing that
  `bytes_in_flight` is what lies between the two counters; the rest is that each call
  is `Onward`. A connection that is over ignores every call (`ReceiveIgnored`).

`EndpointProofs` proves for every scenario, pipe, copy buffer, connection capacity,
payload size, retry limit and width (`EndpointAssumption`, with the assumptions of the
connection's modules), and for every order in which the two threads and the peer take
their turns, that what the peer's application has read is the beginning of what was
typed and what is on stdout the beginning of what the peer's application wrote
(`BytesInOrderHolds`), through resets, a peer that dies and a socket that is destroyed.
`EndpointAssumption` bounds both streams by half a period, for the reason given above.

The inductive invariant `EndpointInv` is the shapes of the five variables and

* `Wire`: each connection is `Fine` with regard to the other, as in `PairProofs`;
  segments in the adapter's queues are `Sound`; both inbound buffers are `Ordered`, they
  hold the bytes that follow those the application took; the peer's application has
  read exactly the bytes taken from its connection;
* `Outward`: of the typed bytes, the first went into the connection, and those in the
  pipe, in the program's outbound buffer and in stdin follow in this order, without a
  gap; that nothing is missing between them holds until the outbound stream is ended,
  since `write` takes nothing any more after that;
* `Inward`: the same from the connection to stdout;
* `Roomy`: no buffer holds more than its capacity. Without it a callback might read more
  from one buffer than the next one takes, and a byte would be dropped: the interest
  functions and the limits of the reads exclude it.

`Outward` is not asked of a socket whose thread has failed: the callback that throws
(`tcp_sponge_socket.cc:102`, the finding `endpoint_reset`) has taken bytes out of the
pipe that nobody has then. The program ends with it, and bytes that were lost at its end
do not disorder those that arrived. TLC was asked first: the parts `Outward`, `Inward`,
`Roomy` and `Ordered` hold in all states of the run `endpoint`.

The proof takes the eight callbacks one at a time (`ReadDatagramKeeps`, `ReadOwnerKeeps`,
`WriteOwnerKeeps`, `WriteDatagramsKeeps`; `ReadInputKeeps`, `WriteSocketKeeps`,
`ReadSocketKeeps`, `WriteOutputKeeps`): each moves a piece from the head of one buffer to
the end of the next, and what a connection does with it is a lemma that `PairProofs`
uses too (`WriteMoves`, `ReceiveMoves`, `ReadMoves`, `TickMoves`). A turn of a loop is then its four
rules before the poll and its four after it (`SocketEnlists`, `SocketServes`,
`CopyEnlists`, `CopyServes`), in any combination of interest, readiness and hang-up, so
the result does not depend on what `poll` reports; the clock, the shutdowns and the
peer's calls come last.

`NetworkProofs` proves for every topology, routing table, scenario and pace of the
clocks, with any number of losses, damaged frames and restarts: what an ARP cache says
of an address is true (`TrueMappings`), a connection is given segments of one peer
(`Peer`) and only as some host sent them (`Genuine`), and the network implements
`DatagramService` (`Serves`): every step is a `Post`, an `Alter`, an `Arrive`, an
`ArriveAltered` or nothing that the service sees. What a wire gave another address, time
to live or segment is excepted from "where it was sent to, a hop older", because the
router goes by what a damaged header says (section 5); it still arrives at most once, and
`Genuine` keeps it out of every connection it is not for. The theorems
rest on `RouterAssumption` (routes lead to the router's interfaces), `NetworkAssumption` (shapes of the constants)
and `TopologyAssumption`, which says what `ReceiverOf` means: a host's gateway is the
router, and on the link of the preferred route nobody but the receiver has the next
hop's address. TLC evaluates all of them in the run `network`. The inductive invariant:

* every cached mapping names an address that its owner has, or had before it started
  again (`InterfaceOK`), and every ARP message on its way says so (`FrameOK`);
* of the datagrams that no wire altered, one waiting at a host is one that was sent, for
  its gateway; one waiting at the router, one that was sent, a hop older, for the next
  hop of the preferred route (`Meant`); what came to an interface is what was sent, or at
  a host what was sent to it and routed once (`Got`). So a frame arrives at the interface it is meant for,
  since its Ethernet address belongs to that one only;
* a datagram is in one place: no two queues, frames or interfaces hold the same one
  (`Once`, `Fine`), which is what "at most once" needs, and the numbers that a host
  gives are in use up to a count (`Numbered`), so that a new one is new;
* any datagram, altered or not, has a checksum that fails or the one that it was sent
  with, over the addresses that it was sent with; this, and that it has its number and
  ports still, gives `Genuine`;
* an adapter that listens was given nothing, and one that does not, a SYN first
  (`Bonded`).

`BestIs` shows that the router's loop finds the preferred route, the longest and
of those the last. What `route`'s recursive functions keep is shown by the least number of
turns at which it would fail (`LeastIs`, `DrainKeeps`, `RouteKeeps`), in place of the
library's induction theorems, which no installed prover can instantiate.

Only model-checked: how the endpoint ends (`EndsComeLast`, `NobodyCrashes`,
`ThreadEndsLast`), which relates the cancelled rules and shut directions of both loops to
the ends of four streams, and would need an invariant about flags as large as
`EndpointInv` is about bytes; `NobodyFails` of the run `pair_live`, which holds because the
scenarios are prompt and losses no more than the retry limit, a fact about timing and not about the
protocol's state; liveness (`EventuallyAllRead`, `BothCloseCleanly`, `EverythingArrives`, `StaleMappingsExpire`,
`BothThreadsEnd`, `RequestsAnswered`, `LeaversAreForgotten`) and everything about
fairness, which are outside what the prover can do; and `AgreesWithLoops`, since the
loops' recursive definitions are outside what it accepts.

## 5. Where code and documents disagree

Shown by a run:

* `reassembler_capacity`: a substring that begins inside the window is kept to its end,
  past the capacity, and output and store together then hold more than
  `stream_reassembler.hh:25-26` and `:31-32` say they will ("Bytes that would exceed the
  capacity are silently discarded"). The comment at `stream_reassembler.cc:135-139`
  accepts it as at most about 1 kB, one segment; that much holds (`ExcessIsOneSubstring`).
* `reassembler_counter`: a chunk that begins exactly where the output fills up is
  erased, the counter of unassembled bytes keeps it. The bytes are sent again by the
  peer, the counter stays wrong for ever; `empty()` is then never true again.
* `sender_partial_ack`: an acknowledgment inside a segment does not reset the
  back-off, contrary to `src/lab4/lab4.typ`.
* `endpoint_reset`: when a reset and bytes of the owner wait in one poll round, rule 2
  reads the bytes after rule 1 failed the connection, which takes none of them: the
  exception that `tcp_sponge_socket.cc:102` thinks impossible ends the program.
* `chat_replace`: a message to a client that leaves between the lookup of its
  descriptor and the send reaches the client that was given the descriptor next.

Seen while modelling, in the models, and not runs of their own, since no document we
know of says otherwise of them:

* At the top of the 64-bit range `unwrap` adds 2^32 without the guard it has at the
  bottom (`wrapping_integers.cc:48`).
* What is kept past the window is not safe there. The rest of an excerpt longer than
  the window is never assembled, since every later excerpt ends at the window test
  (line 141); and an excerpt that begins at the window's edge while the output is full
  erases the kept bytes that it covers (lines 126-127) before that test drops it. Capacity
  4, bytes 2-5, then 0-1, then 3-5: bytes 4-5 are gone. Inside the window no byte is lost
  (`DiscardsOnlyPastWindow`). Reading from a full inbound stream sends no window update.
* Closing after a failure still queues and sends a FIN (`tcp_connection.cc:115`).
* Some combinations of summaries that a connection reaches are none of the official
  states of `tcp_state.cc`; `NeverGoesBack` is therefore about the summaries.
* `TCPSpongeSocket::connect` returns as soon as the state is not SYN_SENT: also after a
  reset, and after an acknowledgment that overtook the SYN it belongs to, and reports
  success (`tcp_sponge_socket.cc:225`); `Established` has the same condition, so in a simultaneous
  open the application may write and close before its SYN is acknowledged. The reset that the destructor queues is never
  sent, since the loop has ended (line 184).
* The result of the IPv4 header's parse is dropped (`tcp_helpers/ipv4_datagram.cc:13`):
  a datagram with a bad checksum is routed by the address and the time to live that it
  has now, to a wrong host perhaps, and leaves with a good checksum; the TCP checksum,
  which covers the addresses, then keeps it out of the connections (`HandedAsSent`). One
  with a wrong version is routed, cannot be serialised, and the exception ends the
  router's thread (`apps/lab4.cc:260`). `RouterRuns` is about this.
* `apps/lab4.cc:254` tells the interfaces that 50 ms passed after every event, however
  soon it came, so mappings expire early under load. `Tick` lets clocks run at any pace.
* `lossy_fd_adapter.hh:43` decides on loss after the adapter was read: a listening
  adapter has by then stopped listening for the SYN that is dropped. The peer's next SYN
  is accepted as a segment of that peer, so nothing is lost but time.
* A target id that is no number (`std::stoi`, `server.cpp:177`) and a send to a client
  that has gone (SIGPIPE, line 25) end the chat server: `alive` becomes false.
* A receiving thread of the chat client that outlives its connection reads from, and at
  its end closes, the socket of the next one (`func.cpp:130-137`).

## 6. What is left

Done: every component of section 1 with control of its own, alone and composed:
TCP (`TCPPair`), the network layer (`Network`), a socket with its program (`Endpoint`)
and the chat system (`Chat`), two refinements, and the theorems of section 4. Worth
doing next: a proof of how the endpoint ends; an `Endpoint` on top of `Network` instead
of a network that loses nothing.

## 7. Not modelled

* Encoding and decoding of headers, checksums and addresses byte by byte
  (`tcp_helpers/tcp_header.cc`, `ethernet_header.cc`, `util/parser.cc`, `util/buffer.cc`,
  `util/address.cc`): functions of their input, covered by the repository's parser tests.
  Which inputs they refuse, and what callers do then, is modelled for IPv4 and ARP
  (`HeaderResults`, `parses`, `serializes`, `supported`), and the TCP checksum by what it
  covers (`ChecksumHolds`). ARP has no checksum: a damaged ARP message is modelled only
  where `parse` or `supported` refuses it. One whose addresses were damaged would teach
  a false mapping, and `MappingsNameOwners` says nothing of that.
* `EventLoop`: a signal during `poll` (`eventloop.cc:101-105`; the programs install no
  handler), the throw on POLLERR (lines 112-115; no descriptor is closed or reset while it
  is polled), and the throw of the check for a busy loop (lines 134-138), which asks only
  that a callback read or write its descriptor, as every callback of these programs does.
  A rule that nobody is interested in and whose descriptor hung up makes `poll` return at
  once, a loop round without a callback; the model does not tell it from one that times out.
* `ChatServer`: `Accept` takes accept(), the entry and the thread in one step; between
  them another thread could only list the entry, and what a list says is left out.
  `HandleMessage` takes the two lock sections of `server.cpp:166-185` in one; the first
  reads the thread's own entry, which no other thread changes.
  "Bad message format" (`server.cpp:171-174`) is an answer this client never provokes.
* `tcp_helpers/fd_adapter.cc`, TCP over UDP: the same rules as the IPv4 adapter's over a
  kernel socket, which filters by port. `FdAdapter` is the richer of the two.
* `util/socket.cc`, `util/tun.cc`, `util/file_descriptor.cc` beyond what `StreamPair`
  uses, and the tun/tap adapters: wrappers of system calls.
* `apps/webget.cc`, `apps/tcp_benchmark.cc`, `apps/udp_tcpdump.cc`, `apps/bouncer.cc`
  and option parsing: straight-line programs, or pure input and output.
* Tests, doctests, scripts, reports and homework: read as documentation.
