# A verification project for libivy

libivy connects applications to a *bus*: each binds regular expressions, sends
text messages, and gets the messages of the others that match what it bound.
There is no broker. Applications find each other by a UDP broadcast, keep one
TCP connection per pair, and every sender holds the expressions of its peers
and sends each message to the peers it matches. This directory models that in
TLA+, checks the models with TLC, and proves every safety property that the
passing runs check, and the two refinements, with TLAPS.

Source paths below are relative to `src/src/` (`ivyprobe.c`: `src/tools/`); line numbers are those of the
commit beside this project. `PROJECT.json` maps every definition to its lines.

## The system

| component | state it keeps | operations | where it is hard |
|---|---|---|---|
| send FIFO (`ivyfifo.c`) | a ring: read and write pointer, size, `full` | new, write (with realloc), drain, send to a socket, delete | wrap-around, full against empty, growth with bytes inside, refusal at the maximum |
| connection I/O (`ivysocket.c`) | per client: fd, FIFO or NULL, line buffer, channel | send (raw, with id), read and cut into lines, drain when writable, connect, accept, close, delete | a message is two writes; bytes in the kernel, in the FIFO and refused; a peer that stops reading or dies |
| select loop (`ivyloop.c`) | channels, `open_fds`, `wrdy_fds`, `highestFd`, deletion marks | add and remove a channel, deferred deletion, select, exception, read and write callbacks, hooks, stop | callbacks change the list under the walk that called them; descriptor numbers are used again; the sets select returned are stale when the later callbacks run |
| toolkit loops (`ivyglibloop.c`, `ivyxtloop.c`, part of `ivytcl.c`) | sources registered with the toolkit | add, remove at once, writable event | a program's callback runs inside the removal; handlers close what the caller goes on using |
| timers (`timer.c`) | list of timers, next timeout | repeat, modify, remove, scan | callbacks that change the list under the scan |
| registry (`ivy.c`) | dictionary text -> clients, list of texts per client | add or change, delete one, delete a client | two structures updated separately; texts shared by ids and clients |
| lists (`list.h`) | linked nodes | add, remove, walk with and without the next node saved | nested walks that remove |
| OpenMP cache (`ivy.c`) | array of pointers to dictionary entries | regenerate, append | filled late for clients in their handshake |
| bus protocol (`ivy.c`) | clients, bindings, `recv_id`, per client port, readiness, ignore flag | start, broadcast, connect, accept, the eleven line types, bind, unbind, change, send, stop | two processes, two directions, closes and exits at any point, simultaneous starts |
| ping (`ivy.c`) | timestamp and id of the last ping | ping, pong | overlapping pings |
| filter (`ivybind.c`) | the table of first words | add and remove words, judge an expression, check a message | judged once, by what the table is then |
| discovery line (`ivydiscovery.h`) | none | parse | numbers and fields at their limits |
| Tcl binding (`ivytcl.c`) | application names -> client, bindings | the callbacks that evaluate scripts, the commands scripts call | names that are shared; scripts inside callbacks |
| ivyprobe (`ivyprobe.c`) | count of applications, registration of the standard input | applications come and go, lines, end of input | stdio's buffer against select |
| interval expressions, message buffers, hash table, other tools | | | see *Not modelled* |

How they interact: the program calls `ivy.c`, which calls `ivysocket.c` to
send; a send the kernel does not take whole creates a FIFO and asks the loop
for the writable event; the loop calls back into `ivysocket.c`, which cuts the
stream into lines and calls `Receive` of `ivy.c`. `Receive` may send on any
client, and may close clients, which only marks their channels: the top of the
next round deletes them, and calls `ClientDelete`. Under a toolkit the same
closing deletes at once. Programs are called back by the bus, the loop, and
timers, and may call everything from there.

What makes each part correct: the FIFO is a queue of bytes; a connection
delivers the bytes it took in order, tells the application about congestion
truthfully, and is deleted once; the loop handles the connection that is ready
and never a freed one; a timer is called when due and as often as asked; the
registry of an application is the mirror of its peers' bindings; a peer is
announced before its messages; a message reaches the bindings it matches; who
leaves is forgotten; who is announced is connected.

## Modules

| module | what it is |
|---|---|
| `FifoSpec` | what the FIFO promises: a queue of bytes that takes a write whole or refuses it, gives bytes out in order, loses them only with the connection, refuses only near its limit or while a refusal is pending |
| `IvyFifo` | the functions of `ivyfifo.c` as operators on a FIFO record |
| `IvyFifoSystem` | the life of one FIFO under `BufferizedSocketSendRaw`, `HandleCongestionWrite` and `DeleteSocket`; refinement mapping to `FifoSpec` |
| `IvySocket` | one connection: sends, FIFO, loop, deletion, and the peer's reassembly of lines; uses `IvyFifo` |
| `IvyLoop` | the select loop with several channels, their descriptor numbers, callbacks and another thread |
| `IvyToolkit` | the channels of the GLib, Xt and Tcl loops |
| `IvyTimer` | the timers and the deadline of select |
| `IvyRegistry` | dictionary and `srcRegList`, every function that changes them, as operators |
| `RegListSpec`, `IvyLists` | a list of subscriptions as a sequence, and as the nodes of `list.h` under the nested walks of `delOneClient`; the second implements the first |
| `IvyOmpCache` | the pointer array of the OpenMP build beside the dictionary; uses `IvyRegistry` |
| `IvyBus` | applications, datagrams, connections, the protocol; uses `IvyRegistry` |
| `IvyPing` | pings and pongs of one pair, with the clock |
| `IvyFilter` | the word table and the expressions it drops |
| `IvyDiscovery` | the parser of announcements, and the grammar it is compared with |
| `IvyTcl` | tables, commands and callbacks of the Tcl binding |
| `IvyProbe` | ivyprobe's standard input and count of applications |
| `IvyLibrary`, `IvyPrograms`, `IvyToolkits` | the parts that keep a state of their own, put side by side for the runs and for the proofs: array, list, pings and filter; Tcl binding and ivyprobe; the toolkit loops. They fix the flags and name what each part promises |
| `Sublists` | a list without some of its elements, in order; rank and order of positions: what `Unlink`, the purges of the dictionary, the removals from `list.h` and the filter, and the message order are built from |
| `IvyLemmas`, `IvyFifoLemmas` | lemmas about lists, sublists and counting; about the functions of `ivyfifo.c` |
| `IvyFifoProofs`, `IvySocketProofs`, `IvyTimerProofs`, `IvyLoopProofs`, `IvyBusProofs` | the theorems of the module each is named after |
| `IvyPartsProofs` | the theorems of `IvyDiscovery`, `IvyLibrary`, `IvyPrograms` and `IvyToolkits` |
| `MCIvyFifo`, `MCIvySocket`, `MCIvyBus`, `MCIvyLoops`, `MCIvyPrograms`, `MCIvyLibrary` | instances for TLC |

`IvyFifo` is shared by `IvyFifoSystem` and by `IvySocket`, and so are the lemmas
about it. `IvyBus` takes a connection as a reliable
FIFO channel of lines; `FramesInOrder`, checked by the run `socket` and proved,
is what justifies that, as long as the FIFO refuses nothing; what happens when it does is the run
`socket_full`. `IvyRegistry` takes `srcRegList` as a sequence, which
`ImplementsList`, checked by the run `library` and proved, justifies as long as
no id is announced twice. `IvyLoop` says when a channel is deleted, which `IvyBus` has as the action
`DeleteSocket`.

`MCIvyLoops`, `MCIvyPrograms` and `MCIvyLibrary` each hold several modules that
share no state. The initial state chooses one of them, and only that one takes
steps: the state spaces add up and do not multiply. Each extends one component,
whose properties it checks under their own names, and one of `IvyPrograms`,
`IvyLibrary` and `IvyToolkits`, which instantiate the others; properties that hold of
one configuration only are restricted to it.

### How the models correspond to the code

*IvyFifo.* Pointers are offsets from `f->buffer`. Memory nobody wrote holds
`Uninit`, so that sending it would show. A `send()` on a non-blocking socket
takes as many bytes as the kernel has room for: `IvyFifoSendSocket(f, room)`
has the code's two sends, before and after the wrap.

*IvySocket.* The kernel's two socket buffers and the wire are one queue of
`SockBuf` bytes. `phase` is the place in the round of `IvyMainLoop`: `LoopTop`
is the deferred deletion and `select`, whose writable set is `wrset`; then
sends and closes, from timers and read callbacks, in any number; then
`IvyChannelHandleWrite`, for `wrset` and not for the current `wrdy`. Byte `i`
of frame `k` is the pair `<<k, i>>`, so that no two bytes are alike and every
loss, repetition or exchange is visible. `frames`, `taken` and `rcvd` are
history. A send to a peer that is gone may fail, or go into the kernel unseen.

*IvyRegistry.* Lists are sequences, newest first, the dictionary a sequence in
insertion order, the order uthash iterates. `delOneClient` is the net effect:
it removes the client's texts one by one, comparing with the id of the last
line received, and then everything the client has left in the dictionary.

*IvyBus.* Every action is one callback or one call of a single-threaded
process. `IvyStart` is two actions, because another process can act between
the creation of the sockets and the broadcast. A line is taken from the channel
by the `Receive...` action of its type. A marked channel still hands lines to
`Receive`, since `HandleSocket` goes on with the lines it has read and the
channel may be served later in the same round. A refused connection is only
deleted; the application callback is given NULL for it (`ivy.c:876`).
`DeleteSocket` deletes one marked channel; the code deletes all of them at the
top of the loop, and callbacks of the program run in between. Closing a socket
with unread input resets the connection, and any tail of what the peer
has not read yet may be lost. All applications are on one host, which makes the
address comparison of `CheckConnected` succeed as often as it can; the port a
peer connects from, as `SocketGetRemotePort` returns it, is drawn from
`SeenPorts`, which may hold an application port. On Linux `recvfrom` does not
fill `client->from` of a TCP socket, so it stays zero at a connecting end.
`Match`, `Bad` and `Filtered` stand for the regular expression library and
the filter.

*IvyLoop.* `pc` is the place in the round, `cur` and `nxt` the walk over
`channels_list`, `busy` that a callback is running. Every callback may open
connections, congest or drain them and remove channels, its own too. The kernel
gives out the smallest free descriptor number (`owner` says whose it is), and
`asked` and `ready` are sets of numbers, as in the code. A channel's client
(`sock`) and the bus's record behind it (`rec`) are freed where the code frees
them. The hooks let another thread in while select waits (`lock`). `excepted` is
history: an exceptional condition has freed a client, and what is said of clients
and handlers is said until then.

*IvyToolkit.* `built` is the loop the program is built with. A source is
registered for a number; the toolkit calls it when the kernel says so.
`HandleSocket` is a `recv` followed by its lines. A line may close its own
connection (Bye, bad format), either of two that are doubles (StartRegexp) or the
first of all (Die). A deletion is two actions, `Close` and `Deleted`, and between
them the Disconnected callback of the program runs (`del`): it may send to any
connection, the one being deleted included, and so have its writable event
registered. Only then is the client freed, and are the handlers taken back. Using
a freed client or record is recorded in `undef`, with what used it, after which
nothing is said. `excepted` is history, as in `IvyLoop`. The `IvyChannelStop` of
the toolkits is empty. A connection that `ClientCreate` refuses while it is
accepted, which is closed before any record exists, is not modelled.

*IvyTimer.* The list is a sequence, the clock stops at `MaxTime`. `TimerScan` is
two walks: the callbacks, each an action of its own between which the program
calls the library, and then the counting and freeing.

*IvyLists.* `next` are the nodes' pointers, `alloc` the allocated nodes. `Chain` is
what a walk visits, reading allocated nodes only. The outer walk saves the next
node before each call; the inner one is an atomic call.

*IvyOmpCache.* A pointer is the text of the entry it points to, or `"dangling"`
or `"garbage"`. *IvyPing.* Two queues of ids; time passes between any two steps.
*IvyFilter.* Words are sequences of letters; an expression is what the filter
looks at (caret, leading letters, the character after them) and what it
matches. *IvyDiscovery.* Lines are sequences of characters and the parser is
functions on them, with the code's order of tests; `unsigned int` wraps at
`Modulus`. *IvyTcl.* A callback is two actions, before and after its script, and
between them every command may be called. The record of a connection begins with
the announced name, when this program connected, or with one that is no
application's. After the script of Die, `IvyCleanup` reports every client
Disconnected and frees it (`cleaning`), and no connection comes any more; Tcl's own
loop goes on. Peers send one StartRegexp per connection, as `SendService` does
(`Renames`). *IvyProbe.* `kern` is the pipe, `buf`
what stdio holds; select sees the first only.

## Runs

| run | instance and bounds | what it shows |
|---|---|---|
| `fifo` | granule 2, maximum 6, writes of 0 to 7 bytes | `TypeOK`, `ImplementsQueue`. The ring reallocates once and twice, wraps at every offset, is refused at and beyond the maximum |
| `socket` | granule 2, maximum 4, kernel 2 bytes, line buffer from 1 byte, 3 frames of 2 or 3 bytes | `StreamIntact`, `WritableIffFifo`, `CongestionTold`, `FramesInOrder` (the frames before the first refusal arrive whole and in order); liveness `Delivered`, `Reaped`. Three frames are enough for a FIFO that fills while the kernel is full, drains by parts and fills again; the line buffer doubles twice |
| `socket_full` | as `socket` | violation of `WholeFrames` |
| `bus` | 2 applications, 1 connection, 3 bindings, 2 expressions, 1 message, both ready messages, a filter, unbinding | `ListsAgree`, `MsgAfterConnected`, `Mirrored`, `CallbackMatches`, `ReadyComplete`: the registries agree and mirror the bindings, nobody hears from a peer before it is Connected or of what it did not bind |
| `bus_ends` | an announcement received twice, a remote port equal to an application port, an expression that does not compile, exit and Die | `NoStaleClient`, `Mirrored` through refusals, closes by `CheckConnected` and deaths |
| `bus_edits` | 2 bindings, 2 changes, unbinding, exit | `CurrentHeld`: whatever is changed, unbound and bound again, the peer holds every current expression |
| `bus_live` | 1 connection, an echo of the application's own announcement, exit, stop, Die | `Introduced`, `Forgotten` |
| `bus_change` | 1 binding, 1 change | violation of `ChangeReplaces` |
| `bus_twice` | crossed announcements | violation of `OneConnection` |
| `loops` | 2 channels or connections; select alone with stop, select with a thread and exceptions; GLib or Xt, and Tcl, with a line per `recv` that may close, exceptional conditions, sends inside every callback | `CursorLive`, `HandlerOwns`, `DeletedOnce` of both select loops; liveness `ReapedAlone`, `WritableAskedAlone` of the single-threaded one; `RemovedSilent` of all toolkits; liveness `Drained` of GLib. Two channels suffice for a walk whose saved next element is removed, and for the number of a freed one to be used again; after a line that closed nothing the line loop is where it was |
| `programs` | 2 timers, delays 1 and 2, counts 1, 2 and for ever, clock to 3; 3 connections, 2 names, 2 bindings in Tcl; ivyprobe with 2 connections, 3 lines, 2 registrations | timers: `CursorLive`, `NotTooOften`, `NeverLost`, liveness `DueCalled`; Tcl: `LookupLive`; ivyprobe: `BlockedIfTwice`, liveness `EndQuits` |
| `library` | 23 532 lines with limits 31 and 15, modulus 64; 2 peers, 2 texts, 2 ids beside the array; 4 nodes with any ids; 3 pings, clock to 8; words of 2 letters, 3 words, 2 expressions | `NoWrap`, `ParsedRight`; `ExactWhenSettled`; `WalkLive`, `ImplementsList`; `PositiveExact`; `NothingMissed` |

The runs but `fifo` and `socket` switch deadlock checking off: programs make a bounded number
of calls, and a program that calls nothing, with nothing in flight, rests.
Two applications suffice for the protocol, which is pairwise; the sharing of
dictionary entries between clients is exercised by two connections of one pair.
The bounds are per application (`MaxBinds`, `MaxSends`, `Copies`) so that each run
spends its states on its own question.

The runs check what could be wrong; `TypeOK` of a module that no run lists states
the ranges of its variables, and can be added to the run's configuration.

Each property of each passing run has a mutant, an operator next to the
definition it replaces, that breaks it.

### Findings

* **A message can be merged with another** (`socket_full`). The header and the
  arguments of a message are queued by two writes, each taken whole or not at
  all. When the FIFO is nearly full, the header is queued and the arguments are
  refused; the next message that fits continues that line. `param.h:48` says that
  messages "will not be sent", `doc/NEWS:9` that they "will be lost".
* **`IvyChangeMsg` does not change** (`bus_change`). The peer keeps the old
  expression and adds the new one; what the old one matches keeps arriving. The
  run `bus_edits` shows what does hold: the new text is never missing.
* **Applications that start together are connected twice** (`bus_twice`). The
  detection of duplicates compares a port that is zero at one end and the
  ephemeral port, in network byte order, at the other. Each message is then
  delivered twice.

### What the passing instances leave out

Each of these is in the model; the constant or the stronger property named in
parentheses shows it, and TLC then reports a counterexample. The passing
properties say what holds without it.

* `timer.c:176`: a timer created with delay 0 by a callback is counted by the
  second walk of the same scan without having been called (`Delays` with 0:
  `NeverLost`). A timer modified by its own callback is called again without
  being counted (`CbOps` with `"modify"`: `NotTooOften`).
* A timer set, or a connection congested, by another thread does not wake
  `select` up (`Threaded`: `DueCalled` of `IvyTimer`, `WritableAsked` of `IvyLoop`).
* `ivyloop.c:171`: an exceptional condition calls `handle_delete`, and the
  deferred deletion or the next exception calls it again (`Excpt`: `DeletedOnce`
  without its `excepted`).
* `ivyloop.c:159`: a channel removed during a round is still read in it
  (`NoneAfterRemove`); `ivy.c:738`: Die frees the records that the rest of the
  round uses (`RecordLive`).
* A channel marked by a Disconnected callback of the deferred deletion, and
  earlier in the list than the walk, stays until the next round.
* `ivysocket.c:198`: under a toolkit, a line that closes its own connection frees
  the client whose line loop is running; `ivy.c:675` and `ivy.c:339` use the record
  of the connection they have just closed. These are in the passing run, which then
  stops (`undef` is `"line"` or `"record"`). An exceptional condition calls
  `handle_delete` and leaves every handler (`RemovedSilent` without its `excepted`).
* `ivyglibloop.c:107`, `ivyxtloop.c:83`: `IvyChannelRemove`, which `ivychannel.h:54`
  calls the removal of the callbacks of the channel, leaves the write source of GLib
  and Xt: that of a connection closed while congested is called with the freed client
  when the number of its descriptor is used again (`CallbacksRemoved`).
* A Tcl channel that is readable and writable at once is served for neither
  (`ivytcl.c:87`; `Drained` is therefore of GLib).
* `ivy.c:2019`: with a handshake open, the OpenMP array may hold entries twice or
  never written (`TriedLive`).
* `ivy.c:1807`: after an id was announced twice, the nested walk removes the node
  the outer one saved (`Change`: `WalkLive`).
* `ivy.c:753`: of two pings in flight, the second pong is dropped (`EveryPong`).
* `ivybind.c:284`: an expression whose last leading letter is optional, or that
  came before the word it needs, is dropped (`Forms` with `"opt"`, `Late`:
  `NothingMissed`). `ivybind.c:300`: the debugging check compares whole messages
  with words (`BeginsWithWord`).
* `ivytcl.c:246`: applications that share a name share an entry, which goes with
  the first of them (`ConnectedFound`). `ivytcl.c:232`: events other than the first
  two are reported modulo 2 (`ToldEvent`). `ivy.c:642`: a second StartRegexp with
  another name would leave the old entry behind when the client is freed
  (`Renames`: `LookupLive`). `ivytcl.c:315`: a script that unbinds
  itself, as `examples/unBind.tcl:14` does, frees the record its callback uses
  afterwards (`FilterLive`).
* `ivyprobe.c:264`: applications that come and go register the standard input
  again, and the second channel's read blocks the bus (`NeverBlocked`).
  `ivyprobe.c:128`: lines that stdio read ahead wait for the next input
  (`LinesHandled`). `ivyprobe.c:148`: `.dieall` looks applications up by name
  (`DieAllReaches`).

## Fairness

*IvySocket.* Weak fairness of the loop's two steps and of the peer's reads: both
processes run their loops, and `select` reports what is ready. Strong fairness
of `ReadEnd`: an end of file is reported in every round, but is only read in the
callback phase, which comes and goes. *IvyBus.* Weak fairness of finishing
`IvyStart`, of handling a datagram, of the three things the read callback of an
end may do, and of deferred deletion. No fairness on anything a program decides,
on `SendFailed`, nor on a process exiting or a peer disappearing.
*IvyLoop*, *IvyTimer.* Weak fairness of the loop's steps, which include the return
of callbacks, and of the clock. Nothing makes a descriptor ready. *IvyToolkit.*
Weak fairness of the lines of a running handler, of its end, of the return of a
callback inside a deletion, and of a peer that reads; strong fairness of each connection's handlers, because one is not called
while another runs, and a toolkit serves its sources in turn. *IvyProbe.* Weak
fairness of select reporting the standard input and of `HandleStdin`.

## Proofs

Every theorem holds for all values of the constants that satisfy the module's
named assumption and what the theorem itself asks, so for any number of channels,
timers, applications, connections and messages, and for all sizes. With them every
invariant, every action property and both refinements of the passing runs are
proved.

| module | theorem | states |
|---|---|---|
| `IvyFifoProofs` | `TypeCorrect` | the pointers stay in the ring, no unwritten memory is sent |
| | `Refinement` | `ImplementsQueue`: the ring is a queue of bytes |
| `IvySocketProofs` | `SocketTypeCorrect` | the same within a connection, with the kernel's queue and the line buffer |
| | `StreamStaysIntact` | no byte is lost, doubled or overtaken |
| | `WritableOnlyWithFifo` | the loop is asked for the writable event exactly while a FIFO exists |
| | `CongestionAlwaysTold` | what the application was told of congestion is true |
| | `FramesStayInOrder` | the lines the peer reads are the frames sent, whole and in order, up to the first refusal |
| `IvyTimerProofs` | `TimerTypeCorrect`, `CursorStaysLive` | a scan never stands on a freed timer |
| | `CallsBounded`, `NoTickLost` | a timer is called at most, and before it is freed at least, as often as asked |
| `IvyLoopProofs` | `LoopCursorStaysLive` | no walk stands on a freed channel |
| | `HandlersOwn`, `DeletedAtMostOnce` | handlers run for the connection select was asked about; one deletion each |
| `IvyBusProofs` | `NeverStale` | the dictionary names live clients only |
| | `ConnectedFirst` | a peer is announced before its messages |
| | `CallbacksMatch` | a message is handed to a binding that matches it |
| | `ListsAlwaysAgree` | dictionary and client lists hold the same |
| | `CurrentAlwaysHeld` | who has read everything holds the current text of every binding |
| | `AlwaysMirrored` | and nothing else, when nothing is changed |
| | `ReadyIsComplete` | who counts a peer as ready has all that it announced |
| `IvyPartsProofs` | `NumberNeverWraps` | the parser's `unsigned int` never wraps |
| | `ParserExact` | the parser accepts the announcements, with their fields, and nothing else |
| | `ListRefinement`, `WalkStaysLive` | the linked nodes are a list of subscriptions; no walk stands on a freed node |
| | `ArrayExactWhenSettled` | the OpenMP array is the dictionary when no handshake is open |
| | `FilterMissesNothing` | the filter drops nothing that a declared word could match |
| | `PositiveValuesExact` | a positive value is the round trip of its ping |
| | `LookupsStayLive` | a Tcl name leads to a live client of that name |
| | `RemovedStaysSilent` | under GLib, Xt and Tcl: no handler that was taken back is called for a freed client |
| | `OneChannelNeverBlocks` | ivyprobe blocks only when it registered its input twice |

*FIFO.* `TypeOK` is itself inductive, but only because it is more than types: it says
that every cell between the pointers has been written. The refinement needs
it, and the argument goes through the contents of the ring as a sequence:
`MovedOK` (a reallocation keeps the contents), `CopiedOK` (a write that leaves
one cell free appends its bytes, wherever it wraps), `RefusedOK` (a refusal
changes only the flag, and the abstract queue allows it there), `DrainOK` (a drain
removes a prefix) and `SendOK` (the two sends give out a prefix of the contents in
order, `Halves` and `TakeTwice` joining them). `WriteOK` and `SendOK` are the
facts the other proofs use.

*Connection.* `SocketInv`, the four properties together, is inductive; none of them is
without the others. The writable handler may only run on a FIFO
(`WritableIffFifo`) that is in order (`TypeOK`), and a send may only go straight to
the kernel, or start a FIFO, when no bytes wait before it (`StreamIntact`, where no
FIFO means nothing pending). The two writes of a frame are handled by one lemma
about `BufferizedSocketSendRaw`, used twice.

`FramesStayInOrder` is about three concatenations: frames, the bytes taken of
them, the lines cut from the bytes received. `FramesInv` says that the
peer's lines and its unfinished one are a cut of what it received at the
newlines (`Split`; `SplitMore`: cutting what is left over with the next bytes is
cutting it all), and that the bytes taken are bytes of the frames, in the order of the
frames (`Ordered`, `OfFrames`), possibly with holes. Where the first n frames were
taken whole there is no hole, because an increasing function onto an initial segment is the
identity (`OnlyIdentity`), and the n-th line is the n-th frame (`NthLine`). Its last
conjunct bounds what a deleted connection leaves in the kernel, of which
`StreamIntact` says nothing.

*Timers.* `TimerInv` adds to the types that the saved element is the successor of
the cursor in the list as it is now: a removal only marks, and new timers are put in
front. The two counting theorems rest on `Upper` and `Lower`: calls made plus
ticks left are at most, and at least, what was asked, plus one for a timer that the
scan has called and not yet counted (`Bonus`). That is where the order of the
list matters: a new timer is behind the cursor, though it was not called. `CallsBounded` is for callbacks that do not modify timers (`"modify"
\notin CbOps`, see above) and counts other than 0, which `timer.c` decrements to
`TIMER_LOOP`; `NoTickLost` is for delays other than 0.

*Loop.* `LoopInv` adds to the types that cursor and saved element of a walk are in
the list, and differ: the loop frees no channel but the one it stands on. `CalmInv`, for
states before any exceptional condition, has three parts: channels in the list
and open descriptor numbers own each other (`Owners`); every number given to
select, or reported by it, belongs to a channel that was there when select was
entered (`Reported`), which holds because a number is only freed at the top of the
round, when nothing is reported; and no channel in the list has been
deleted but the one being deleted (`Deleted`).

*Bus.* Five layers, each inductive relative to those it names.

* `Safe`: `Shape` are the types and a dictionary that is in order (one entry per
  text, none empty); `Held` says that the client records of an application are
  those of its open sockets; `Tidy` that the dictionary names only those. The
  lemmas before it say what each function that edits the dictionary does to what
  each client holds; the hardest is `delOneClient`, which removes the client's texts
  one by one and then sweeps, and is shown to leave nothing of that client and
  everything of the others. `NeverStale` follows.
* `Ok`, of every end that has not been told of its peer: each `Msg` in its
  channel is behind an `EndRegexp`; and once the peer has a client record for the
  connection, and so may send, the `EndRegexp` is in the channel already. The
  second part is what makes the first inductive: `IvySendMsg` may send at any time.
  `ConnectedFirst` follows.
* `Traced`, when no program calls `IvyChangeMsg` (`MaxChanges = 0`): an id is given
  out once, and has one text wherever it is known, in the bindings of its owner, in lines
  on their way and in the registries of its peers; a message on its way
  matches that text; dictionary and lists agree at all ends, also at the ends of
  deleted clients. `CallbacksMatch` and `ListsAlwaysAgree` follow. Without
  the hypothesis both are false: a message for the old text may arrive at the
  changed binding, and the run `bus_change` shows what a change leaves behind in
  the peer's lists.
* `Synced`, of every end that handles what it reads (`Attends`: not ignored, its application
  running), relates the lines in its channel and what it has registered to what
  its peer has bound. `Moves` reduces the protocol to six things that a step can do
  to such an end: nothing, handle a line, lose a tail of the channel, get an
  `AddRegexp`, get a `DelRegexp`, be greeted with the whole list. Of these each
  part of `Sound` is shown to be kept. Its heart is `Current`: of every
  current binding no `DelRegexp` is on its way, and it is refused by the filter, on
  its way, or registered. No id that is still to be given out is deleted by a line on its way
  (`DelIds`), so a new binding cannot be caught by an old deletion. With an empty channel
  `CurrentAlwaysHeld` follows. `Intro` says the same of the handshake: what was
  announced is on its way before the `EndRegexp`, or registered. That an
  application counts to two only at that `EndRegexp` (`ReadyOK`) gives
  `ReadyIsComplete`.
* `Past` is the other direction, when nothing is changed: what is registered or on its
  way and no longer bound has a `DelRegexp` behind it. With `Traced`, by which
  an id has one text for ever, it gives `AlwaysMirrored`. After a change the old text has
  no line behind it, and the theorem would be false.

The attempt to prove `MsgAfterConnected` showed that its first form, that an
end that receives a message is told of its peer, was false in instances larger
than those of the runs: an end that `CheckConnected` ignores is never told and
may still have messages in its channel, which `Receive` drops. It now says so.

*Discovery.* For `NumberNeverWraps` `FitsExact` is the reason: the test by division, made before the
multiplication, is equivalent to the bound on the result (`DigitRange` and
`LimitRange` give its hypotheses). For limits below 9 the subtraction in the test
would itself wrap, which is why the assumption asks for 9.
`ParserExact` has an invariant for each direction. `Found`: the fields read so far lie
between positions of the line as the grammar has them, which at the end are a cut of
the line (`FoundIs`). `Stands`: for every cut of the line into an announcement
within the limits, the cursor is at the place of that cut where the field being read
begins, or inside its digits with their value so far, so that no test refuses (`Followed`).
Neither the parser nor the proof knows that there is one such cut; it follows. The value
of digits is a recursive function local to `Value`; that it exists, is the same for every
length, and does not fall when a digit is added (`ReadsExists`, `ReadsSame`, `ValueGrows`)
go through the least counterexample. The hypothesis says that a line is a string: no
character of it is the 0 that ends it.

*Lists.* `ListHolds(s)`: the allocated nodes are those of `s`, each once, each linked to
the next and the last to NULL, with different ids. Such a sequence is what the recursive
`Chain` computes (`ChainSuffixes`, by the least suffix on which it does not), so a removal,
which relinks what is kept of the chain, holds a sublist again (`UnlinkOK`). `AtFront` is what
makes `WalkStaysLive` go through: the outer walk of `delOneClient` is always at the head of the list,
with its second node saved, because the inner walk removes the head and, ids being
different, nothing else. Every step is then one of `RegListSpec` (`ListRefinement`). Without
different ids, that is with an id announced twice (`Change`), both are false, see above.
The hypothesis says that NULL is not a node's address.

*OpenMP array.* While a handshake is open the array may hold anything well formed. It is rebuilt
when the last one ends, and every change from then on keeps it exact (`Exact`: the first
`end` cells point to the dictionary's entries, in order and once each).

*Filter, pings.* `FilterInv` is `NothingMissed` with types; the words are declared before
the first expression and an expression's leading letters are a whole token, as `IvyLibrary`
fixes (`Forms`, `Late`; see above for what happens otherwise). `PingInv`: the
timestamp is that of the last ping sent, as long as it is not 0, and its id is the
count of pings.

*Tcl, ivyprobe.* `TclInv`: an entry of `app_table` leads to a connected client of that name. A
script inside a callback may run any command, so this holds between the two halves of a
callback too; NULL is neither a client nor a name. The entries go one by one while
`IvyCleanup` runs, each before its record is freed. `ProbeInv`: when only one channel
for the standard input is registered and select reported it, there is something to read.

*Toolkits.* `ToolkitInv`: until an exceptional condition has called `handle_delete`,
the channel of a freed client has none of the sources that `IvyChannelRemove` takes
back, and the client being deleted is live. Inside the deletion nothing is said
about its sources, since the callback may register them again; that they are taken
back in the step that frees the client is what makes it inductive. A send needs a
live client, so that nothing registers a handler afterwards. It holds of all three
loops, with lines that close any connection.

Facts about sublists and counts, which need an induction over numbers, go through
the least counterexample (`LeastNat` of `IvyLemmas`).

### Only model-checked

* Liveness (`Delivered`, `Reaped`, `Introduced`, `Forgotten`, `ReapedAlone`,
  `WritableAskedAlone`, `Drained`, `DueCalled`, `EndQuits`): out of the prover's reach.
  They rest on fairness and ENABLED.
* The three violations, which are counterexamples.
* That the bounds of the runs reach the interesting cases is TLC's coverage; the
  theorems need no bounds, but where a theorem has a hypothesis (`MaxChanges = 0`, the
  flags that `IvyLibrary` and `IvyPrograms` fix, `"modify" \notin CbOps`) the run has it too.

## Not modelled

* Interval expressions (`intervalRegexp.c`). `nextMax` reverses digits with loops
  that count a `size_t` down while it is at least 0 (line 203), which never
  ends, for every interval of more than one number; what is behind it cannot be
  reached. `strictPosRegexpGen` with equal bounds reads a buffer it did not
  fill.
* `ivyglutloop.c` defines `IvyChannelAdd` with four parameters against the five of
  `ivychannel.h`, and does not compile.
* Message buffers (`ivybuffer.c`): formatting. uthash: third-party, taken as a
  sequence in insertion order. PCRE: taken as what it matches.
* Direct messages and Error lines, which only call a callback or print;
  malformed lines close the connection, as Bye does.
* IPv6, multicast and UDP set-up, `SocketBroadcast`, `SocketWaitForReply`: no
  protocol state. `IvyIdle` is a round of the loop without hooks and timers.
* Tcl scripts that enter the event loop, and commands before `Ivy::init`. The
  congestion callbacks inside a script that sends change no table. A Tcl package built without
  `TCL_CHANNEL_INTEGRATION` (`Makefile:105` sets it) runs on the select loop, where
  `IvyCleanup` frees the records of clients that are reported Disconnected a round
  later, and `app_table` holds them meanwhile (`RecordLive` of `IvyLoop` is about the
  same records).
* ivyprobe's other commands, which print or call one library function;
  the tools `ivythroughput`, `ivyperf`, `ivytestready`, `ivytranslater`.
* What follows a use of freed memory is undefined: `IvyBus` stops at the Die line,
  and deletes a client as if its list were intact; `IvyTcl` goes on with its cleanup
  in the same way; `IvyToolkit` stops.

## Plan

What the proofs could reach is proved. What is left is modelling: the
direct messages and Error lines as actions of `IvyBus`, the commands of ivyprobe
that call the library, and `ivythroughput`, whose processes start, stop and kill
one another. `IvyBus` could be told of refused writes, which now only `IvySocket` knows;
its channels would then lose and merge lines as the run `socket_full` shows.
