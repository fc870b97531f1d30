# TLA+ models of the winsock examples

The repository is a collection of Winsock programs written for a network
programming course: `src/01_midterm` (ch01-ch09) and `src/02_final`
(ch12-ch23).  Each is a page or two long.  What makes them hard is what happens
between them and around them: several threads share memory, one thread juggles
many connections, or a protocol crosses a transport that cuts messages wherever
it likes and an end that may go away.  Those behaviours are what these modules
describe, check with TLC and prove with TLAPS.

- [1. The parts of the system](#1-the-parts-of-the-system)
- [2. Modules and how they correspond to the code](#2-modules-and-how-they-correspond-to-the-code)
- [3. What is checked](#3-what-is-checked)
- [4. Fairness](#4-fairness)
- [5. What is proved](#5-what-is-proved)
- [6. What the runs found](#6-what-the-runs-found)
- [7. What is not modelled](#7-what-is-not-modelled)
- [8. Plan](#8-plan)

Running it, in this directory:

    tlc -workers 2 -config MCIocpEcho.cfg MCIocpEcho
    tlapm IocpEchoProof.tla


## 1. The parts of the system

### 1.1 Echo servers

Four servers offer the same service - what a client sends comes back, and the
connection is closed when the client has closed it - on four different Windows
mechanisms.  They share no code and no state with each other.

| program | state it keeps | operations | what is hard |
|---|---|---|---|
| `ch23_IOCP-server.c` | one `PER_HANDLE_DATA` per connection, one `PER_IO_DATA` per operation, the completion port, main's and each worker's locals | accept, associate, first `WSARecv`; dequeue, READ branch (send back, receive again, or close and free), WRITE branch (free) | any worker handles any packet; a receive and sends of one connection are outstanding together; results of the overlapped calls are not looked at |
| `ch23_OIO-CompRout-server.c` | one `OVERLAPPED` and one `PER_IO_DATA` per connection, the thread's APC queue | accept without blocking, `SleepEx`, read and write completion routines | the two routines alternate on one buffer; they run only inside `SleepEx`; `free` inside a routine |
| `ch12_IOM-select-server.c` | `readfds`, its copy `tempfds`, the loop variable | `select`, `accept`, `recv`, `send`, `closesocket`, `FD_SET`, `FD_CLR` | `readfds` changes while it is walked by index; socket values are used again; one thread must never block for one client |
| `ch21_asyncNoti-WSAEvent-server.c` | `socket_array`, `event_array`, `socket_count`, the loop variable | `WSAWaitForMultipleEvents`, `WSAEnumNetworkEvents`, accept, `recv`, non-blocking `send`, compression of both arrays | network events are recorded, handed out and re-enabled by rules of their own; two arrays must stay in step under removal during the scan |

Correct means: bytes come back in the order they were sent, each once; no
block of memory is used by two owners, used after it was freed, or forgotten;
a connection is closed when, and only when, its client is gone; every client
that waits is served.

### 1.2 Calculators

`ch05_tcp-cal-server.c` with `ch05_tcp-cal-client.c` serves one client after the
other; `ch19_beginthreadex-server.c` with its client gives each client a thread.
State: the connection, `operand_count`, `recv_sum`, `buf`, `flag`; the process
that ch19's threads share. Operations: receive the count, receive the rest of
the request piece by piece, calculate, send the result.  Hard: the transport
cuts requests and replies anywhere; the length of the rest depends on a byte
read earlier, kept in a `char`, and is never compared with `BUF_LEN`; a client
may leave in the middle.  Correct means: the k-th answer is the answer to the
k-th request, and a client that waits is answered.

### 1.3 Thread synchronisation

| program | state | operations | what is hard |
|---|---|---|---|
| `ch20-1_syncThread-CS.c`, `ch20-2_syncThread-Mutex.c` | `shared_number`, the lock | lock, increase or decrease, unlock; create, wait for all, delete the lock | load, add and store of 50 threads interleave; the lock must outlive its users |
| `ch20-3_syncThread-Semaphore.c` | `shared_number`, three semaphores | `scanf` into the number; add it; multiply it | one producer waits for both consumers on one semaphore of maximum 2; results of `ReleaseSemaphore` are not looked at |
| `ch20-4_syncThread-Event.c` | `input_string`, one manual-reset event | `fgets`, strip the newline, set; count | nothing but the event orders main's writes before the threads' reads; one event must let both through |

### 1.4 Echo clients, and the server of ch04

`ch04`, `ch12`, `ch21` and `ch23` have echo clients, one loop of "send a line,
receive the echo, print it" each; `ch04` also has a server that serves one
client after the other.  State of a client: `buf`, how much it expects and how
much has come.  They differ in how they receive: a single `recv` (ch21), a loop
that adds up `recv`'s result unchecked (ch23), a loop that prints and terminates
every piece (ch04), `recv_n` (ch12).  Hard: the echo comes in pieces, the
server may be stopped in the middle, and most results are not looked at.
Correct means: what is printed is what was sent, `buf` is not left, and no
client waits for something that will not come.

### 1.5 One-way transfers

`ch01_tcp-server.c`, `ch02_tcp-client.c`/`-server.c`, `ch07_shutdown-*.c` (a
file, a half-close and an acknowledgment), the `ch22` programs (one overlapped
receive, by event or completion routine) and `ch14_*` (a text file sent by
datagrams over and over).  State: the sender's place in what it sends, the
receiver's buffer and loop.  Hard: the end of the stream is the only framing;
in ch07 each end waits for the other; the end of a file shows only after the
read that ran into it; a receive may complete at once, later, or fail.
Correct means: a receiver that ends has everything, both ends end, nothing is
written behind a buffer, no line is left out.

The rest, `ch03`, `ch06`, the datagram examples of `ch01` and `ch02`, `ch08`
(name lookup), `ch09` (socket options) and `ch19_WaitForSingleObject.c`, are
calls in a row without state that a later call depends on.

### 1.6 How the parts interact

Programs interact only through the network: a server with its clients.  Within
a program, threads share variables and kernel objects (completion port,
critical section, mutex, semaphores, event), and the kernel completes
overlapped operations, queues completion routines and records network events
at times of its own.  `PROJECT.json` lists every component and every hazard
with its line and the properties that cover it.


## 2. Modules and how they correspond to the code

    TcpPeer ........... clients and transport, extended by the four echo servers
      IocpEcho  SelectEcho  CompRoutEcho  WsaEventEcho
         \         |          /
          EchoService ........ what an echo server promises (refined by three of them)
    CalcServer  EchoClients  OneWay
    SyncThreads ....... main and its threads, extended by the programs of ch20
      SharedCounter  -> AtomicCounter
      SyncSemaphore  -> LockstepFold
      SyncEvent

`M -> A` and the lines to `EchoService` are refinements: `M` holds `INSTANCE A
WITH ...` and checks that it behaves as `A!Spec` says.  `MCx` modules give the
function-valued constants of `x` their values; `xProof` modules hold the
theorems (`SyncProof` those of the three programs of ch20, `ClientsProof` those
of `EchoClients` and `OneWay`, whose names therefore begin with `Counter`,
`Semaphore`, `Event`, `Echo` and `Transfer`).  The field `map` of `PROJECT.json`
names the source lines of every definition.

Conventions used everywhere:

- One action per step another actor can observe.  A handler of a
  single-threaded server is split only where it calls into the kernel at a
  point where clients can make a difference.
- Byte `k` of a client is the number `k`: "the echo is right" is "the numbers
  come back as 1, 2, 3, ...", and a buffer is the pair of its first byte and
  its length.
- Text printed, `WSAStartup`, `bind`, `listen` and address handling are left
  out.  If one of them fails the program ends before anything modelled here
  begins.
- A definition commented *Variant* is a wrong version of the definition that
  follows it (a dropped `closesocket`, a swapped order, a count off by one).
  No specification uses it.  It documents which mistake the property it is
  paired with in `PROJECT.json` would notice: substituted for the right
  version, it makes TLC report that property.

**TcpPeer** (external).  `peer[c]` goes from `away` through `open` to `fin`
(graceful close) or `rst` (reset); `sent`, `read`, `wire` and `delivered`
count bytes on the way to the server, into it, out of it and through the
transport.  `Impatient` clients may close before their echo is back,
`Resetters` may be reset at any time, also in the backlog before they are
accepted.  `MaxBytes` bounds what each client sends.

**EchoService** (abstract).  `Send`, `Echo`, `Leave`, `Release`: what comes
back is a prefix of what was sent; a connection is released only after its
client left, and gets nothing after that; clients in `Served` get everything
back and are released in the end (`Fair(c)`, per client, so that an
implementation can state what may keep it from one).

**IocpEcho** (`ch23_IOCP-server.c`).  `io[i]` is a `PER_IO_DATA` block and
says who has it: the kernel (`posted`), the port (`queued`), a worker
(`held`), nobody (`free`), or nobody although it was not freed (`lost`, after
an overlapped call that failed).  `key[c]` is the `PER_HANDLE_DATA` record.
Main is `Accept`, `Register`, `FirstRecv` (lines 66-101).  A worker is
`Dequeue` (122), `LoadKey` (128), then `CloseSock`, `FreeBoth` at the end of the
stream, or `SendBack`, `RecvNext`, or `FreeIo` for a finished send.  The kernel
is `CompleteRead` and `CompleteWrite`, which may overtake each other and cut or
join bytes; the port is a queue, but a worker may be delayed between any two
steps.  The value of `client_sock` and the key are named after the client, so
a freed key read at line 128 is visible as `key[c] = "freed"`.

**CompRoutEcho** (`ch23_OIO-CompRout-server.c`).  `block[c]` is the pair
`OVERLAPPED`/`PER_IO_DATA` of a connection, `apcs` the queue of completion
routines, `pc` main's place between `SleepEx`, `accept` and the first
`WSARecv`.  `ReadEnd`, `ReadData` and `WriteDone` are the routines, each with
every call it makes; they run only while `pc = "sleep"`.  An error of `accept`
other than `WSAEWOULDBLOCK` ends the process (`AcceptFails`).

**SelectEcho** (`ch12_IOM-select-server.c`).  `readfds` is the array inside
the `fd_set`, in order, so that `FD_CLR` shifts the entries behind the removed
one and `FD_SET` appends, or does nothing when `FdSetSize` is reached.
`owner` maps a socket value to its client; `accept` may hand out a value that
was closed a moment ago.  `Select` fills `tempfds`, `Skip`, `AcceptClient`,
`RecvEnd`, `RecvData` + `SendBack` are the walk.  `accept`'s
`INVALID_SOCKET` is put into `readfds`, and the next `select` fails, which
ends the server (`SelectFails`).  Clients in `Deaf` do not read: `send` waits
(`SendBlocks`) while such a client is there and `Window` bytes are on the way.

**WsaEventEcho** (`ch21_asyncNoti-WSAEvent-server.c`).  `socks` and `events` are
the two arrays.  `recorded`, `signaled`, `armed` and `closing` are Winsock's
side: which network events are recorded for a socket, which event objects are
signaled, for which sockets `FD_READ`/`FD_ACCEPT` may be recorded again, and for
which `FD_CLOSE` has been.  `Enum` is `WSAEnumNetworkEvents`. The `send` takes
what fits into `SndBuf` and drops the rest, as the code does by not looking at
its result.  `Overrun` is a write outside an array: a client too many for
`socket_array` and `event_array` (lines 101-102), or the terminator of line 117
behind a full `buf` or at `buf[-1]`.  The server is then `"wild"` and not
followed further; that the terminator does no harm is possible too.

**CalcServer** (both calculators).  The variable `program`, chosen in `Init`,
says which pair runs.  `up` and `down` are the bytes under way; every `recv`
takes as many as it likes, at least one.  A byte carries the number of its request
and its place in it, and `calculate` yields the right result exactly if `buf`
holds the whole request.  `AsChar` is the conversion to a signed `char`.  The
unchecked first `recv` of ch19 leaves any value in `operand_count`
(`RecvCountEnd`).  Nobody compares a number of operands with `BUF_LEN`, 1000 in
ch05 and 120 in ch19.  A client that writes behind its own `buf` goes on and
sends the request, or is gone (`SendRequest`).  A server's `recv` that writes
behind a thread's `buf` (`Overrun`) makes the whole `process` `"wild"`: its
threads are not followed, and a client that waits gets an answer to nothing
(`WildReply`) or finds the server gone (`ServerLost`).  `AcceptFails` ends ch05
for a client that left the backlog.

**EchoClients** (ch04, both ends, and the clients of ch12, ch21 and ch23).  The
variable `program` says which client all clients run.  `buf[c]` is the client's
buffer, place by place, with 0 for NUL, because what is printed depends on where
terminators are put; `Typed` and `Received` are what `fgets` and `recv` leave in
it, `Text` what `printf` makes of it.  `Ask` is the user's line with `send`;
`Ch04Piece`, `Ch12Piece`, `Ch21Piece`, `Ch23Piece` are one `recv` of each
program with all that follows it; `RecvEnd` and `RecvFails` are `recv` returning
0 and -1.  `cl[c] = "wild"` is a write outside `buf`, after which nothing is
promised: `buf[-1]`, or a word that ch04's `scanf("%s")` has no room for
(`Overlong`).  The server takes and echoes pieces of any length; for ch04 it
accepts only when it has no client.  `ServerStops` ends it at any moment, with a
graceful end or a reset for each client, and `Refused` is the reset that answers
what is sent to it afterwards.

**OneWay** (ch01, ch02, ch07, ch14, ch22).  Here `pair` says which two programs
run.  `file` is what is sent, `pos` and `got` how far sender and receiver are;
for ch14 `inBuf` is the range of the file in the sender's buffer and `net` the
set of datagrams under way, which may be lost, repeated and overtake each other.
`Part` is what one `fread` or `send` takes, `Stop` where `fgets` stops. `rcv =
"wild"` and `snd = "wild"` are a buffer left, also by `printf` of a string
without an end (`Printed`, `RecvAck`), `"stuck"` an alertable wait with nothing
queued. Either end of a TCP pair may be stopped (`KillSender`, `KillReceiver`).

**SyncThreads** (ch20).  What the programs of ch20 share: `main`'s place, `pc[t]`
and the loop variable `i[t]` of each thread.

**SharedCounter** (ch20-1 and ch20-2).  `program` says which lock protects the
loop and whether it is held for the whole loop (ch20-1) or one round (ch20-2).
`Load`, `Add`, `Store` are the three instructions of `shared_number++`.
`AtomicCounter` is the abstract counter.

**SyncSemaphore** (ch20-3).  `sem[t]` is the count of the semaphore thread `t`
waits for; main's eight places are the three creations, the three joins, the
closing of the handles, and the end.  `LockstepFold` is the abstract program:
take a number when all have caught up, fold it.

**SyncEvent** (ch20-4).  `string` is the array with its initial zeros, `line`
what was typed; `Fgets` writes one character, `FgetsEnd` the terminator, with
the newline or without it when the line fills the buffer, or nothing at the
end of the input.


## 3. What is checked

Each run finishes within three minutes on two cores.  `CHECK_DEADLOCK FALSE` is
given everywhere: the thread programs and the transfers end, and the servers
have nothing more to do once all clients of a bounded instance are gone.

| run | instance | shows |
|---|---|---|
| `iocp` | 2 clients (2 and 1 bytes; one may reset), 2 workers, 5 blocks | `EchoInOrder`, `OneReader`, `ReadBranchOwnsConn`, `BlockInOnePlace`, `LeakOnlyAfterReset`, `ImplementsEchoService` with its liveness, `ReleasedAfterFin` |
| `iocp_key` | the same with 1 byte each, 4 blocks | violation, see section 6 |
| `select` | 3 clients (2, 1, 0 bytes; one may reset, one does not read), 3 socket values, `FD_SETSIZE` 3, `BUF_LEN` 3 | `NeverBlocks`, `WatchesOpenSockets`, `ForgetsOnlyWhenFull`, `ImplementsEchoService` |
| `wsaevent` | 3 clients (2, 3, 0 bytes; the second may reset), places for two of them, `BUF_LEN` 3, `SndBuf` 2 | `ArraysMatch`, `EchoAscends`, `NotificationsMatchBytes`, `EveryByteEchoed`, `ReleasedAfterFin` |
| `comprout` | 3 clients (2, 1, 1 bytes; one may reset) | `BufferNotReused`, `RoutinesFindTheirBlock`, `ImplementsEchoService` |
| `calc` | both programs, 2 clients, ints of 2 bytes, `CHAR_MAX` 2, `BUF_LEN` 8 (ch05) and 4 (ch19); one client that asks for 1 or 2 operands and stays, one that asks for 1 or 3 and may be stopped | `RepliesMatchRequests`, `TypeOK`, `EveryRequestAnswered`, `LeaverReleased` |
| `clients` | the four clients, 2 of each, one of which may be stopped; lines of 2 and 3 characters (3 overrun ch04's `buf`), 5 in all, `BUF_LEN` 3, a server that takes 2 at a time and may be stopped | `PrintsTheEcho`, `BufferRespected`, `RoundEnds`, `LeaverReleased` |
| `client_pieces` | the same | violation, see section 6 |
| `oneway` | the six pairs, every file of up to 7 characters and newlines, `BUF_LEN` 3, ch02 with 2 rounds | `EndMeansAll`, `BuffersSuffice`, `TransferTypeOK`, `NothingSkipped`, `TransferEnds` |
| `counter` | both programs, 4 threads, 2 rounds | `NoLostUpdate`, `PrintsZero` (the number printed is the 0 of the comment at line 52), `ImplementsAtomicCounter` |
| `semaphore` | 3 rounds, 2 numbers | `NoReleaseLost`, `ImplementsLockstep`, `MainReturns` |
| `event` | `STR_LEN` 4, all lines | `CountsTypedLine`, `BothPrint` |

Every safety invariant and action property of the table is also a theorem, and
so is the type invariant of every module (section 5).

Why the instances are large enough:

- *Echo servers.*  What can go wrong needs one connection against itself (two
  operations of it in flight, two workers on it) or two connections on shared
  state (port, arrays, APC queue, `readfds`).  Two bytes are the least that can
  be split, joined and overtaken, and one receive takes one of them or both:
  `BUF_LEN` is 2 where the receive is given the whole buffer (`iocp`,
  `comprout`) and 3 in `select`, whose `recv` is given `BUF_LEN - 1` (line 83).
  In `wsaevent` it is 3 for the three bytes of one client, which fill `buf`, and
  more than the transport takes at once (2). The single-threaded servers get a
  third client because removal from an array during a walk needs an entry
  before, at and behind the gap, and because a client that is reset in the
  backlog should meet one that is being served and one that is leaving.  In
  `select` there are as many socket values as clients, and a freed one can be
  handed out in the same walk; `FD_SETSIZE` 3 has room for the listening socket
  and two of the three, and so have ch21's arrays, which the third client
  overruns if none has left.
- *Blocks of the IOCP server.*  One READ block per client and one WRITE block
  per byte can be in use at a time, so 5 (4) blocks never run out: `malloc`
  does not fail.
- *Calculators.*  Two operands of two bytes make a request of six bytes, cut in
  every way; a second request shows that the first left nothing behind.  A count
  of 3 with `CHAR_MAX` 2 is the one of 128 of the code.  ch05's `buf` of 8 holds
  what 2 operands take at the server (5) and the client (6), and overflows by
  none that a `char` counts, as its 1000 bytes do; a client with 3 operands just
  fills it.  ch19's of 4 holds one operand, and 2 are what 30 are of the code.
- *Clients.*  A line of two characters comes back whole or in two pieces; one
  of three is longer than a `recv` of the server, and fills the buffer of ch12.
  Five characters leave room for a second round after the first, where ch21's
  rest of the first round is.  A second client makes ch04's queue.
- *Transfers.*  Files of 0 to 7 characters with buffers of 3 are shorter than a
  buffer, a multiple of it, and longer by every remainder, with newlines at
  every place.
- *Threads.*  Four threads give two of each kind; every pair meets between
  load and store in each of two rounds.  Three rounds of the semaphores are a
  first, a middle and a last one.  Lines of 0 to 3 characters and `STR_LEN` 4
  cover a line that is empty, that fits with its newline, and that fills the
  buffer.  The theorems of section 5 remove these bounds.

Several properties carry an excuse, and each is a fact of the code:

- *Reset in the backlog.*  The select and the completion-routine server end,
  with all their connections, when `accept` fails for a connection that was
  reset before it was accepted (`AcceptFailed`, `ResetInBacklog`).
- *A client that does not read.*  `send` of the select server waits for it, and
  with it every other client (`StuckInSend`).
- *A full `fd_set`.*  `FD_SET` does nothing when `FD_SETSIZE` sockets are
  watched, so that the select server accepts a client it will never look at,
  although the comment of line 72 says it is registered
  (`ForgetsOnlyWhenFull`).  `Excused(c)` is these three, and
  `ImplementsEchoService` says that nothing else keeps the server from a client.
- *A full transport.*  The WSAEventSelect server ignores the result of its
  non-blocking `send`, so bytes may be lost: a client with no more outstanding
  than `SndBuf` is served, in general the echo is an ascending selection
  (`EchoAscends`), and the server is not shown to implement `EchoService`.
- *A count beyond `CHAR_MAX`, a request longer than `BUF_LEN`.*  The first is
  negative in the calculators' `char`: the server answers before it has read the
  request and takes the operands for the next ones.  The second (from 250
  operands in ch05, from 30 in ch19) leaves the client's own `buf`.  `Oversized`
  is either, and excuses the client that asked.  For the others there is a
  difference: no byte a client sends makes ch05's server leave its `buf`, but in
  ch19 a request of 30 to 127 operands, anybody's, overruns the `buf` of a
  thread (line 76), and with it the process all share (`process = "wild"`).
- *ch21's arrays and `buf`.*  `EveryByteEchoed` and `ReleasedAfterFin` hold as
  long as the server has not written outside an array (`pc = "wild"`);
  `ArraysMatch` and `NotificationsMatchBytes` say when it may.
- *ch23's client after the server has gone.*  `recv`'s 0 or -1 is added and the
  loop goes on for ever (`RoundEnds`).
- *ch04's and ch21's clients after a reset, ch04's and a long word.*  They write
  to `buf[-1]` after a reset, and `scanf("%s")` on line 52 of ch04's is not told
  how long `buf` is (`BufferRespected`).  Nothing is promised of a client after
  that, not the end of the round either: if the write to `buf[-1]` does no harm,
  ch04's loop (lines 78-95) goes on for ever.
- *Buffers left by the one-way programs* (`BuffersSuffice`): ch01 puts a NUL
  behind a full `buf` (line 71), ch07's client passes -1 to `fwrite` as a size,
  ch22's Event server prints an uninitialised `buf` that may hold only a part of
  the message (lines 83 and 88), and ch07's server prints one after a `recv`
  whose result it does not know (line 50).
- *ch02's endless loop after a reset, ch22's wait that nothing ends*
  (`TransferEnds`); *ch14's empty file*, for which `feof` right after `fopen` is
  not yet true.  That ch14 may send its last line twice (line 65) is no
  violation of `NothingSkipped`.


## 4. Fairness

Only weak fairness is assumed, and only of what the operating system
guarantees: every thread of a program is scheduled again and again
(`WF_vars(Worker(w))`, `WF_vars(Server)`, ...), and the kernel completes an
operation that can complete and records an event that is due.  Nothing is
assumed of clients: they may stay silent for ever, never close, or never
connect, and the liveness properties are stated from the moment a client has
done its part.

- *IocpEcho* has fairness for each connection's accept (the backlog is
  served) and for each worker.  A packet that heads the queue is taken because
  some worker is always able to: workers do not block between `Dequeue` and
  the end of a branch.
- *CalcServer* has fairness for each thread of the server, and for the
  client's `recv` while an answer is under way.  For ch05 `EveryRequestAnswered`
  starts at the accept: a connected client that asks for nothing keeps the
  others waiting, and nothing in the code bounds that.
- *SharedCounter* has weak fairness although a waiting thread can be overtaken:
  the overtaking threads run out of rounds.
- *SyncSemaphore* and *SyncEvent* assume that `scanf` and `fgets` return.
- *EchoClients* has fairness for each client's `recv`, for the accept of each
  connection and the server's conversation with it; users type or do not, and
  whoever stops the server may never do so.
- *OneWay* has fairness for sender and receiver; for ch14 nothing is assumed of
  the network.

`ImplementsEchoService` of the select server is, for each client, the
disjunction of "excused again and again" and the fairness of the abstract
service for that client: one client's excuse does not excuse another.


## 5. What is proved

| module | about | theorems |
|---|---|---|
| `IocpEchoProof` | `IocpEcho` | `TypeCorrect`, `EchoStaysInOrder`, `OneReaderAlways`, `ReadBranchSafe`, `BlocksInOnePlace`, `LeakNeedsReset`, `ImplementsServiceSafety` |
| `CompRoutEchoProof` | `CompRoutEcho` | `TypeCorrect`, `BufferIsFree`, `RoutinesAreSafe`, `ImplementsServiceSafety` |
| `SelectEchoProof` | `SelectEcho` | `TypeCorrect`, `ThreadNeverBlocks`, `OnlyOpenSockets`, `ForgetsNoOther`, `ImplementsServiceSafety` |
| `WsaEventEchoProof` | `WsaEventEcho` | `TypeCorrect`, `ArraysStayParallel`, `EchoIsOrdered`, `NotificationsAreRight` |
| `CalcServerProof` | `CalcServer` | `TypeCorrect`, `RepliesAreRight` |
| `ClientsProof` | `OneWay` | `TransferTypeCorrect`, `EndIsTheEnd`, `BuffersAreRespected`, `EveryLineIsSent` |
| | `EchoClients` | `EchoTypeCorrect`, `EchoIsPrinted`, `BuffersHold` |
| `SyncProof` | `SharedCounter` | `CounterTypeCorrect`, `UpdatesAreAtomic`, `NumberIsTheSum`, `ZeroIsPrinted`, `LockDeletedSafely`, `ImplementsCounterSafety` |
| | `SyncSemaphore` | `SemaphoreTypeCorrect`, `ReleasesSucceed`, `ScanWaitsForBoth`, `HandlesSafe`, `AllAreFolded`, `ImplementsLockstepSafety` |
| | `SyncEvent` | `EventTypeCorrect`, `CountsAreRight` |

`TcpPeerProof` has the lemmas the echo servers share (a chunk extended by the
next is a chunk; what has been delivered is a prefix; removing an entry closes
the gap).  Each module also has the theorem that its inductive invariant holds
(`Invariance`, `CounterInvariance`, ...).

The theorems hold for every value of the constants that satisfies the modules'
assumptions (`PeerAssumption`, `IocpAssumption`, `CompRoutAssumption`,
`SelectAssumption`, `WsaAssumption`, `CalcAssumption`, `OneWayAssumption`,
`EchoClientsAssumption`, `SemaphoreAssumption`, `CounterAssumption`,
`EventAssumption`): any number of clients, workers, blocks, socket values,
threads, rounds and characters, any file and any size of a buffer.  The layout
is the same everywhere: a lemma `Init => IInv`, one lemma per action for
`IInv /\ Action => IInv'`, a lemma that puts them together, the theorem
`Spec => []IInv`, and the properties as consequences.  The parts of `IInv` are
defined at the end of the module they are about, and each `IInv` held in the
run of its module before it was proved.

**IOCP server.**  `EchoInOrder` is not inductive: nothing in it stops two
workers from holding data of one connection.  `IInv` says why that cannot be:
the right to receive on a connection is a *token*.  It is with main (between
`accept` and the first `WSARecv`), with a READ block (at the kernel, in the port
or in a worker's hands), or with a worker about to post the next receive, and in
one place only (`ReaderInv`).  The token carries the arithmetic of the stream:
bytes received = bytes handed to `WSASend` + bytes in the token's block
(`StreamInv`); when the token is between the branches the two are equal, unless
the connection has been reset.  `WorkerInv` and `HolderInv` say that what a
worker holds is held by it alone and what its locals say of it; `BlockInv` that
the holder of the token has an open socket and a live record, which is what the
READ branch needs; `PortInv` that packets and queued blocks correspond;
`SendInv` that sends in flight are disjoint and undelivered. Proved from it:
`TypeOK`, `EchoInOrder`, `OneReader`, `ReadBranchOwnsConn`, `BlockInOnePlace`,
`LeakOnlyAfterReset`, and that initial states and steps map to those of
`EchoService`.

**Completion-routine server.**  `BufferNotReused` speaks of a posted receive;
what makes it so is what was there before.  `PairOK` says, for each state of a
connection's pair, how far the echo is behind what was received: not at all
while a receive is posted, by what is in the buffer while a read routine is
queued, and so on round the cycle.  `ApcInv` says that a pair is in the queue
once, `MainInv` that the connection main has just accepted has none yet.  Proved:
`TypeOK`, `BufferNotReused`, `RoutinesFindTheirBlock`, and that steps map to
those of `EchoService`.

**select server.**  `NeverBlocks` is about values read before the walk and used
in it.  `OwnerInv` says that values in use are distinct and belong to open
connections, `ReadfdsInv` that the array starts with the listening socket, holds
no value twice, no closed one, and `INVALID_SOCKET` only once `accept` has
failed.  `WalkInv` is the point: from `i` on, what is in both `tempfds` and
`readfds` is still ready.  It survives `accept` because the listening socket
stands first: at `i = 1` nothing has been closed since `select`, so a value
handed out then is not in `tempfds`.  Proved: `TypeOK`, `NeverBlocks`,
`WatchesOpenSockets`, `ForgetsOnlyWhenFull`, and the steps of `EchoService`, for
any `FD_SETSIZE`.

**WSAEventSelect server.**  `PlaceInv` keeps the two arrays equal and each open
connection at one place of them; it rests on the lemma about removal, and on the
listening socket's never being removed.  `RecordInv` and `ReadInv` follow
`FD_READ` from armed to recorded to in the program's hands: at any time exactly
one of them, and recorded only with something to read.  `CloseInv` does the same
for `FD_CLOSE`, `EchoInv` relates the echo to what was read.  The number of
clients is not bounded by the places: `PlaceInv` counts the places in use, one
each for the listening socket and the connections that are open or were invalid
when accepted, and `WildInv` keeps the reason why an array was left, which lasts
because unread bytes and resets do.  Proved: `TypeOK`, `ArraysMatch` (line 101
leaves the arrays only when every place is in use), `EchoAscends`,
`NotificationsMatchBytes`.

**Calculators.**  That the k-th reply is right depends on where every byte is.
`StepOK` says so, for a client none of whose requests is `Oversized`, while no
`buf` was overrun: when it asks, nothing is under way (`Quiet`); when it waits,
its one unanswered request is still all under way (`RequestUnread`), or its
count is in `operand_count` and the rest is `buf` followed by what is under way
(`RequestCut`), or it was answered and the reply is what the client has of it
followed by what is under way (`ReplyCut`).  The transport only moves the cut,
which is one lemma on the concatenation of sequences (`CutMoves`); the server
has read exactly one request when the cut is at its end.  `TurnOK` relates
requests to replies. `BufLen` is any number for ch19; for ch05 `BufAssumption`
says that it has room for what a `char` asks for (509 bytes of 1000), from which
follows that its server is never overrun. Proved: `TypeOK`,
`RepliesMatchRequests`.

**One-way transfers.**  `SenderInv` says that the receiver sees the end of the
stream only from a sender that has sent everything, or was stopped; `AckInv`
that only ch07's client thanks, when it has the file; `MessageInv` that ch22
receives once, so that its Event server prints an end if it has the whole
message.  `LineInv` is about ch14: `inBuf` is untouched or holds one line, no
longer than what `fgets` takes, that ends where the place in the file is.  It
needs that `fgets` does stop somewhere, and behind where it started: a set of
naturals has a least element (`Least`, from the theorems on well-founded
relations), and so has the set of places where it may stop.  Proved:
`TransferTypeOK`, `EndMeansAll`, `BuffersSuffice`, and the action property
`NothingSkipped`.

**Echo clients.**  `PrintsTheEcho` speaks of what is printed when a round is
over; what makes it so is what is in `buf` before.  `Counted` bounds what has
been received by what was echoed and that by what was sent, `InStep` says that
the bytes accumulated begin where the message begins (unless ch12 has gone on
after the server's end, `Over`), `Accumulated` that `buf` holds them in order.
That `printf` stops at the terminator and at no earlier NUL again rests on
`Least`.  Proved: `EchoTypeOK`, `PrintsTheEcho`, `BufferRespected`.

**Semaphores.**  Two permits go round: each is in a semaphore's count or in
the hands of the one thread it admits (`PermitInv`), which bounds every count
by its maximum.  `FoldInv` relates the permits to how far each accumulator is
behind the numbers entered; `RoundInv` and `JoinInv` relate loop counters and
main's joins.  Proved: no release fails (`NoReleaseLost`), `scanf` overwrites
`shared_number` only when both accumulators have used it
(`BothDoneBeforeScan`), handles are closed after the threads ended
(`HandlesOutliveThreads`), every step is a step of `LockstepFold` or a stutter.
With `DoneInv`, which counts what each accumulator has folded in, also that all
`LOOP_COUNT` numbers are in both results when main is through
(`AllNumbersFolded`).

**Counter.**  A thread is between lock and unlock iff it owns the lock, and
what it loaded is what is there (`CounterIInv`).  Proved: `NoLostUpdate`, the
lock is deleted unused (`LockDeletedUnused`), every step is a step of
`AtomicCounter` or a stutter.  On top of it `SumInv`: `shared_number` is the sum
of all changes made so far.  The sum is stated without recursion, there *are*
partial sums over the threads (`PartialSums`) of which it is the last; a store
moves those behind its thread by one.  When all threads are done the partial
sums alternate between `LOOP_CNT` and 0, by a least counterexample, so that
main prints 0 if `NUM_THREAD` is even (`PrintsZero`).

**Event.**  `TextInv` follows `input_string` through `fgets` and the removal of
the newline; `SignalInv` says that no thread is past its wait before main has
set the event, which it does after its last write; `CountInv` that a count is
the number of matching characters among the first `i`, by one lemma about the
cardinality of a set that grows by one index.  Proved: `CountsTypedLine` and
that indices stay inside the array, for every `STR_LEN` and every line.

**Only model-checked.**  Everything that needs fairness, because the proof system
does not treat `ENABLED`: `ReleasedAfterFin`, `EveryByteEchoed`,
`EveryRequestAnswered`, `LeaverReleased`, `RoundEnds`, `TransferEnds`,
`MainReturns`, `BothPrint`, and the liveness part of the five refinements.
No safety property that a passing run checks is left without a theorem.


## 6. What the runs found

- `iocp_key`: a worker takes the completion of a send from the port (line 122)
  and is delayed before line 128.  The client has its echo and closes; the
  receive that was posted meanwhile completes with 0 bytes, and another worker
  closes the socket and frees the record (line 134).  The first worker then
  loads `comp_key->client_sock` from freed memory.  The comments (lines 17,
  119-120) say that the port returns the state of a completed operation and that
  the record holds the client's socket; the code takes both to hold for every
  completion, and nothing makes the end of the stream wait for the completions
  of sends.  The value is not used in the WRITE branch.  What the READ branch
  does use is safe (`ReadBranchOwnsConn`, proved).
- `client_pieces`: `ch04_tcp-client.c` receives in a loop because, as its
  comment says, the echo may come in pieces.  The second piece is received
  behind the first, but its terminator is put at `buf[bytes_len]`, counted from
  the start of `buf` (line 86), on what has been accumulated; the message of
  line 92 ends there.

The excuses of section 3 are further facts about the code, each a named part of
the property it excuses.

Four programs do not compile as they stand and are modelled as
evidently meant: `ch19_beginthreadex-server.c` (line 43, a brace too many),
`ch23_OIO-CompRout-server.c` (lines 88 and 130), `ch04_tcp-client.c` (line 76,
a name declared twice), `ch07_shutdown-server.c` (line 34, a missing
semicolon).


## 7. What is not modelled

- *Failures of creation* (`malloc`, threads, events, sockets): most are not
  handled in the code; a null pointer would end the program.
- *More than 64 handles*: `CounterAssumption` keeps below the limit of
  `WaitForMultipleObjects`.
- *What a program does after it has written outside an array, or printed a
  string without an end.*  That it happens is modelled, and when; the program is
  then `"wild"`.  What follows is undefined, so that nothing is promised, and
  what the models keep of it is an abstraction: a calculator's client goes on or
  is gone, ch19's server sends values that are nobody's result, or nothing, and
  its threads are not followed; ch21's server, a client or a one-way program
  does nothing more, or ends.  That the damage reaches beyond the process is not
  considered.
- *An error of `FD_ACCEPT` or `FD_READ`* in ch21's server (lines 87-90 and
  108-111): Winsock reports one only when the network is down.
- *A number of operands below 1*, with which the calculators' client sends a
  request without operands.
- *Failures that end a client or leave it as it is*: `connect` not succeeding,
  `fopen` returning NULL, `fgets` or `scanf` at the end of the input, where ch04,
  ch21 and ch23 send what `buf` held before.  `accept` failing in ch01, ch02,
  ch07 and ch22, which happens before anything modelled.
- *How `feof`, `fgets` and `fseek` treat `\r\n`*: characters are newlines or not.
- *Arithmetic*: sums, products and results of the calculator are sequences or
  numbers of requests; overflow of `int` is left out.
- *Weak memory*: loads and stores of the threads are interleaved.  Shared data
  is accessed around calls that are full barriers.
- *The programs named last in 1.5*: `ch03`, `ch06`, `ch08`, `ch09`, the datagrams
  of `ch01` and `ch02`, `ch19_WaitForSingleObject.c`.  There is no state and no
  order of steps to get wrong that another module does not have already.


## 8. Plan

Done, in this order: `IocpEcho` with `TcpPeer` and `EchoService` (most state,
most concurrency), `SyncSemaphore`, `SharedCounter`, the single-threaded
servers `SelectEcho`, `CompRoutEcho`, `WsaEventEcho`, then `CalcServer`,
`SyncEvent`, `EchoClients` and `OneWay`; proofs of every safety property, of the
thread programs, the four echo servers, the calculators, the clients and the
transfers.

Open:

1. `EchoService`: its own invariant (what came back is a prefix of what was
   sent), so that the refinements carry a property of the abstract program down
   to each server.
2. `LockstepFold`: the same for what the accumulators have taken.
3. `WsaEventEcho`: a theorem for the clients that never have more outstanding
   than `SndBuf`, whose echo has no gaps; `EchoIsOrdered` is about all clients.
4. `OneWay`: that ch14's datagrams together hold the whole file each time
   round; `EveryLineIsSent` is the step of that argument.
