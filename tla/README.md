# A TLA+ model of the dining-cryptographers chat

The repository holds a small Java program (`src/Dining Crypto/src/`): a server
and several clients that broadcast typed text in rounds, as in Chaum's
dining-cryptographers protocol. In every round the server gives each client a
set of keys whose sum over all clients is zero, each client adds at most one
character to the sum of its keys and sends it back, and the sum of everybody's
outputs is that character, whoever sent it. Paths below are relative to
`Dining Crypto/src/`.

## 1. Inventory

| part | state | operations | talks to |
|---|---|---|---|
| `server/Server`, `server/ServerConnection` | the listening socket, the list of clients | accept MAXCLIENTS (1 in the source) clients, start one thread for each | client's `connect` |
| `server/ServerThread` | its client's number, the output of the round | `run`: generate keys, then for ever: send keys, start the round, receive the output, barrier, send the results, barrier; shut down on KILL; exit on a lost connection | its client through `ClientSocketInfo`; the other threads through `SharedServerInfo` |
| `server/SharedServerInfo` | the outputs of the round, counters, the array of keysets; its monitor and wait set | `addOutput`, `getKeySet`, `generateKeySets`, `incrementSent`, resets | all threads |
| `server/ClientSocketInfo`, `client/ClientConnection` | a socket and two object streams | send, receive with a cast | each other |
| `crypto/DiningLoop` | the message being sent, the display's state | `run`: keys, acknowledge, wait for the start, transmit a character, results, acknowledge, collate, display | server; GUI; `StrBuffer` |
| `crypto/SimpleLoop` | an input buffer | the same loop with whole lines in clear; the only one that can send KILL | server; GUI |
| `communication/KeySet`, `Key`, `Keyop`, `Message`, `CommunicationProtocol` | values | `addKey`, `sum`; the control texts | - |
| `utility/StrBuffer` | an array and two positions | `add` (event thread), `next` (main thread) | GUI and loop, unsynchronized |
| `gui/*`, `interfaces/*` | a window | submit, display, close | loop |
| `utility/RandomGenerator` | - | a random int | `Key` |
| `communication/Message.encode`, `TestAddition` | - | letters modulo 27 | nothing else |
| `communication/ServerProtocol`, second `ClientSocketInfo`, `Crypto/Simple`, `DiningCrypto` | - | abandoned | nothing |

What is hard in it:

- **Threads.** Two barriers share one monitor and one wait set, wait without a
  loop, and the first is entered in a step separate from adding the output. The
  list of outputs is copied without the monitor. `generateKeySets` is not
  synchronized and runs in all threads at once when they start.
- **Messages.** Both ends of a connection know what they read by position only,
  and cast it. A SHUTDOWN is written to all connections by one thread.
- **Failure.** A client may close its window, or its main thread may die of an
  exception with the window (and the socket) left open; only the thread that
  serves it can notice.
- **Start.** The window is there before the connection; the listening socket
  connects clients the server never accepts; the server reads each client's stream
  header inside its accept loop.
- **Callbacks.** The event thread fills a buffer that the main thread empties.
- **Arithmetic.** Keys are arbitrary ints and all sums wrap.

What makes it correct:

- *start*: only the accepted get in, none of them is held up by another, and no
  thread starts before all are ready; nothing typed in the meantime is lost;
- *connections*: neither side ever takes one message for another;
- *rounds*: results are the outputs of one round, one for each keyset of one
  generation; every round ends;
- *keys*: every keyset is used once, and the keysets of a generation cancel;
- *client*: what a lone user submits is what every window shows; two who speak at
  once are found out;
- *input buffer*: first in first out, nothing lost;
- *end*: a KILL or a lost client stops the server, and SHUTDOWN the clients.

Not all of this holds: section 5.

## 2. Modules

| module | models |
|---|---|
| `Protocol` | clients, objects and control texts; data is abstract |
| `Connect` | `Server.main` and `Client.main` up to the running threads and loops: backlog, stream headers, error paths, the window |
| `Connections` | the two streams of every connection and their failures |
| `SharedServerInfo` | the shared object and its monitor: operators that the threads' actions use |
| `ServerThread` | `ServerThread.run`, one action per statement that others can see |
| `ClientLoop` | the main thread of a client, `DiningLoop` or `SimpleLoop`, as the server sees it |
| `DiningSystem` | all of them together; properties of the running system |
| `MCDiningSystem` | constants for TLC |
| `KeyGeneration` | the start of the threads, array access by array access; implements `DiningSystem` |
| `StrBuffer` | the input buffer and its two threads, access by access |
| `InputQueue` | abstract: the queue that `StrBuffer` implements |
| `DcNet` | keysets, `sum`, `transmit` and `collate` as operators on wrapping ints |
| `Broadcast` | what clients say and display over many rounds |
| `Channel` | abstract: the line that `Broadcast` implements |
| `MCBroadcast` | constants for TLC |
| `DiningSystemProofs`, `KeyProofs` | theorems about `DiningSystem`: types and connections; keysets, the start and results |
| `KeyGenerationProofs`, `StrBufferProofs`, `ConnectProofs`, `BroadcastProofs` | theorems about the module of that name |
| `DcNetProofs` | lemmas about wrapping ints and the operators of `DcNet` |
| `Counting` | lemmas about finite sets, their sizes, and sums and loops over them: used by the proofs that count threads or add up keys |

The system is composed of the modules as the program is of its classes:
`ClientLoop` and `ServerThread` extend `Connections` and `SharedServerInfo`, and
`DiningSystem` extends both. What goes before it (`Connect`, `KeyGeneration`) and
what goes on inside it (`StrBuffer`, `Broadcast`) has modules of its own, whose
joints are stated as properties: `ThreadsReady` for what `DiningSystem` takes for
granted of its connections, `StartsAsAssumed` for what it takes for granted of the
keys.

Operators whose comment begins with "Mutant" are wrong versions of the
definition that follows them; `PROJECT.json` says which property notices.

### How state and actions correspond to the code

*Threads.* `pc[t]` names the statement thread `t` executes next, and every
action is one such statement with all it calls: `GetKeySet` is
`sharedInfo.getKeySet()` with the regeneration inside, `ReceiveKeysAck` reads the
acknowledgement and tests it, and goes on or exits. A synchronized
section that only reads and writes fields is one step. `ArrayList.add` and
`clear` are two (`AddOutputBegin/End`, `Sent`/`ResetRound`), since the copy in
`sendResults` (`ReadSize`, `SendResults`) does not hold the monitor and can see
them half done. `Collect`, `Resume` and `Sent` are the barriers: `wait()` puts
the thread into `waitSet`, `notifyAll` empties it, and a thread that is out of it
goes on when the monitor is free. `WakeSpuriously` is what Java allows `wait()`
to do. `SendShutdown` and `ExitServer` are lines 98-109; `LoseClient` stands for
both exception handlers.

*Streams.* A write is one step as long as one thread writes. Only the thread that
sends SHUTDOWN writes to streams of others; if it does so while the other thread
is at a write of its own (`Writing`), `WritesCollide` may happen instead of
`SendShutdown`: what is in the stream from there on cannot be read (`Garbled`), and
either writer may get an exception. `run` exits on an IOException; any other ends
the thread, and with the last thread the process. A client that
reads it gets an IOException and starts over (`ReadGarbled`), or another exception,
of which its main thread dies (`CastFails`).

*Keys.* A keyset is named by its generation and its index. In `DiningSystem` the
unsynchronized start is coarse: while another thread is generating, a thread may
get a null keyset or die. `KeyGeneration` has the detail, and
`StartsAsAssumed` shows that the coarse account leaves nothing out.

*Clients.* `cpc[c]` is what the main thread waits for; one action per outcome of
a read. A null keyset ends the loop after it was acknowledged; an empty list of
results exits; a null among the results ends the main thread, before or after
the acknowledgement according to the loop; a failed cast ends the main thread and
leaves the window open ("dead"). After the server has exited every read fails and
the loop starts over.

*Connect.* `main` is where `Server.main` is, `at[u]` where the `Client.main` that
user `u` started is. A connection goes into `backlog` by `Connect` whether or not
the server will ever accept it; `Accept` sends the server's stream header, and
`ReadHeader` is the blocking read of the client's. A client that goes away in
between makes that read fail, and the handler ends the server (`HandshakeFails`);
if its header was already there either may happen. A server that is gone is seen
in the client's `connect` as a refusal (`Refused`, which ends in the modal dialog)
or a lost header (`HeaderLost`). `CollectSocket`: nothing refers to the listening
socket when `main` has returned. `Submit` leaves the box as it is when
`submitInput` is null or the buffer is full, since `actionPerformed` clears the
box only after the call that throws; the field is not volatile, so that the event
thread may also see null for a while after `setInput`. Texts are numbered as they
are typed, and what `StrBuffer` does with a text once it has it is left to that
module. Once a thread is running, how it ends its client or the server is left to
`DiningSystem` (`LeaveLoop`, `ServerStops`).

*Broadcast.* The state of `DiningLoop` under its own names. Rounds are as the
server means them to be, so that what the clients do can be seen apart from what
the server does to them (section 6 says where that is true). The input buffer is
what `StrBuffer` implements, the queue of `InputQueue`: it has `length` places for
good (20 in the source), so that `Submit` needs a free one, and `next` throws when
all have been read (`NextThrows`), which ends the main thread (`NextFails`,
"dead"); and it may lose the message submitted while `next` is being executed
(`lost`), after which `next` finds null for ever. `r` is the character collated
last, `said` and `submitted` are histories.

## 3. Runs and bounds

| run | instance | states | shows |
|---|---|---|---|
| `Connect` | 3 users, 2 places, one user types 2 texts, anybody gives up at any step; fairness | 52 004 | `ConnectTypeOK`, `Admitted`, `ThreadsReady`, `TextKept`, `EveryoneServed` |
| `TwoClients` | N = 2, 4 generations, windows close, buffers run out; fairness | 93 522 | `TypeOK`, `AckSafe`, `GenerationExclusive`, `GoneStopsServer` |
| `ClientExit` | N = 2, 3 generations, `SimpleLoop`, spurious wake-ups; fairness | 147 646 | `SessionInv`, `CastSafe`, `OneTime`, `KillStopsServer` |
| `OneClient` | N = 1 as in the source, 6 rounds, the client may go; fairness | 252 | `ResultsWhole`, `RoundsEnd` |
| `KeyGeneration` | N = 2 | 1 663 | `EntriesAreThere`, `NoSharedKeySet`, `StartsAsAssumed` |
| `StrBuffer` | 4 entries, 2 strings | 1 298 | `BufInv`, `TakenInOrder`, `ImplementsQueue` |
| `Broadcast` | N = 3, two may speak, buffers of 2, 2 messages, empty or of two characters, extreme keys | 500 582 | `BroadcastTypeOK`, `KeysCancel`, `CollisionsDetected`, `ImplementsChannel`, `DisplayedAsSubmitted`, `KeptIsDisplayed` |

The runs expected to fail are in section 5.

*Bounds.* `MaxGenerations` bounds the only counter of `DiningSystem` that grows
for ever; a thread that would start one generation more stops (`AtBound`). Two
threads are enough for every mix-up of the barriers, because one late thread and
one that has gone on are all it takes, and it takes one generation to begin the
mixing and a second to see its effect; for the conversation on a connection the
theorems cover any number of clients. The states of one thread repeat from round
to round, apart from the generation, so that six rounds with one client say all
there is. `GenerationExclusive` is checked without spurious wake-ups, and with
them it fails: a thread that both barriers let through too early takes two
keysets while another has yet to start. In
`KeyGeneration` one pair of clients already has all the races (three clients
exceed what TLC finishes in minutes; the theorems are for any number). In `Connect`
three users are one more than there are places, so that one is left in the
backlog, and the user who types has as many texts as his buffer has places for. `StrBuffer` of 4 entries wraps no index,
since positions never go back; the theorem is for any length. `DcNet` has 30
ints, the fewest that obey `ArithmeticAssumption` for three clients and two
characters, as 2^32 does for 65 535 characters and at most 16 384 clients; the
keys are the least and the greatest int, for which every sum wraps. `MaxMessages`
bounds what users submit altogether: two messages of one user, which need the
message's end and the index reset between them, or one each of two users, who then
collide or take turns. As buffers have two places, too, one user's two messages
also use his buffer up, and the exception that follows is in the run.

*Deadlock* is not checked by TLC: a behaviour ends at the bound, and the system
really stops when the server exits. That no round gets stuck is a liveness
property instead, `RoundsEnd`.
A lost client is noticed only at a read or a write of the thread that serves it.
`GoneStopsServer` says that this comes about, except for a thread that has died and
one that waits at a barrier for ever: with two clients both happen, as the other
thread may have died at the start, wait for a client whose main thread is dead, or
be stuck itself.

*Fairness.* Each server thread and the main thread of each client is weakly fair
as a process: Java's threads are scheduled sooner or later and a blocked read
returns when there is something to read. Which of its actions a thread takes is
not forced. A thread leaving `wait()` needs the monitor; weak fairness is enough
since in the model the monitor is held only during a two-step section and, where
liveness is checked, cannot be taken again and again without the waiting thread
taking part. Nothing obliges a user to submit, close a window or send KILL, and
nothing obliges `wait()` to return without a notify. In `StrBuffer`, an `add` once
begun ends and the main thread keeps asking (`DiningLoop` asks once a round).
`Broadcast` assumes no fairness, since with several clients nothing guarantees that
rounds go on: that they do, until a main thread dies of its used-up buffer, is the
premise of `KeptIsDisplayed` (`RoundsGoOn`), which `RoundsEnd` gives for one
client. In `Connect` the main threads of the server and of
each client are weakly fair; no user need do anything, and whether a running
thread or loop ends is not assumed. So `EveryoneServed` says that a client can be
held up by those before it only while they take their own steps: a client that
has opened its connection sends its header or goes away, and either ends the
server's wait (one that stayed silent would hold everybody up, and is assumed away). Its exception is the client that comes too late: it waits for a
header as long as the server runs.

## 4. Theorems

All are proved by TLAPS for every value of the constants that obeys the named
assumptions: `NAssumption`, `NullAssumption`, `BoundAssumption`, `LoopAssumption`
for the running system, `ObjectAssumption` (null is no object) for the start,
`LengthAssumption`, `StringAssumption` for the buffer, `MaxClientsAssumption`,
`BufferAssumption`, `UsersAssumption` for `Connect`, `ArithmeticAssumption`,
`SpeakersAssumption`, `LengthAssumption`, `MessagesAssumption`, `NoTextAssumption` for `Broadcast`. That
is: at least one client,
null different from everything else, any bound on generations, with or without
spurious wake-ups, either loop, any set of clients that may go; ints that wrap and
hold the sum of all clients' characters, any keys, any messages, the empty one too.
Two theorems assume more, as they fail without it: `GeneratedFirst` that there
are no spurious wake-ups (`~SpuriousWakeups`), and `WholeWithOneClient` that N = 1.

*The running system*

- `TypeCorrect`: `Spec => []TypeOK`. Inductive as it stands; one step per action.
- `SessionCorrect`: `Spec => []SessionInv`. This is the central invariant of
  the protocol. "The client never meets an object it does not expect" is not
  inductive: it has to be known that at most one object or message is under way
  on a connection, that which one it is follows from the statement the thread
  has reached (`QuietOK` when the client has read everything, `AwaitedOK` when it
  has not), and that once SHUTDOWN has been sent nothing more is claimed than
  that no SHUTDOWN comes before one is sent (`NoEarlyShutdown`). The proof goes
  connection by connection: a step of thread or client `c` disturbs only the
  connection `c`, except for SHUTDOWN, or what two writers leave of it, which any
  thread may append. In a garbled stream nothing after the collision is claimed.
- `CastsSucceed` and `RepliesInOrder`: `CastSafe` and `AckSafe` follow.
- `KeysUsedOnce`: `OneTime`. Rounds may be mixed, so that the proof cannot rest on
  them; it follows each keyset instead (`KeyInv`). A keyset goes from the thread to
  the stream, to the client, into the output, back to the thread and into the list,
  and at each place it is the one the thread was dealt (`Passed`); until it arrives
  there no output in the list was made with it (`Fresh`); what two clients hold,
  list included, they got in two calls of `getKeySet` (`Apart`), because everything
  anybody holds was dealt and the next one has not been (`AllDealt`). `SessionInv`
  is needed for where a keyset can be.
- `GeneratedFirst`: `GenerationExclusive` by counting (`StartInv`). As long as one
  thread is still generating, no more keysets are out than other threads have been
  served and no more outputs are in the list than others have added one, so both
  are short of N: nobody passes the first barrier and nobody regenerates.
- `WholeWithOneClient`: `ResultsWhole` for N = 1, which is the source's MAXCLIENTS.
  With one thread nobody comes between adding an output and clearing the list, and
  a spurious wake-up finds nobody waiting. The invariant (`OneRound`) says at each
  statement what is in the list (`OneList`: nothing, or the one output of this
  round, half added or half cleared) and that what is on its way to the client is
  that output. For more clients the property is false (`MixedResults`).

*The start*

- `ArrayFilled`, `KeySetsApart`: from `GenInv`, which says where each thread's loops
  stand, that the array the field refers to is full below its allocator's index
  (an entry once filled is only
  ever replaced by another object: a null is met only in a new array that its
  allocator has still to fill), and that the entries below the counter have each gone to one
  thread.
- `StartImplemented`: each step of the start in detail is a step of `DiningSystem`,
  or none. The case that needs the invariant is a null keyset: it is possible only
  while another thread is still filling.
- `ConnectTypeCorrect`, `OnlyAccepted`, `ReadyWhenStarted`: from `ConnectInv`: a
  client in the backlog is there once and not yet accepted (`Waiting`), there is a
  client being accepted exactly while its header is awaited (`Entering`), who has
  sent and got a header (`Headers`), the counts of the two loops (`Places`).
  `TextIsKept`: `TextKept`, inductive together with the types.

*The input buffer*

- `BufferInvariant`, `BufferOrder`: the input buffer keeps order. `TakenInOrder`
  needs what each entry holds, that entries behind the one being read are all
  there, and what the reader has in hand (`BufInv`).
- `BufferImplementsQueue`: every step of the buffer is a step of the abstract
  queue, or none. The step at which a message is lost is `Store` between `Read`
  and `Clear` in effect, and `Clear` in the mapping.

*The net*

- `BroadcastTypeCorrect`: `BroadcastTypeOK`; the part that is not obvious is that
  `collate` always makes a char of what it finds, even of a sum that several
  speakers made, and that it is wrapped throughout.
- `KeysAlwaysCancel`: `KeysCancel`. `sum` and `collate` fold over sets and sequences,
  wrapping at each step. The lemmas (`Counting`, `DcNetProofs`) show that a sum
  over a finite set depends neither on the order nor on where it is split, that a
  wrapped sum is congruent to the unwrapped one modulo `Word`, and that in the sum of
  all keysets each pair's key is added once and subtracted once (`KeySetsCancel`).
  `RoundInv` says where everybody is in a round: outputs, keysets handed out and
  clients that have spoken are equally many, no keyset is held twice, and nobody is
  in the next round before all have spoken. With it, `Cancel`, the invariant
  proper, is carried through every step: what is in, plus the keysets nobody has
  used, is congruent to what has been said.
- `NetIsALine`: every step of the net is a step of `Channel` or none. When all have
  spoken, the total is exactly the sum of the encoded characters (`TotalIsSpeech`,
  since that sum fits into an int), and from it `collate` finds silence if nobody
  spoke and the character if one did (`CollatedIsAudible`).
- `CollisionsAreDetected`: `CollisionsDetected`. From `TotalIsSpeech` again: a
  speaker adds at least `MAX_CHAR + 1` and at most `2 * MAX_CHAR`, so that two
  always exceed what one can reach, and nobody takes anything away.
- `ShownAsSubmitted`: `DisplayedAsSubmitted`. `DisplayInv` says, for each client, that
  the message in hand and those in the buffer are the last it has submitted
  (`QueueOK`), that who has submitted nothing says nothing (`SilentOK`), and, if
  it is the only one to have submitted anything, that a window shows exactly what it
  has said so far (`Shows`), or lacks only the character or the newline of this
  round, whose results it has yet to read (`WillShow`). So windows that are ahead
  and windows that are behind in a round differ by that much and no more.
  `RenderedStarts` shows that what is displayed of the first messages is a start of
  what is displayed of all.

The library's induction theorems take an operator as a parameter and cannot be used;
where an argument goes by induction over a finite set (sums, `Rendered`), it uses the
well-founded order of its subsets instead (`SubsetsReached`), which needs no operator.

Only model-checked: liveness (`RoundsEnd`, `KillStopsServer`, `GoneStopsServer`,
`EveryoneServed`, `KeptIsDisplayed`), because fairness and
ENABLED are out of the prover's reach. Every safety property that a passing run
checks is also proved, `ResultsWhole` for the one client of its run.

## 5. Where the code does not do what it says

- **`MixedResults`** (`ServerThread.java:80`, "Then send all the outputs for
  the round back to the client"). Two threads have added their outputs. The first
  finds the list complete, sends its results and waits at the second barrier.
  The second only now enters the block of the first barrier, finds the list
  complete, and its `notifyAll` wakes the first, which begins the next round and
  adds another output before the second copies the list. Sums of two generations
  of keys do not cancel.
  In a longer run the first thread comes to the end of that next round, finds
  `noSent` complete and clears the list: the second sends an empty one, and its
  client exits with "roundresults has size zero!!!" (`DiningLoop.java:80-83`).
- **`StuckRound`** (`ServerThread.java:69, 83`). The same: outputs of
  two rounds are counted and cleared together, until both threads wait, at the
  first barrier or one at each, for a notification nobody will make.
- **`ShutdownCast`** (`DiningLoop.java:52-56`, and the same words in
  `SimpleLoop`). A client that is not waiting for START_ROUND casts SHUTDOWN to
  something else; the ClassCastException ends the main thread, not the client.
- **`KeysDisagree`** (`SharedServerInfo.java:10-14`). Keys from two calls of
  `generateKeySets` end up in one array, or keys are added after a keyset is sent.
- **`StrBufferLoss`** (`DiningLoop.java:47`). `next` reads null, `add` stores a
  message, `next` writes null over it. Neither it nor any later message is sent.

With the one client that `MAXCLIENTS` admits neither of the first two can happen
(the run `OneClient`; for the first also the theorem `WholeWithOneClient`). Seen and not made a run of: colliding characters are recognized by
`collate` (`CollisionsDetected`) and then displayed as a character nobody sent;
`outline.tex:37-44` (at the top of the repository) says that keys are shared along a
ring, while `generateKeySets` makes one for every pair; `SimpleLoop`'s test for
a shutdown among the results breaks only the inner loop; KEY_REQUEST is never
sent; `DiningLoop` never sends CLIENT_EXIT.

## 6. What is left out, and assumed

- Memory is sequentially consistent; a data race is an interleaving of accesses.
  The array reference and the entry are accessed in one step (see
  `KeyGeneration`). `HashSet.add` is one step.
- `System.exit` ends a process at once. Writes never block: a stream never holds
  more than a few objects (`SessionInv`).
- Of two overlapping writes, the one or the other whole object first, or a stream
  that cannot be read from there on; no finer outcome.
- The listening socket takes any number of connections (its queue has 50 places).
- In `Broadcast` all clients' results are those of one round, and its keys are of one
  generation. The server keeps to that with one client (`WholeWithOneClient`,
  `RoundsEnd`) and may fail to with several (`MixedResults`, `StuckRound`,
  `KeysDisagree`), so that for several clients what `Broadcast` shows is what the
  clients make of rounds that are in order. `KeptIsDisplayed` also supposes that
  rounds go on, and says nothing of what a user submits from the message on that the
  buffer loses (`StrBufferLoss`).
- Random numbers, so also how well the sender is hidden.
- Layout, wording and logging; the abandoned classes; Eclipse's files.

## 7. Not modelled

Everything the running program does that changes state is an action of some
module. What has none:

- `RandomGenerator`: a key is any int; its distribution, and so anonymity as a
  statement about probabilities, is not something these tools can say.
- `Message.encode`, `combineMessages` and `TestAddition`: letters modulo 27, called
  by the demonstration only, without state.
- `communication/ServerProtocol`, the second `ClientSocketInfo`, `Crypto/Simple`,
  `DiningCrypto`: an abandoned first version, which does not compile or only prints.
- Eclipse's workspace metadata at the top of the repository. It contains four
  JavaScript files (`.metadata/.plugins/org.eclipse.wst.jsdt.core/libraries/`), the
  editor's own declarations of browser objects, with empty bodies. They are the
  only JavaScript in the repository, they are no part of this program, which is
  Java, and nothing is claimed of them.

With three threads, `KeyGeneration` is covered by its theorems and not by a run. A
corrected barrier (two wait sets, each wait in a loop that tests its condition) would
repair `MixedResults` and `StuckRound`; it is not modelled because it is not in
the code.
