# Verification of the ft_irc server

TLA+ modules for the IRC server of this repository (`src/`, `include/`), the TLC
configurations that check them on small instances, and proofs checked by TLAPS.
`PROJECT.json` holds the map from definitions to source lines, the runs, the
mutants, the findings and the hazards. Paths below are relative to the
repository.

## The system

One process, one thread. `Server::run` refreshes the poll set, blocks in
`poll()` without a timeout, serves every ready descriptor in the order of
`_pollFds`, and then reaps dead clients. Everything a client asks for is done
synchronously inside `handleClientRead`. The only other actor inside the process
is the signal handler; outside it are the kernel and the clients.

| Part | State | Operations | Talks to |
|---|---|---|---|
| `Client` | registration flags, nickname, failed PASS attempts, `_closing`, `_dead`, reason, receive and send buffers | `sendMessage`, `consumeSendBuffer`, `appendToRecvBuffer`, `extractLine`, `markClosing`, `markDead` | called by every command and by the loop |
| `Channel` | three vectors of raw `Client*` (members, operators, invited), modes i, t, k, l, topic | add, remove, setters, `broadcastMessage` | holds pointers owned by `Server::_clients` |
| Dispatch, PASS, NICK, USER, QUIT | none of its own | `processLine` with its two 451 gates, one `execute` per command | `Client`, `findClientByNick` |
| JOIN, KICK, INVITE, TOPIC, MODE, PRIVMSG | none of its own | `execute`; JOIN, KICK, PRIVMSG, MODE loop over targets or letters | `Channel`, `Server` maps |
| Event loop | `_pollFds`, `_clients`, `_channels`, `g_shutdown` | accept, read, write, reap, disconnect, signal | the kernel |
| `Parser` | none | `parse`, a pure function on a line | `processLine` |
| Bot | its own socket and buffers | a client program of its own | the server, over TCP |

What is hard about it:

- Channels keep raw pointers to clients, and clients are deleted at the end of a
  round, long after the handler that condemned them.
- A client ends in two stages. A closing client is no longer read but is still
  polled until its output is flushed; a dead one is deleted at the next reap.
  Sending to a client can kill it, the issuer of a running command included, and
  sending QUIT messages while reaping can kill more clients after the list of
  dead ones was taken.
- `_pollFds` grows while the loop is scanning it by index.
- Empty channels survive KICK and disconnection with all their modes.
- There is no timeout, and a signal can fall between the test of the flag and
  the blocking call.
- TCP cuts the byte streams anywhere. A message crosses a bounded send buffer,
  partial writes, the wire and a bounded receive buffer, and its connection may
  be condemned at any point in between.
- What clients know they know from lines of text that carry nicknames, not
  connections, and that the server may refuse to queue when they are too long.
- The bot sends three lines before it reads an answer, writes with blocking
  sends, and recognises answers by pieces of text.

## Modules

| Module | Models |
|---|---|
| `Client` | `class Client` as a record; its methods as operators on records |
| `Channel` | `class Channel` as a record; vectors as sets (every `push_back` is behind a membership test) |
| `Commands` | the protocol layer: variables `clients` (`_clients`), `channels` (`_channels`) and `job` (the looping command on the call stack); one action per command, or start, one action per target and end for those that loop; how connections begin and end |
| `Server` | the event loop on top of `Commands`: `phase` is where the thread is, `pollFds`, `index` and `revents` are the scan, `deadFds` the list of `reapDeadClients`, `g_shutdown` and `interrupted` the signal |
| `LineReader` | abstract: what framing promises, the lines of a stream one by one until the first malformed one |
| `Framing` | the receive buffers of the server (`appendToRecvBuffer`, `extractLine`, the loop of `handleClientRead`) and of the bot, byte by byte: `received` is what `recv()` returned so far, `base` how much of it was erased from the front of the buffer |
| `MessageQueue` | abstract: what `sendMessage` promises, a queue that is delivered in order, and an end after the last message |
| `Connection` | `sendMessage`, `handleClientWrite`, `markClosing`, `reapDeadClients` for one connection, byte by byte, TCP, and a reader that is an instance of `Framing` |
| `ModeString` | the loop of MODE with `appliedModes`, `appliedParams` and `lastSign`, the 324 reply, and a client reading both |
| `Roster` | `Commands` plus the list of members each client keeps from the lines it is sent |
| `Parser` | `Parser::parse`, `splitString`, the index arithmetic of KICK, the line PRIVMSG relays, the tests of passwords and channel names in the two `main` functions, as operators on a text typed symbol by symbol |
| `Bot` | the bot against the server and the other users of its channel: `todo` is what it has still to send before it reads again |
| `MCCommands`, `MCServer`, `MCFraming`, `MCConnection`, `MCModeString`, `MCRoster` | instances for TLC |
| `CommandsProofs`, `ServerProofs`, `ModeStringProofs`, `RosterProofs`, `FramingProofs`, `ConnectionProofs`, `ParserProofs`, `BotProofs` | theorems |

`Server` EXTENDS `Commands` and its steps are the actions of `Commands` with the
phase of the loop, so every behaviour of the loop is one of `Commands` by the way
it is written (the lemma `LoopImplementsCommands`), and what is proved of
`Commands` holds in it. What is not by construction is that the loop deletes
nobody whom it, or a command that runs for it, still refers to:
`ServedClientLives`.

The other compositions:

- `Framing` implements `LineReader`, for the server and for the bot
  (`stream <- received`, `taken <- base`): the property `DeliversLines`. The
  abstract reader has no buffer, so the refinement says that the buffer limit
  never refuses anyone and that the cut of the stream does not matter.
- `Connection` contains `Framing` as its reader (the bot's) and implements
  `MessageQueue` (`delivered` is the lines the reader has taken, kept in a
  history variable of that name, `end` is "broken" once the connection is dead,
  reset or no longer read): the property `MessagesArrive`.
- `ModeString` implements the MODE loop of `Commands` (`job` and `channels` are
  rebuilt from its variables): the property `LoopIsCommands`. So what is checked
  and proved of `Commands` holds of the detailed loop.
- `Roster` EXTENDS `Commands` and adds to each of its steps what the lines of
  that step do to the lists of those who were queued one.
- `Bot` sees the server from one connection: `ServerTakes` is `processLine` for
  the five lines the bot sends, `Tell` is `sendMessage`, and the other users do
  what `Commands` lets them do: join, leave, write to the channel, write to the
  bot once it has its nickname, and kick it. Lines are their sender and the pieces
  of text the bot looks for, any of which users may write (`ChatMarks`).
  `feigned`, `mocked` and `waiting` record what they wrote and who is to be
  greeted. The topic a JOIN is answered with is part of the line of the JOIN. One
  text is left out: a topic that holds a "!" and then a JOIN of the channel, for
  which the bot greets a piece of that topic.

Abstractions, and why they keep what the properties talk about:

- The send buffer is its length in units. One handler queues one unit for one
  recipient (a JOIN iteration sends the joiner several lines): a recipient that
  overflows part way is dead and nothing is ever written from a dead client's
  buffer, so only whether it overflowed matters.
- Texts are left out. Whether a broadcast with user text fits in
  `MAX_IRC_MESSAGE_SIZE` is kept (`TextFits`), since `sendMessage` silently
  refuses what does not fit.
- A line a client sends is any command with any argument. The list of a looping
  command is any list. A client can always earn an error reply with a bad
  argument, so the error disjuncts (`Reply`) carry no guard beyond the dispatch.
- Case mapping is the function `Fold` on the nicknames; channel names are
  compared exactly, as `findChannel` does.
- The limit of MODE +l goes through `atoi`, modelled as saturation at `LongMax`
  followed by truncation modulo `IntModulus`; the C standard leaves the
  out-of-range case undefined and this is what common 64-bit builds do.
- The kernel is external: `poll()` returns any non-empty choice among the
  requested events and errors, `recv()` and `send()` do what their contract
  allows, a line may be refused by `extractLine`.
- Bytes in `Framing` and `Connection` are of four kinds: CR, newline, NUL and
  any other. Characters in `Parser` are of seven, and a command word is one
  letter, which is why `ParserAssumption` has 5 where the code has 8.
- In `ModeString` only the last parameter of a command can be empty or begin
  with a colon, because only a trailing parameter is taken as it stands. How a
  client reads a line is external, from RFC 2812.
- In `Roster` a client learns what a step told it at that step. Lines reach it
  in order (`MessagesArrive`), so it learns the same later.
- Left out: failures that throw out of `run` (`poll()` failing for another
  reason than EINTR, the listening socket failing) and failed allocations.

## Runs

Descriptors, channel names and nicknames that do not fold together are model
values under symmetry, which is sound because they are only compared for
equality. The liveness runs use no symmetry.

| Run | Instance | Checks |
|---|---|---|
| `channels` | 2 clients, 1 channel, every command, a key, a topic, limits 1 and 10 (which wraps to 2), over-long texts | `TypeOK`, `OperatorsAreMembers`, `MembersAreRegistered`, `JobIsValid`, `InvitationsConsumed`, `NoDanglingPointers`, `AdmissionRespected`, `OperatorlessIsPermanent`, `LockoutIsPermanent` |
| `event_loop` | the loop with 2 clients from 2 addresses, limit 1 per address, 3 spellings of which 2 fold together, registration and JOIN | `LoopTypeOK`, `PollSetMatchesClients`, `EveryEventServed`, `ClosingHasOutputAtPoll`, `DeadAtPollAreOverflows`, `PerIpBound`, `NicknamesUnique`, `ServedClientLives` |
| `event_loop_liveness` | the loop from a channel that 2 clients have joined, PING, QUIT and signals, new connections after them, fair | `ConnectionEnds`, `RoundEnds` |
| `framing` | the server's or the bot's buffer, every stream of up to 8 bytes in every cut, lines of 3, chunks of 4, a buffer of 7 | `TypeOK`, `ResidueBounded`, `BotRefusesHopeless`, `DeliversLines` (refinement) |
| `connection` | 4 messages out of 2 good and 4 bad ones, lines of 4 bytes, a send buffer of 7, 5 bytes in flight, fair | `PeerNeverRefuses`, `MessagesArrive` (refinement), `ClosingEnds`, `EveryMessageArrives` |
| `mode_string` | mode strings of up to 5 letters on any channel of two members, one key, limits 5 and 10 (which wraps to 2) | `PeersFollow`, `QueryTellsModes`, `LoopIsCommands` (refinement) |
| `roster` | 3 clients, 2 channels, NICK, JOIN, JOIN 0, KICK, disconnections, up to the first takeover | `RostersMatch` |
| `parser` | every text of up to 7 symbols | `KickInBounds`, `RelayedVerbatim`, `PasswordReachesServer` |
| `bot` | 2 users who write 001, 433 or a JOIN to the channel, to the bot, as topic or as comment, 4 things they do, 1 line towards the server and 2 towards the bot, fair | `GreetingsEarned`, `FailsForTheReasonGiven`, `HandshakeEnds`, `EveryJoinGreeted` |
| `empty_channel` | a small instance of `Commands` | what the audit expects and the code does not do |
| `per_ip_limit`, `shutdown_race` | small instances of `Server` | likewise, and what a comment says |

Bounds. `MaxSendBuffer = 1` makes every second message to a client that is not
drained an overflow, so deaths in the middle of every handler are reached; a
larger buffer only adds states in which nothing happens. Two clients are enough
for each property about a pair (operator and member, inviter and invitee, holder
and claimant), and all of these are also proved for any number. Three clients and
two channels are in `roster`, where a QUIT or NICK line speaks of all channels at
once and a bystander is told of two others; one channel would not do, since a
list can go wrong through a line about another channel. `MaxFailedPass` is 1: the
first attempt is the last. `IntModulus = 8` and `LongMax = 31` scale
a 32-bit int and a 64-bit long. `MaxPerIp = 1` makes the limit reachable with
two connections. In `Commands` and `Server` these constants are the only bounds.
`MaxStream`, `MaxMessages`, `MaxLetters`, `MaxText` and `MaxEvents` bound what
the environment does in the other modules.

`Framing`: the sizes keep the two relations the code's have (a line fits in a
chunk, two chunks in the buffer plus one), and 8 bytes hold two lines of the
longest kind, a residue and a chunk that completes it. `Connection`: two
messages fill the buffer, a third overflows it, and the wire holds less than the
buffer, so partial writes happen. `ModeString`: five letters are enough to set
and undo a mode between two signs and another mode. `Parser`: seven symbols hold
two lists of two. `Bot`: with 2 queued lines the bot overflows on chat alone,
and the connection towards the server is full after one line, so each send may
block; four events are a JOIN, two texts and a KICK. 464 in a text is left to the
proof: it differs from 433 only in the word.

Deadlock is not checked where the modelled thing ends: a connection, a stream, a
mode string, a typed text, the bot, or (in `roster`) clients that
do not come back, because `MaxTotal = 0` admits no new ones.

In `event_loop` one client overflows on the QUIT message of the other: the case
behind `DeadAtPollAreOverflows` and `PerIpHardBound` needs two clients in one
channel, and JOIN is there for it.

### Fairness

`LoopFairness` assumes that the thread keeps running when it is not blocked
(weak fairness of `LoopStep`), that the receive buffer holds finitely many
lines, so that `EndOfLines` comes in the end, and that a command has finitely
many targets, so that its loop ends (strong fairness of the three end actions;
between two iterations the action is disabled only while others of the same
finite list run). Signals and `Poll` have no fairness: nobody has to send
anything. `ConnectionEnds` needs in addition `PeerDrains`: the peer of a
connection with pending output reads some of it in the end or its connection
breaks. The code gives no such guarantee, since it has no timeout; without the
assumption a closing connection may stay for ever. The run starts where
two clients have registered and joined a channel (`JoinedInit` of `MCServer`),
because getting there is too deep for the liveness check; clients that come
later start from nothing. One that the QUIT line of the other overflowed is dead
when `poll()` blocks, and it is released because `refreshPollEvents` asks for its
events like anyone's.

`Connection` assumes that the loop serves what is ready and reaps (that is
`EveryEventServed` and `RoundEnds` of `Server`) and that the reader reads.
Nothing makes TCP break or a client close. `Bot` assumes that both programs
run and that a client the server has given up is reaped in the same round;
users and the end of the server have no fairness.

### What the violation runs show

- `empty_channel`: KICK or a disconnection takes the last member and leaves the
  channel, where the audit (S-05) wants it destroyed. `LockoutIsPermanent`
  shows the consequence.
- `per_ip_limit`: dead clients are not counted though they hold a descriptor, so
  the "hard bound" is passed by one. `PerIpBound` shows that it is never more
  than one and never at `poll()`.
- `shutdown_race`: a signal between the test of `g_shutdown` and `poll()` is not
  acted on until something else happens.

### Known divergences

Nine more configurations are kept beside the runs. Each checks one property and
TLC finds it violated. They show smaller disagreements between the code and what
the audit or a message of the programs says (`tlc -config <cfg> <module>`).

| Configuration, module | Property | What happens |
|---|---|---|
| `MCInvite.cfg`, `MCCommands` | `InviteIsOperatorOnly` | INVITE by a plain member of an open channel is recorded; audit line 481: "INVITE is an operator command" |
| `MCKick.cfg`, `MCCommands` | `KickAnnounced` | a KICK whose line exceeds 512 bytes is carried out and not announced; audit line 515 |
| `MCLimit.cfg`, `MCCommands` | `LimitIsTheOneAsked` | an out-of-range limit is truncated; audit line 518: "Reject out-of-range value before conversion" |
| `MCTakeover.cfg`, `MCRoster` | `NobodyMissing` | `findClientByNick` passes over dead clients, so a nickname can be taken before the QUIT of its dead holder is sent, and that QUIT strikes the new holder off its peers' lists; audit line 522 |
| `MCNames.cfg`, `MCRoster` | `JoinerLearnsMembers` | a 353 line over 512 bytes is not sent at all; audit line 434: "Long NAMES replies must be split across multiple 353 lines" |
| `MCModeKey.cfg`, `MCModeString` | `PeersFollow` | a key that begins with a colon is echoed without a colon of its own, so clients read another key; audit line 516 |
| `MCBotChannel.cfg`, `Parser` | `BotChannelJoined` | the bot accepts a tab in a channel name, where the server's parser splits; `src/bot/main.cpp:103`: "bot channel must be a valid # or & channel name" |
| `MCBotChat.cfg`, `Bot` | `NeverFooled` | 433 between blanks in what a user writes ends the bot; `src/bot/Bot.cpp:186`: "bot nickname is already in use" |
| `MCBotGreets.cfg`, `Bot` | `GreetsJoinersOnly` | a text of a user that ends in a JOIN of the channel is greeted; the method that greets is `greetJoinedUser`, `src/bot/Bot.cpp:146` |

## Proofs

For every number of descriptors (finite), addresses, nicknames, case mapping,
channels, keys, topics and limits, under the assumptions named in the modules
(`ClientAssumption`, `ChannelAssumption`, `CommandsAssumption`,
`ServerAssumption`, `ModeAssumption`):

- `InvHolds`: `Spec => []Inv`, with the consequences `TypeCorrect`,
  `PointersSafe`, `NicknamesStayUnique`, `OperatorsStayMembers`,
  `MembersStayRegistered`, `InvitationsAreConsumed` and `JobStaysValid`.
- `AdmissionHolds`, `LockoutNeverEnds`, `OperatorlessForEver`: the three action
  properties of channels.
- `LoopKeepsInv`: the loop keeps `Inv`.
- `LoopInvHolds`: `LoopSpec => []LoopInv`, with the consequences
  `LoopTypeCorrect`, `PollSetExact`, `NoEventLost`, `ClosingNeverStuck`,
  `OnlyOverflowsWait` and `PerIpLimitHolds`, and `ServedClientStays`: all state
  properties of the loop.
- `RostersAreRight`: `RostersMatch`, provided that every line fits
  (`EverythingFits`; `MCNames.cfg` and `MCKick.cfg` show what happens otherwise).
- For mode strings of every length, `LoopRefinesCommands`: `LoopIsCommands`, with
  no provisos; and `BroadcastTellsModes` and `QueryReplyTellsModes`:
  `PeersFollow` and `QueryTellsModes`, provided that no key begins with a colon
  (`ColonKeys = {}`; `MCModeKey.cfg` shows that clients learn another key
  without it). Both also assume `LimitsAsText`, that a numeral is never empty and
  that of zero is "0": `ToString` is opaque to the prover.

For every stream, cut, line, chunk and buffer size related as in
`FramingAssumption`, and for every set of messages:

- `ServerReadsLines`, `BotReadsLines` and, for the specification the run checks
  (either program), `EitherReadsLines`: the receive buffers implement
  `LineReader`. `ServerResidue`, `ResidueAlwaysBounded`, `BotRefusesAtOnce`,
  `HopelessLineEndsBot` and `FramingTypeCorrect` bound what they leave unread.
- `ReaderRefusesNothing` and `DeliveryIsQueue`: what `sendMessage` accepts is
  never refused at the other end, and `Connection` implements `MessageQueue`.

For every number of users, events and sizes of the two queues of `Bot`, and for
texts of every length in `Parser`:

- `FailsForTheReason` and `GreetsWhoJoined`, whatever users write and wherever
  they write it.
- `KickStaysInBounds`, `PasswordsReachServer` and `RelaysAreVerbatim`, with no
  provisos.

### The arguments

`Inv` is the conjunction of the state properties, and it is needed as a whole
because its parts lean on each other: `TypeOK` needs `AttemptsLeft` to bound the
counter of failed attempts, because the handler increments before it compares;
`NoDanglingPointers` and `MembersAreRegistered` need `JobIsValid`, since the
client a JOIN loop adds to a channel was looked up before the loop began; and
`JobIsValid` needs `OperatorsAreMembers`, since MODE asks for an operator and
never for a member. The proof in
`CommandsProofs` groups the conjuncts by what they read, and a lemma for steps
that only send (`Quiet`) serves the many branches that do nothing else. The
proofs of the action properties rest on a lemma that lists what a step can do to
one channel.

`LoopInv` adds to `Inv` what is true at each phase of a round. `PositionInv` says
that nothing before `index` is left to serve and that a descriptor being served
is a client's; without it `EveryEventServed` is not inductive. `ReapInv` and
`SettledInv` follow the closing and the dead clients through the two passes of
`reapDeadClients`: when the list of dead descriptors is taken nobody else is
dead, and from there on only a QUIT line can kill, which leaves a full buffer.
`IpInv` says where in a round one address may hold one connection too many:
after the one `accept` of the round and until the dead are disconnected. `EraseFacts` is
the lemma about `_pollFds.erase`: one entry goes, no other, and those before it
stay in place.

The framing proofs rest on the residue: between two `recv()` calls no complete
line is left, so an open connection holds less than `MaxLine` bytes (the server)
or its line is not hopeless (the bot), and the next chunk fits the buffer. From
that, a refusal by either buffer is a `Refuse` of `LineReader`, a line a `Take`,
and everything else an `Arrive` or a stutter.

`ConnInv` locates every byte: what the reader has received, what is on the wire
and what is in the send buffer are together the messages that were accepted, one
after the other, and the reader stands at the end of one of them (`StreamInv`);
between two `recv()` calls it has less than a line left (`ReaderInv`); and a
connection ends cleanly only when the send buffer is empty (`EndInv`). The next line the reader finds is therefore the next message, whole.

`RosterInv` adds to `RostersMatch` that names are distinct while no name has been
taken over from a dead client: a QUIT or NICK line speaks of a name, and must
strike or rename one entry only. The steps of `Commands` are sorted by what they
do to members and names, and each kind is shown to tell those concerned.

A step of the MODE loop either applies one letter or leaves channel and text alone
(`StepKinds`); each kind is matched with the step of `Commands` for the same
letter, whose `job` is rebuilt from `isPlus` and `appliedModes`. What a client
makes of a mode string is a recursive function over its letters. `ToldInv`
carries along the function of all its pictures so far (`IsReading`), which by the
least counterexample is the only one (`ReadingIsRead`): a letter more extends
it, and a parameter more is appended to what is left unread at every place of it,
which changes nothing as long as no letter lacked its parameter. An
empty key leaves no trace on the wire, so that the last k lacks one; but it is
then the last parameter there is (`noParams`), and the k changed nothing. The
324 reply is read one letter at a time from a channel without modes.

`ServedClientStays` follows the descriptor being served through the phases: only
the pass that disconnects deletes, and it is not reached before the scan has
ended (`PositionInv`). That a looping command runs for this client only
(`JobServed`) is kept because commands begin in the phase of lines and that phase
is not left before the job is over.

`BotProofs` counts. A refusal on its way to the bot comes from the server, which
has recorded it, or from a user, and then the bot has its nickname and the text is
in `mocked` (`RefusalsOnTheWay`); for that, a member must be known to have its
nickname (`MemberHasNick`), since chat reaches members and direct messages reach
nicknames. What a user has to its credit, joins and feigned joins less greetings,
is at least what is pending: its lines in the queue that read as a JOIN and the
greetings the bot has still to send (`Covered`).

`ParserProofs` says what the first colon, the first and the last word of a line
are. Facts for every length are proved by the least counterexample (`LeastNat`,
from the library's theorem that < is well founded on the naturals), which needs no
induction principle with an operator as parameter.

### Only model-checked

- Liveness, which is out of the prover's reach: `ConnectionEnds`, `RoundEnds`,
  `ClosingEnds`, `EveryMessageArrives`, `HandshakeEnds`, `EveryJoinGreeted`.

No other property of a passing run is without a theorem. The runs say more
than the proofs in one respect: TLC evaluates `ToString` and needs no assumption
about it.

## Not modelled

- `parsePort`, socket and signal setup, name resolution and `connect` of the
  bot, the `Server` destructor: straight-line code around system calls before
  and after everything else.
- PING to the bot: this server never sends it.
- Failures that throw out of `run`, failed allocations, logging.
- Topics in the clients' views; over-long QUIT, KICK and TOPIC lines there
  (`MCKick.cfg` shows what they do).
- How the keys of a JOIN pair up with its channels when the list has empty
  pieces: nothing in the repository says what is meant, and `Commands` lets
  every channel meet every key.

## Plan

The modules above were written in this order: `Client`, `Channel`, `Commands`,
`Server` and their proofs; `LineReader`, `Framing` and their proofs;
`ModeString`; `Roster`; `MessageQueue`, `Connection`; `Parser`; `Bot`; then the
proofs of `Server`, `Connection`, `Roster`, `Bot`, `Parser` and `ModeString`. What
is left are invariants of the code that no run states yet, and the six hazards
without a property.
