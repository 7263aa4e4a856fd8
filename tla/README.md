# A TLA+ model of umdns

umdns is a small multicast-DNS suite: `umdns_server` answers for one machine,
`umdns_client` asks one question, `umdns_browser` keeps asking for everything on
the link. This directory models the three programs, the codec and the
configuration they rest on, and several of them on one network. TLC model-checks
them on small instances, and TLAPS proves their main properties for all.

## The system

| Component | State it keeps | Operations | What makes it correct |
|---|---|---|---|
| server (`src/src/server/main.c`) | configuration, two sockets, termination flag, log stream | start-up, receive loop, question dispatch, shutdown | prompt and clean shutdown; answers what was asked, about this machine; no socket starves |
| client (`src/src/client/main.c`) | array of 256 results, time left, two sockets | one query, wait in slices of 200 ms, table | waits as long as its budget says; array never overrun; table is what was heard |
| browser (`src/src/browser/main.c`) | rows collected, service types, elapsed intervals, two sockets, flag | cycles of one enumeration query and a query per type, merge, table | every type known is asked for if it can be; nothing collected is lost or doubled; ends by timeout and by signal |
| mdns codec (`src/src/common/mdns.c`) | none | normalise, encode, build responses, decode | what is encoded can be asked for and read back; malformed input is rejected and reading ends |
| sockets (`src/src/common/socket.c`) | descriptors; the kernel's queues | create listener, send, receive with timeout | descriptor closed once; a wait ends |
| signal (`src/src/common/signal.c`) | `g_terminate` | install, handler, query | flag seen by the loops |
| result table (`src/src/common/table.c`) | none | deduplicate, print | each row once, in order |
| log (`src/src/common/log.c`) | `g_log_stream` | init, close, write | released at every exit |
| configuration file (`src/src/common/config.c`) | `umdns_server_config_t` | defaults, load | a section's keys land in its service |
| runtime identity (`server/main.c`) | host name, addresses | getifaddrs, hostname, apply | services advertise this machine |
| programs together | what is on the wire and in queues | announce, query, reply, crash, restart | found is what was announced; what stays up is found |
| command lines, build, smoke test | – | – | not modelled |

The programs share no memory. Each is one sequential process that owns an IPv4
and an IPv6 socket and sleeps only in `poll(2)`; what surrounds it is the network
(datagrams arrive at any moment, are lost when the queue is full, and come in any
order) and the signal (the handler runs between any two statements or cuts a
`poll` short). Browser and client meet the server only through datagrams.

What is hard here, and what the properties are aimed at:

- the signal against the two polls of a pass and against the loops that do not
  look at the flag (the browser's loop over service types);
- waits counted in slices and not by the clock, over two sockets;
- start-up that acquires log, handlers and two sockets, any of which may fail,
  one listener alone without failing the program;
- arrays at capacity: 256 results parsed straight into their tail, 32 types, 32
  services, 1500 bytes of response;
- names normalised in three places (enumeration, matching, building) that a
  browser uses one after the other;
- a decoder that accepts names cut off by the end of the packet, names with dots in
  their labels and names with labels no encoder writes, and follows pointers that
  may loop;
- section names compared in full and stored cut, sections that do not fit;
- rows that come in any order, in batches cut anywhere, over any number of
  cycles, from servers that crash and come back with another configuration, and
  nothing but the next cycle to make up for a lost packet.

`PROJECT.json` lists these hazards line by line, with the property that covers
each or the reason none does.

## The modules

| Module | Models | Extends |
|---|---|---|
| `Dns` | names as sequences of labels, normalisation, comparison, encoded lengths, what a builder returns | community modules |
| `Configuration` | the defaults, the loader line by line, the choice of addresses, `apply_runtime_identity` | `Dns` |
| `Responder` | `handle_question` and the response builders, over a configuration | `Dns` |
| `Decode` | `umdns_decode_name`, `umdns_mdns_parse_question` and `umdns_mdns_parse_answers`, byte by byte | community modules |
| `Wire` | what a message says, whoever wrote it, as names, questions and records at offsets of its bytes; what `Decode` is to make of it | `Decode` |
| `Sockets` | the two sockets: creation, receive queue, `poll` + `recvfrom`, close | – |
| `Server` | `main()` of the server and its environment | `Configuration`, `Responder`, `Sockets` |
| `Table` | deduplication, appending, type extraction, merging of rows | community modules |
| `Client` | `main()` of the client and its environment | `Dns`, `Sockets`, `Table` |
| `Browser` | `main()`, `run_cycle`, `receive_responses` of the browser and its environment | `Sockets`, `Table` |
| `Seeker` | what the browser promises: ask, hear, show, without sockets, time and signals | `Table` |
| `Lan` | servers, a faulty network and a browser in one specification | `Configuration`, `Responder`, `Table`; instance of `Seeker` |
| `Discovery` | what they promise together: what is found was announced | – |
| `Passes` | inputs that grow element by element, and what each pass over them is to yield | `Table`, `Configuration` |
| `MC…` | instances for TLC | the module they name; `MCDecode` `Wire` |
| `…Proofs` | theorems | the module they name; see "The proofs" |

Two refinements tie the levels together: `Browser` implements `Seeker`
(`ActsAsSeeker`), and `Lan`, which is built from `Seeker`, `Configuration` and
`Responder`, implements `Discovery` (`FindsWhatIsAnnounced`).

**Control.** `pc` names the statement a program is about to execute and `cur` the
socket it is at. An action is one step that other parties can observe: a start-up
call, a loop test, one tick asleep in `poll`, the return of `poll` with what the
code then does with the packet. `NextSocket` is what follows a return: the IPv6
socket, or the end of the pass. Reading a packet, parsing it, answering it (or
appending its rows) and moving on is one action, because the process is
sequential and nothing it shares with the environment is looked at in between; a
signal in between has the effect of one right after. In `Decode` nothing is shared
at all; there an action is one iteration of a loop or one record, so that reads,
writes and progress can be stated step by step.

**Time** is a number of ticks that passes in `poll` only. `waited` is how long the
current `poll` has slept; `lag` (server, browser) and `clock` (client, browser)
are history variables that add up the sleep, `lag` since the flag was set.
`last` (server), `heard` (client, browser), `asked`, `known` (browser), `high` (`Decode`) and
`announced` (`Lan`) are history variables too: what was handled last, the answers
read, what was queried, what was known when the cycle began, the furthest byte
read, and what servers were started with. No guard reads one.

**Data.** A name is the sequence of the pieces between its dots. All that the code
can tell of a piece, its length and its lower-case form, are constants (`LabelLen`,
`Fold`). Encoded messages are records with the length the code would return and
the answers it would hold; a builder that gives up returns length 0. For the
client and the browser a datagram is the rows `umdns_mdns_parse_answers` would
decode from it given room for all; the room is applied by `ParseAnswers`. For the
server it is the list of its questions, of which `umdns_mdns_parse_question` reads
the first. A name in one is as the decoder delivers it, and may have empty pieces: a
label may hold dots, and a pointer to the end of a name leaves one behind the last
label. The encoder drops these (`Tokens`). Nor can every name that is decoded be
encoded: `QueryFor` is the name a query for a type carries, or `NoQuery` for a type with a
label of 64 octets or more, which the browser passes over without a wait (`SkipType`). How bytes become rows and questions is `Decode`, which knows packets as
sequences of bytes. `Wire` is its reference: not the code's loop but where names and records
stand in a message and what they say (`Spelling`, `RowsOf`). Only the few rules that are
the code's own come back in it, two spare bytes for a name and ten pointers (`Legible`)
and the record kinds with a row. A configuration file is a sequence of lines, a line what one
`fgets` returns; of a line is kept what the parser branches on and what its value
becomes. A network interface is what the loop over `getifaddrs` looks at.

**Signals.** Before the handlers are installed a signal kills the process
(`SignalKills`; always in the client, which installs none). Afterwards it sets the
flag, between two steps (`SignalBetween`) or inside a sleeping `poll`
(`SignalInPoll`, which returns -1 with `EINTR`).

**Network and crashes** (`Lan`). A query stays on the wire until `Lose` takes it away,
and any server that runs may get it any number of times before that, or never:
loss, duplication and reordering of queries in one. A reply is lost (no
`Respond`), or waits in `inbox` until it is read, in any order, also after the
browser has gone on to its next question or the next cycle. A server starts with
one of its files, crashes, and comes back with another; replies of its former
life may still wait. It persists nothing, sends no announcement and no goodbye,
as the code does not. The client is left out: it asks once and keeps nothing.

**Mutants.** Definitions under a comment that begins with "Mutant:" are plausible bugs in the definition
below them (a dropped loop test, the wrong charge for a pass, one row too many).
No specification uses them. Substituting one for its original must make TLC
reject the property it is paired with in `PROJECT.json`, which is how we know
that the property constrains the code.

## The runs

All are `tlc -config <run>.cfg <module>.tla`; deadlock checking is off because
each program really stops.

Runs that must pass:

| Run | States | Question | Properties |
|---|---|---|---|
| `server_loop` | 7,373 | the loop, time and the signal; queues of two, timeout of two ticks | `TypeOK`, `ShutdownIsPrompt`, `NothingLeaks`, `SignalStops`, `NoStarvation` |
| `server_answers` | 120,695 | seven configurations against nine kinds of packet | `SrvNamesRuntimeHost`, `RepliesAnswerTheQuestion`, `EnumeratedTypesResolve` |
| `client` | 25,663 | any traffic; timeout of one slice and a half, array of three rows | `TypeOK`, `ResultsFit`, `WaitBounded`, `NothingLeaks`, `TableIsWhatWasHeard`, `Terminates` |
| `passes` | 84,920 | every sequence of up to four parsed records, five lines of a file or four addresses, which may also not be listed | `DedupExact`, `AppendInBatches`, `TypesExact`, `MergeExact`, `LoadExact`, `AddressesExact` |
| `browser` | 92,339 | no total timeout: any number of cycles, two types and one that cannot be asked for, room for two of them and for three rows | `TypeOK`, `ResultsDistinct`, `KnownTypesAsked`, `ShutdownBounded`, `NothingLeaks`, `RowsStay`, `ActsAsSeeker` |
| `browser_live` | 112,224 | with and without a total timeout of one cycle and a half, more types than a cycle holds | `SleepBounded`, `SignalStops`, `EndsByItself`, `TypesHeardAreAsked` |
| `decode` | 85,869 | seven messages, each cut at every length and bent at every byte, and pointer loops | `TypeOK`, `RoundTrip`, `TruncatedIsPrefix`, `TruncatedIsIgnored`, `ReadsForward`, `Terminates` |
| `lan` | 54,364 | two servers of one instance name, one of them restarted with another port and a text, a faulty network, a browser | `RowsAreOfOneService`, `FindsWhatIsAnnounced`, `HeardInTheEnd` |

Some of these properties state what the code guarantees where the documents
promise more, or need a condition:

- `WaitBounded`: the client sleeps at most its timeout *per socket*. `SleepBounded`:
  a browser cycle counted as one interval may sleep, on each socket, that
  interval and half of it again for every type.
- `EnumeratedTypesResolve` closes the loop of discovery: what the enumeration lists
  is answered when queried, and what that answer lists in turn. It assumes that
  the configured names survive encoding and decoding (`Presentable`): a type with a
  trailing dot, an instance longer than a label and a full name of 255 characters do
  not, and `AnswerFiles` holds the first two. The answer for
  an instance may name it in other letters: of two services whose full names
  differ only in case the last answers for both (`Split`), so names are compared as
  DNS compares them.
- `RepliesAnswerTheQuestion`: a reply has a record named as the question *as an encoder
  writes it*. Asked for `_http._tcp.local..local`, by labels that hold a dot, a server whose file
  gives the type a trailing dot matches, and answers under `_http._tcp.local.local`
  (`AskDotted`): the query and the record differ on the wire.
- `KnownTypesAsked` and `TypesHeardAreAsked`: a type is asked for if a query can be built for it
  and there is room for it, in the array of rows and among the types of a cycle
  (`HasRoom`). Beyond these it is never asked for. A type that cannot be asked for takes a
  place among the types but costs the others nothing else.
- `TableIsWhatWasHeard`: up to the capacity of the array, and then of the first answers:
  duplicates count until they are removed, so repeated answers may hide others.
- `RoundTrip`: what was encoded is read back, unless a name comes within two bytes of
  the size of its buffer, in which case its record is passed over and those
  around it are not harmed (`BadPtr`). The rows and the question of each message are
  written down next to its bytes in `MCDecode`, and `MessagesAssumption` has TLC check that
  they are what `Wire` makes of those bytes.
- `TruncatedIsIgnored`: a query that lost its end yields no question, or one of a
  type above 255, which has no answer: a name that ran off the end is accepted,
  and its first four bytes are taken for type and class.
- `LoadExact`: a key belongs to the service of the section it stands in, in the sense
  of `Owner`, which has the code's rule that a name longer than its field opens a
  new service every time.
- `RowsAreOfOneService`: a row of the table has the host and the port of one service,
  although two servers may offer an instance of one name, and one of them come
  back with another port. It needs every service of that name to have a port: if
  one was announced without, its host is kept and the port taken from another. Of
  the TXT string and the address of such a row it says nothing: rows are merged by
  instance name, and these may be of another machine's service of that name.

Runs that show a disagreement between a document and the code; each refutes one
statement:

| Run | Property | What happens |
|---|---|---|
| `server_multi` | `EveryQuestionAnswered` | only the first question of a packet is answered |
| `server_twins` | `RegisteredServicesAnswered` | of two services of one type only the last is answered |
| `client_timeout` | `WaitsUpToTimeout` | with both sockets open the client waits up to twice its timeout |
| `browser_hosts` | `HostsReported` | address rows are collected and never printed |

Other disagreements seen while reading, which a run would add nothing to:
`config.host_txt` is never set (a feature that is missing, and one that a single request
shows), so a TXT question for the host never gets the TXT
record README.md:56 of the repository speaks of; an enumeration of about 26
services (32 are allowed) exceeds 1500 bytes and nothing is sent; after an
interrupt the browser still sends a query per service type, up to 32; the client
charges a whole slice for a packet that came at once, so a busy link makes it
leave early with replies unread; the addresses advertised without `-i` may come
from two interfaces (README.md:258 speaks of the first active one), and are
loopback addresses when every interface is down.

### Bounds, and why they are enough

- Two sockets, as in the code. Queues of one or two: a pass reads one datagram per
  socket, so two is the least that leaves one behind, which `NoStarvation` needs.
- Timeouts of one to three ticks: a signal can come before, inside and after the
  sleep, and a wait can be a whole slice or the rest of one.
- Arrays of one to three rows reach "full", "room for part of a packet" and "one
  left", the cases the capacity guards separate; 256 and 32 differ only in size.
  The bounds of the encoder that are about size (1500 bytes, 63, 255 and 256
  characters, the length of every label) have their real values.
- Two service types and one that cannot be asked for, in one packet or several: the
  order of types, a type heard while another is asked for, a type passed over as first
  and as last, and a type that does not fit, among the rows or among the types, all
  occur. `MCQueryFor` takes what can be asked for from `BuildQuery` of `Dns`.
- `passes`: ten rows, one per record type and the pairs whose comparison is delicate
  (two SRV of one instance, an empty TXT and an empty SRV); four suffice for two
  pairs. Nine lines with room for two services: five lines reach a section that
  does not fit, its keys, and a return to an earlier section; names of 300
  characters and of their first 255. Nine addresses of three interfaces, four at
  a time, for each choice of `-i`.
- `decode`: messages with every record type, one and two questions, compressed and
  plain names, chains of two to four pointers; each is read whole, cut at every
  length, with every byte replaced by each of six values, and with a pointer to
  itself at every place. Name buffers of 8 bytes, texts of 4, three pointers and
  three rows instead of 256, 512, 10 and 256: the messages hold names that just
  fit, miss by one and do not, and one record more than there is room for.
- `lan`: two hosts that offer the same instance, one of which is started twice with
  a choice of two files. Room for all eight rows that can be heard, and for two
  types; neither can be one to pass over, because a server cannot encode such a name
  either. With less room `HeardInTheEnd` is false, as `TypesHeardAreAsked` and
  `KnownTypesAsked` in `Browser` say in their way. `MaxBoots` bounds the restarts;
  nothing else grows.
- No other action is bounded artificially: counters are finite because the code's
  waits are, except `elapsed`, `clock` and `lag`, which stay bounded since the first
  two stand still without a total timeout and the last starts with the flag.

### Fairness

`Server`, `Client`, `Browser` and `Decode` assume weak fairness of the program's own steps
(`WF_vars(ServerStep)` and so on): the scheduler does not suspend a runnable
process for ever, and a sleeping `poll` returns. Nothing is assumed of the
network or of signals, so the liveness properties hold under a flood and under
silence alike.

`Lan` assumes weak fairness of the browser's cycle (its timers run) and nothing of
its start or end; strong fairness of `Respond(h, text)` for each server and query,
the usual assumption of a lossy network, that a message sent again and again gets
through; and strong fairness of `Receive(batch)`: the sockets are read whenever the
browser waits, since a `poll` returns at once when something is there. Booting,
crashing and losing are never assumed. `HeardInTheEnd` then says that a service
whose server stays up while the browser goes on is heard of, whichever packets
are lost.

## The proofs

The theorems hold for every configuration, datagram set, packet, queue length,
timeout, interval, array size and number of hosts; the constants are constrained
only by the named assumptions in `Dns`, `Configuration`, `Sockets`, `Server`, `Client`, `Browser`,
`Decode`, `Passes` and `Lan`, which TLC evaluates in the runs.

**Server** (`ServerProofs`). None of the properties is inductive. `ServerInv` is
`TypeOK /\ StartupInv /\ DescriptorInv /\ LagInv`:

- `LagInv` is the heart of `ShutdownPrompt`: at the first socket the sleep since
  the signal is at most what the present `poll` has slept, at the second that plus
  one timeout if the first is open. A pass that ends with the flag set cannot
  begin another.
- `DescriptorInv` says which descriptors may be open at each statement; without
  it `NothingLeaks` fails at the exits of start-up.
- `StartupInv` carries `HostsAgree` (the host stored in every service is the
  machine's), from which `SrvRuntimeHost` follows by `AnswerSrv`.
- `RepliesAnswer`: the reply kept in `last` is that of `AnswerRelates` (below) for the
  question kept with it.
- `EnumeratedResolve` is a fact about one configuration. It follows a type from the
  record of the enumeration back to a service that has it, which makes the set of
  matches for a query by that type non-empty; the service whose reply is sent is
  the last of the matches, another one perhaps, and its instance is matched in turn
  by itself or a later one of that name. Wherever the service changes on the way, the names agree up to case.

**Configuration and answers** (`ResponderProofs`). The loops over lines, interfaces and
services are recursive functions; for each, one lemma says that the function
exists and satisfies its equation (`ReadFileDef`, `ReadListDef`, `ListedDef`).
`LoadFits`: whatever the file, at most `MaxServices` services, with names shorter
than their fields and ports a record can carry. `FoundFirst`: per family the first
address that qualifies is taken, although one pass looks for both and ends early.
`IdentityApplied` makes of these a configuration whose services all name the
machine's host, and `AnswerSrv` shows that whatever is answered with it, an SRV
record in it is one of a configured service. `AnswerRelates`: an answer that is sent
has a record named as the question once its empty pieces are dropped, whatever pieces the
question has. It rests on `TokensMatch`: names that match still match when their empty
pieces are dropped, since nothing but the empty piece is like it.

**Client** (`ClientProofs`). `ClientInv` is `TypeOK /\ DescriptorInv /\ RoomInv /\ BudgetInv`:

- `RoomInv`: there is room whenever a socket is polled, and what is parsed fits;
  this is why `ResultsFit` survives two reads per loop test (`ArrayNeverOverrun`).
- `BudgetInv` relates the sleep so far to what has been taken off the budget, with
  the present pass counted apart (`ClientWaitBounded`).

`ClientTableExact` needs another invariant: the array holds the first of the answers read,
as many as it takes (`HeardInv`); a packet that is cut short fills it, and what comes
later changes nothing (`FirstGoesOn`). `Report` then applies `DeduplicateExact`.

**Passes over rows** (`TableProofs`). A pass is a recursive function from the
number of rows read to what has been made of them. `UpTo` is induction over the set of
counts at which a claim holds (from the well-foundedness of `<`), and one lemma per
pass says that the function exists and satisfies its equation (`FilledDef`,
`FoundDef`, `CompactedDef`, `MergedDef`). One step of the loop keeps an invariant (`AppendRowKeeps`,
`AddTypeKeeps`, `KeepNewCompacts`), hence the whole pass does: `AppendUniqueKeeps`,
`ServiceTypesFound`, `DeduplicateExact`. `KeepNewCompacts` is the argument for the in-place
compaction: the write index never passes the read index, so what is still to be
read is untouched. `KnownTypesFound` adds that rows appended later do not disturb
the types found before.

What these say of contents, the theorems in order say of positions. The rows a
pass keeps are those at the positions of a set `F` (`Leading`: no row before has the same
key), and the one at `i` is to stand at `Place(F, i)`, the number of members up to it.
`PlaceStep`, `PlaceGrows` and `PlaceTaken` are what there is to know of `Place`; `InOrderTo` is
`InOrder` after `n` rows, `InOrderStep` its step for all the passes that keep the first of
each kind, and `DeduplicateInOrder`, `AppendInOrder` and `TypesInOrder` follow. `AppendInOrder` starts
from what an earlier batch has left, so that two of its uses show that the cut
between batches does not matter. In `MergeInOrder` a row kept goes on changing: each
member of `F` gathers, after `n` rows, the first value of every column among the rows
of its instance so far (`Gathers`).

**Passes, as the run states them** (`PassesProofs`). The inputs are sequences of rows,
lines and addresses (`InputsTyped`); every property is a fact about them, whatever
their length. `TableDeduplicated`, `BatchesAppended`, `TypesExtracted` and `RowsMerged` are the
theorems above. `AddressesChosen` adds to `FoundFirst` what stands in for a missing address.
`FileLoaded` is the longest argument here. Its invariant `LoadedTo(c, n)` says that after `n`
lines the loader has the entries of the headers so far that make one, in order and
as many as fit, with the values given so far, and that its index is the place of
the entry that the present section belongs to, or 0. `HeaderStep` and `GivenStep` say how what is to hold
changes with a line, `SectionLine`, `KeyLine` and `ForeignLine` that the loader does the same.
The delicate case is a header whose name in full is stored by no entry because
names are cut: `OwnerFacts` says when a header opens an entry and when it returns to one.

**Browser** (`BrowserProofs`). `BrowserInv` is `TypeOK /\ ArraysInv /\ DescriptorInv`, and gives
`BrowserNothingLeaks` at once. `HeardInv` adds what was heard, for `BrowserResultsDistinct`: what the
array holds was heard, and while it has room it has a row like each one heard
(`AppendUniqueKeeps`). `RowsGrow` says that a step only
extends the rows, from which `BrowserRowsStay`. Then, on top of it:

- `BrowserKnownTypesAsked`: until the extraction, what is `known` comes from a
  beginning of the rows held (`KnownInv`), so that `KnownTypesFound` applies; after it, the
  types up to `idx` have been asked for, or cannot be (`AskedInv`). Only a type is ever
  passed over: the name of the enumeration can be encoded (`BrowserAssumption`).
- `BrowserShutdownBounded`: the sleep since the signal is at most one pass for each
  name the cycle has asked for; in a poll, what this pass has slept is counted
  apart (`LagInv`). The pass in progress is the last of its wait because
  `NextSocket` looks at the flag.
- `BrowserSleepBounded`: a cycle is charged one interval and sleeps longer. `ClockInv` says that
  the sleep is at most what the cycles completed, the waits of this one (`CycleSleep`)
  and the pass in progress (`PassSleep`) account for, with the number of cycles tied
  to `elapsed`; `IntervalsLeft` bounds that number.
- `BrowserSeeks`: each step is one of `Seeker`, under `Phase`, or none (`SeekingStep`), with the types
  no query can be built for as those `Seeker` skips; the invariant excludes an end of start-up with rows.

**Decoder, any packet** (`DecodeProofs`). `DecodeInv` is `TypeOK` with `ReadingInv`, which relates the
offsets of the present name to those of the record around it; without it neither
the bound on `EndOfRecord` nor progress is inductive. One lemma per action proves
the invariant's step and the progress at once; `DecodeTypeCorrect` (no read outside the
packet, no write outside a buffer, for every packet of bytes) and
`DecodeReadsForward` follow.

**Decoder, messages whole and cut** (`DecodeProofs`). `RoundTrip`, `TruncatedIsPrefix`
and `TruncatedIsIgnored` are proved for every set of messages that are laid out as
`Wire` says (`Laid`; the assumption `MessagesAssumption`), and for buffers, texts,
tables and pointer limits of every size. `Laid` asks of a message what any responder
or querier gives it: counts that are true, records that end where the next begins,
names of at most 255 octets that point backwards, no NUL in a label or text. It also
asks that the names of questions and owners can be read (`Legible`), since the code
gives up a packet at the first that cannot; a name in the data of a record need not
be. The invariant is `WireInv`: for each message of which the packet is a beginning,
the reading `Follows` it (`DecodeFollows`).

- Inside a name, `Following(p, w, k)`: the reader is at the `k`-th offset of the name,
  its output is what the first `k - 1` say, a dot behind it unless the name ends
  there, and `depth` counts the pointers among them. `PointersStep` and `SayNextPlain`
  are one step of these; `NameEnds` and the lemmas next to it say that the reader ends
  with the name's text and its place, and fails exactly when the name is not legible.
  Compression needs no induction of its own, because a name is the sequence of the
  offsets it visits and not the octets in one place.
- Between names, `results` is `RowsTo(m)[idx]` and `offset` is `RecordStart(m, idx +
  1)`.
- If the cut falls into a record behind its owner, `RecordFits` fails and the rows are
  the first of those of the message. If it falls into a name, the decoder accepts what
  is there as a name. `Severed` says what can be made of it: between the place where
  the name begins and the end of the packet are at most 255 octets and none is zero
  (`PlaceNoZero`). Whatever the reader then does with those octets, which may be
  labels' letters taken for lengths or pointers to anywhere, it comes back to an
  offset among them, where a type is above 255 and a record length makes its end lie
  beyond the packet, since either has a high octet that is not zero. So nothing read
  behind the cut becomes a row, or a question with an answer.

**Programs together** (`LanProofs`). `LanInv`: a server that runs has announced its services,
and all that is under way or was heard tells only of services announced and has
the shape of rows (`Truthful`). `BatchTruthful` follows a reply from the configuration, through
`IdentityApplied` and `AnswerSrv`, to the row a browser makes of it; `AppendTruthful` rests on
`AppendUniqueKeeps`. `LanDiscovers` is then the refinement of `Discovery`: boot is
`Announce`, receiving is `Find` or nothing, and crash, loss and the browser's own steps
change neither.

`LanRowsOfOneService`: by `MergeInOrder` the host of a row is that of the first row of its instance
with a host, and the port that of the first with a port (`MergedOfOne`). Only SRV rows of
an instance have either (`Sound`), and all of them have both if every service of the
name has a port and no host's name is read as the empty text; so they are the same
row, and what that row tells was announced. That a host's name is not empty rests on
`NormalizeEnds` and `TokensLeft`, and on `HostsAssumption`: text made of at least one piece, none of
them empty, is not the empty string. The provers have no theory of strings to
derive that from; TLC evaluates it.

Theorems about properties of the runs: `TypeCorrect`, `ShutdownPrompt`, `NoLeak`,
`SrvRuntimeHost`, `RepliesAnswer`, `EnumeratedResolve`; `ClientTypeCorrect`, `ArrayNeverOverrun`, `ClientWaitBounded`,
`ClientNoLeak`, `ClientTableExact`; `TableDeduplicated`, `BatchesAppended`, `TypesExtracted`, `RowsMerged`,
`FileLoaded`, `AddressesChosen`; `BrowserTypeOK`, `BrowserResultsDistinct`,
`BrowserNothingLeaks`, `BrowserRowsStay`, `BrowserKnownTypesAsked`, `BrowserShutdownBounded`,
`BrowserSleepBounded`, `BrowserSeeks`; `DecodeTypeCorrect`, `DecodeReadsForward`,
`DecodeRoundTrip`, `DecodeTruncatedPrefix`, `DecodeTruncatedIgnored`; `LanDiscovers`,
`LanRowsOfOneService`. These are all the invariants and action properties of the passing runs, and both
refinements.

Only model-checked: the liveness properties (the provers here have no ENABLED and
no liveness rules). Not shown in general: that every message the builders write is `Laid`, for
the builders are modelled by length and content; TLC evaluates it for the messages of
`MCDecode`.

## What is not modelled

- The five or six setup calls of a listener are one step that succeeds or fails: a
  straight line of calls, each followed by its own close and return. Multicast
  membership, TTL and the interface of a socket are the kernel's. A send that fails is
  only logged, so sending is an outcome.
- The characters of a configuration line: trimming, matching a key, and where a line of
  more than 1023 bytes is split. What results is a line of the model.
- Names so long (250 characters or more) that appending `.local` would be cut by the
  256-byte buffers of the server (`Dns`).
- Option parsing: its results are the constants of the models. Logging, printing and
  column widths are output.

## Plan

Done: everything above. Left, in this order:

1. `Listener`: the setup calls with their error paths, refining `CreateListener`.
2. The builders in bytes, with the theorem that what they write is `Laid`, to which
   `DecodeRoundTrip` then applies.
