# Formal verification of simplex-go

TLA+ modules about `smp`, the SimpleX Messaging Protocol client library, and
`cmd/kozi-cli`, the proximity tool beside it; TLC runs that check them on small
instances; and TLAPS proofs of what matters most for every size. Paths are
relative to the repository root.

    tlc -config Client_subs.cfg MCClient.tla
    tlapm ClientProofs.tla

## 1. The system

| Part | Source | State it keeps | Operations | Modules |
| --- | --- | --- | --- | --- |
| SMP client | `smp/client.go` | `closed`, `sentCmds`, `subs` under `mu`; `readerDone`; a response channel per command, a buffered channel per subscription | `Ping`, `Send`, `Ack`, `NewQueue`, `Subscribe`, `Close`; the reader goroutine (`readLoop`, `dispatch`, `handleReadError`) | `Client`, `RequestReply` |
| Dial and handshake | `smp/client.go` (`Dial`), `smp/transport.go` (`DialTLS`), `smp/dial.go`, `smp/handshake.go` | the connection being set up and its deadlines | TCP, TLS with the pinned certificate, server hello, version, client hello; the reader's first waits | `Dial` |
| Connection | `smp/transport.go` | one TLS connection and its two deadlines | `WriteBlock`, `ReadBlock`, `Close` | `Conn`, `Wire` (padding) |
| Wire encoding | `smp/encoding.go`, `smp/protocol.go` | none | primitives, bodies of commands and answers, CorrIDs, transmissions, authorized bytes, blocks | `Encoding`, `Commands`, `Wire` |
| Authenticators | `smp/auth.go`, `smp/auth_cb.go`, `smp/dh.go` | keys | sign, seal, verify | `Wire` (by what they fix) |
| Queue URI | `smp/queue_uri.go` | none | parse, print | `QueueURI`, `Pairing` |
| kozi-cli commands | `cmd/kozi-cli/commands.go`, `state.go` | `state.json` | `pair`, `unpair`, `list`, `set-location` | `KoziState`, `KoziStore` |
| kozi-cli daemon | `cmd/kozi-cli/proximity.go` | the state a tick loaded | `proximity-watch`: ticker, signal, the walk over the buddies, `notify-send` | `Watch` |
| Proximity slots | `cmd/kozi-cli/proximity.go`, `commands.go` | none | `deriveProximitySecret`, `hourBucket`, `deriveSlotID` | `Slots`, `Pairing` |
| Relay | (external) | the queue and who is subscribed to it | answers anything at any time, or never; in `Delivery`, what the protocol says | `Client`, `Dial`, `Wire`, `Delivery` |

How they interact:

- An application goroutine calls a method of `Client`; `send` registers a
  response channel under its CorrID in `sentCmds`, unlocks, and calls
  `WriteBlock`. The one reader goroutine calls `ReadBlock`, decodes the block,
  and hands each transmission to whoever waits for it: a response channel, or
  the subscriber channel of a queue. `Close` and `handleReadError` compete for
  being the one to end the session.
- `Dial` strings `DialTLS` and `runSMPClientHandshake` together and starts the
  reader with the result; the deadlines it sets are on the connection the reader
  goes on to use.
- The commands of kozi-cli and the daemon are processes which share `state.json`
  and nothing else. Nothing locks it.
- `kozi-cli pair` parses a queue address with `smp.ParseSMPQueueURI` and derives
  from it the secret that names the hourly slots of a pair of devices.

What is hard here:

- **Concurrency.** Callers, the reader and `Close` touch the same maps and
  channels, some of it outside the lock: channels are closed by one goroutine
  and sent on by another. Writers share one write deadline.
- **Failure.** Any read or write may fail, at any point; a process may be killed
  in the middle of a save.
- **Ordering and time.** An answer may overtake the return of the write it
  answers, come twice, or come after the caller has given up; a message may
  come as an answer, through one goroutine, or as an event, through another;
  every wait is ended by a deadline, a context, or nothing.
- **Boundaries.** Lengths, version ranges, the hour.

`PROJECT.json` lists these at their lines under `hazards`, with the properties
that cover each, or why none does.

### What makes each part correct

- *Client*: every call ends, at most once, and with the answer to its own
  command or an error; nothing is registered after the end of the session; no
  channel is sent on or closed after it was closed; `Close` comes back.
- *Client with its relay*: on a subscription that lasts no message is lost or
  meets a full channel, messages are read in order, and the next one is read.
- *Dial*: a `Client` only of the pinned server, and only if the server names the
  session that the caller named; the same version, session and keys at both
  ends; no connection left behind by an error; and on one connection with one
  pair of deadlines, each wait governed by its own, the reader's included.
- *Connection*: a deadline on the connection belongs to a block being sent.
- *Wire*: what is sent is what is read; a cut block is refused; an answer is
  read as what was meant, or not at all; what is authorized can be read in one
  way and is good for one session.
- *kozi-cli*: names are unique whatever overlaps; `state.json` is changed by
  whole commands; what cannot be read is not overwritten; a buddy who is near
  is told of, once per tick; a signal ends the daemon.
- *Addresses and slots*: an address survives being printed; devices paired by
  one invitation derive the same slot, those of different queues never do.

## 2. Modules

| Module | Kind | What it is |
| --- | --- | --- |
| `RequestReply` | abstract | a call is idle, pending, then ok or failed, and is ok only if the peer answered it while the session was up |
| `Client` | model | `smp.Client`; implements `RequestReply` |
| `Dial` | model | `Client.Dial` with time |
| `Conn` | model | several goroutines in `WriteBlock` on one connection |
| `Delivery` | model | `Client` composed with a relay that keeps to the protocol, a stream each way, and an application; shown to be a `Client` |
| `Encoding` | algorithm | `encoding.go` on byte strings |
| `Commands` | algorithm | the bodies of commands and answers: `EncodeCommand`, `DecodeBrokerMsg` |
| `Wire` | algorithm and model | transmissions, authenticators, blocks; a batch of either side that is framed, perhaps damaged, and read |
| `KoziStore` | abstract | a set of buddies and a location, changed by whole commands until lost |
| `KoziState` | model | the commands as overlapping processes; implements `KoziStore` when they do not overlap |
| `Watch` | model | the daemon; extends `KoziState`, so the file changes under it |
| `QueueURI` | algorithm | `ParseSMPQueueURI`, `String`, `deriveProximitySecret` |
| `Slots` | algorithm and model | the hour bucket on devices with clocks and zones of their own |
| `Pairing` | model | `Slots` and `QueueURI` composed: devices pair by addresses that are passed on |
| `MCClient`, `MCDelivery`, `MCDial`, `MCConn`, `MCWire`, `MCWatch`, `MCPairing` | instances | values for the constants |
| `ClientProofs`, `DeliveryProofs`, `DialProofs`, `ConnProofs`, `WireProofs`, `KoziProofs`, `WatchProofs`, `PairingProofs` | proofs | section 6 |

Operators marked "Mutant" in a module are the definitions under test with a
plausible bug in them. No action uses them; each is there to show that a
property fails when the code is wrong in that way (`mutants` in
`PROJECT.json`).

### Client

A *call* makes one method call. It stands for its goroutine, for its CorrID
(24 fresh random bytes, taken to be unique), for its response channel and, if
it is a `Subscribe`, for its subscriber channel. A critical section under
`c.mu` is one action; whatever the code does outside the lock is an action of
its own, so that everything can happen in between:

| Code | Actions |
| --- | --- |
| `Ping`, `Send`, `Ack`, `NewQueue` up to `send` | `Start` |
| `Subscribe` up to `send` | `SubscribeRefused`, `SubscribeRegister` |
| `send`: encode, authorize, lock, register | `SendRefused`, `SendRegister` |
| `send`: `WriteBlock` | `WriteOut` (the block leaves), `WriteDone` (the call returns), `WriteFail` |
| `send`: the select | `ReceiveResponse`, `ContextDone` |
| `Subscribe` after `send` | `PushInline`, `Unregister`, `CloseOwn` |
| `Close` | `CloseBegin`, `CloseAgain`, `CloseTx`, `CloseJoin` |
| `readLoop`, `dispatch` | `DispatchReply`, `DispatchMsg`, `DispatchEnd`, `DropTransmission` |
| `handleReadError` | `HandleReadError` |

A panic is an outcome: `fault` says where it came from, and nothing runs any
more. The relay is arbitrary, and needs no variable: what the reader takes is
whatever the relay may have sent, which excludes only the answer to a CorrID it
has not been sent. That covers answers that are late, repeated, reordered, lost
or of the wrong type.

### Delivery

The same client on one queue, with a relay that is not arbitrary. It keeps a
message until it is acknowledged, has one out at a time, answers `SUB` with the
first message if there is one, and says `END` when another connection takes
over; that is what the comments of `Ack`, `Subscribe` and `dispatch` say of it.
`uplink` and `downlink` are the two directions of the connection, in order.
`Transmit` is `WriteOut` with its effect on the uplink; `TakeReply`, `TakeMsg`
and `TakeEnd` are the reader's actions with the next transmission for their
choice; `Quiet` is every other step of a call. The application reads its
channels and acknowledges what it has read, each message once unless that
failed. `received` records what it has read.

The properties are about a subscription that both ends know of (`Subscribed`),
while no other `Subscribe` to the queue is under way. One that is, although this
one is registered, has lost its registration to an `END`, or to a `Subscribe`
that is about to panic on its second `close` (finding 1): its `SUB` may be
handled after this one's and be answered with the message, which is then in its
hands. With three `Subscribe`s this happens; the third is needed for the
registration to change hands twice.

### Dial

Time is counted. `deadline` holds the dialer's deadline and the two of the
connection, which stay there until they are replaced or cleared: `DialApplied`
and `DialCleared` are `SetDeadline` and its deferred reset in `DialTLS`, the
other `...Applied` and `...Cleared` those of `ReadBlock` and `WriteBlock`. Each
does nothing where the code does nothing, so a deadline that is not cleared
strikes whoever waits next. What is set comes from `DialTimeout`, `IOTimeout`
and the context, as the code combines them for each of the five kinds of wait
(TCP, TLS, the server's hello, the client's hello, the `Client`'s reader);
`since` is when the wait began. Timers are prompt, so time does not pass over
`Limit`, the deadline of the wait that is on. `Interrupted` is the context's
doing in the first two waits; `ReadBlock` and `WriteBlock` take the context's
deadline and do not watch its cancellation.

The server offers one of `Chains` and any hello: any two versions, any session
identifier, a 32-byte key, a longer blob (as `runSMPClientHandshake` meets it),
or nothing, or garbage. The configuration is chosen at the beginning (`cfg`),
and so is `sessionID`, which the caller passes to `Dial` and the hello is
compared with. What identifies the TLS session is not there, for the code does
not look at it: `DialTLS` leaves `tlsUnique` nil.

### Conn

`due[p]` is what a caller's block is entitled to, `deadline` what is on the
connection. `applyWriteDeadline`, the write under the lock of `tls.Conn`, and
the deferred `clearWriteDeadline` are separate steps. A write ends when the peer
reads, in a timeout, or in another error (`WriteError`); `tls.Conn` keeps the
error and every later write fails with it.

### Wire

Byte strings are sequences of 0..255, encoded and decoded byte for byte; a
keyword with the space after it is one symbol. `AddCommand` does what `send`
does: encode for the bytes to sign, authorize, encode again, and refuse fields
that are too long. `AddAnswer` is a relay that writes the grammar of
`smp/protocol.go`'s decoder (an `ERR` keyword has no space in it, which is where
`decodeERR` splits), or breaks it (`Malformed`: an unknown keyword, or a field
that runs past the end). A number stands for a private key and for its public
key, and the product of two for the secret they share, so that both ends compute
the same one. A signature has 64 bytes and a box 80, whatever they were made
over; what they fix, which is what the properties need of them, is in the first
of those, a symbol for the key, the nonce and the bytes that were signed or
sealed (`Authenticator`). So `Encodable`, the check of `encodeShortString`,
never refuses an authenticator. `CountByte` is the count of a block as the byte
it is written in: a batch too long for it would be given the count of a shorter
one. `Verified` is the relay's check, from the fields it decoded. `Damage` is
another software at the far end: the block cut after any byte and padded again,
a byte after the end, or another session. `Meaning` is what of a command or an
answer its version has room for.

### KoziState, KoziStore, Watch

`file` is the JSON text `state.json` starts with, if it is whole, and the
length of the file; so a truncated file, a short write, and the end of a longer
text behind a shorter one are all states which `loadState` refuses. A save is
`Truncate` and then `Write`, `WriteShort` or `Crash`. A process may be killed
anywhere. `Coarse` is what truncating a plus code to a neighbourhood does,
`++++` included.

The daemon loads the file in `Begin` (or `LoadTick`, when there is nothing to
do), walks over the buddies one step at a time, and waits for `notify-send` in
`"notifying"`. It may succeed, fail, or never return. `EditSeen` is the user
(external): `last_seen_grid` is written by nothing else.

### QueueURI, Slots, Pairing

An address is a record of the parts its separators set off. Host and version
range, whose own separators matter (`[`, `]`, `:`, `-`), are sequences of tokens
and are parsed token by token; base64 parts are the bytes they stand for, or
nothing. `Slots` counts minutes; a device shows `now + skew` in a zone. In
`Pairing` a device pairs by an invitation, or by what `String` prints of the
address of a device that has paired before (`PassOn`), which may go on for any
number of steps. SHA-256 is represented by the sequence it is given, so what the
code concatenates is concatenated here.

## 3. Runs

There are nine runs that pass and three that must find a violation. States and
times are of one ordinary machine with two workers.

| Run | Specification | Asks | States |
| --- | --- | --- | --- |
| `client_subs` | `Spec` | Two `Subscribe`s of one queue and two `Close`s: do the maps and channels stay consistent, does the code under the lock never panic, do callers see a `RequestReply`? | 3.6 M, 60 s |
| `client_live` | `FairSpec` | A `Subscribe` and a `NewQueue`: does a call that is cancelled, or caught by the end of the session, end, and what alone can hold it? Does `Close` come back? | 148 k, 17 s |
| `delivery_two` | `DeliveryFairSpec` | Two `Subscribe`s, an `Ack`, two messages, takeovers, the end of the session: is a message lost, dropped or held up for a full channel, or read out of order? Is the next one read? | 496 k, 37 s |
| `watch_ticks` | `WatchSpec` | The daemon, two shells and the user at once: unique names, coarse locations, readable files, one notification per buddy and tick, whole ticks | 3.7 M, 56 s |
| `watch_live` | `FairSpec`, `Exclusive` | One command at a time, killed anywhere, beside the daemon: is `state.json` a `KoziStore`? Is a buddy who stays near told of again and again, unless `notify-send` fails or hangs? Does a signal stop the daemon? | 171 k, 25 s |
| `pairing_mid` | `PairingSpec` | Around two hour boundaries, two zones, clocks up to a minute off, addresses of 20-odd shapes: who derives the same slot? Does an address survive being printed? | 311 k, 50 s |
| `dial_any` | `FairSpec` | Eight chains, any hello and failure, five configurations: the right server, agreement, no leak, each wait its own deadline, in time, and back | 1.2 M, 37 s |
| `conn_shared` | `Spec` | Three writers: whose is the deadline on the connection? | 2.2 M, 13 s |
| `wire_batch` | `Spec` | Batches of up to three v6, v7 and v9 commands or answers of every kind, with bodies of more than 255 bytes, whole, cut at every byte, with junk, in another session | 537 k, 50 s |
| `client_panic` | `Spec` | finding 1 | |
| `client_leak` | `Spec` | finding 2 | |
| `conn_clear` | `Spec` | finding 3 | |

`watch_ticks` and `watch_live` stop when the bounded numbers of commands and
edits are used up and the daemon has stopped; `delivery_two` when the calls have
returned, the messages are acknowledged and nothing is under way; `dial_any`
when `Dial` has returned; `wire_batch` when the batch is read; `pairing_mid` at
its last minute. These runs have no deadlock check, for those ends are ends of
the program too. `client_*` check deadlock, with `Halted` for the proper end,
and `conn_shared` does, too.

### What the runs found

1. **A failed `Subscribe` panics the process** (`client_panic`,
   `smp/client.go:407`). `Close`, a read error or `END` closes the registered
   subscriber channel; the `Subscribe` whose `send` then fails closes it again.
   The other way is the inline answer to `SUB`, which is pushed outside the
   lock into a channel that may have been closed (`smp/client.go:417`).
   `NoOrphanChannel` and `LockedCodeNeverPanics` show that this is the only
   kind of panic: dispatch and the drains are safe.
2. **After a read error `Close` leaks the connection** (`client_leak`,
   `smp/client.go:117`): `handleReadError` sets `closed`, and `Close` returns
   before it reaches the transport.
3. **Concurrent calls take away each other's write deadline** (`conn_clear`,
   `smp/transport.go:199`). `send` releases `c.mu` before `WriteBlock`, although
   `smp/client.go:28-29` says that writes are serialized by it. Blocks stay
   whole, for `tls.Conn` has a lock of its own, but the deadline belongs to the
   connection. `DeadlineIsSomeones`, checked and proved, is what is left.

Met while modelling, described here and not given a run:

- `Ack` takes only `OK` for an answer (`smp/client.go:331`). From a relay that
  answers `ACK` with the next message, as one answers `SUB`, the message would
  be dropped and `Ack` fail. The relay of `Delivery` answers `OK`.
- `END` names a queue, not a subscription. One that was under way when a
  `Subscribe` failed and another was made closes the channel of the new one,
  which may then be returned closed. `Delivered` is about subscriptions that
  last.
- The inline message is put in the channel by the caller of `Subscribe`, what
  is pushed after it by the reader. They keep their order only because the relay
  does not push before the first is acknowledged; with the arbitrary relay of
  `Client` the order may be reversed.
- A channel never holds more messages than there have been `Subscribe`s, as the
  relay has one out at a time: that is why nothing is dropped as long as
  `BufCap` is at least that number.
- The comment of `SMPQueueURI.String` says that it round-trips
  (`smp/queue_uri.go:140`). Port 0 is printed as 5223, and a host that begins
  with `[` cannot be read back. An IPv6 host is printed without its brackets and
  is read back all the same, since the last colon is taken for the one before
  the port. `RoundTrip` of `Pairing` has the two exceptions.
- A call caught by a dropped transport returns `smp: read: ...`, where
  `smp/client.go:443-444` promises `ErrClientClosed`.
- The session identifier is not that of the TLS session. `smp/client.go:47-48`
  says that `HandshakeParams.SessID` is the channel binding of the TLS session,
  and `smp/transport.go:70-71` that the client should compare the server's with
  it. `DialTLS` leaves `tlsUnique` nil (`smp/transport.go:152`), and what is
  compared is what the caller passes to `Dial`, before there is a TLS session
  (`smp/client.go:82-86` leaves it to the caller). `OnlyToTheRightServer` states
  what the code does enforce, and no more.
- A cancelled `Dial` waits on in the SMP handshake, if there is neither an
  `IOTimeout` nor a deadline of the context. `smp/transport.go:54-56` leaves this
  case to the context, but `ReadBlock` and `WriteBlock` look at its deadline
  only (`smp/transport.go:210`). `DialReturns` has the waits that nothing bounds
  (`Unbounded`) for its exception, and this is one of them.
- A plus code of `++++` passes the check of its length
  (`cmd/kozi-cli/commands.go:126`) before the `+` are removed, and unsets the
  location.
- A cancelled call stays in `WriteBlock` while the peer does not read, if there
  is neither an `IOTimeout` nor a deadline of the context, or if another call
  has cleared it (finding 3). `CallsEnd` assumes nothing of the peer, and has
  this for an exception: such a call is in `WriteBlock` for ever, on a transport
  that nobody closes. The other exception is a `Subscribe` whose inline message
  finds the channel full; `PushFindsRoom` shows that a relay which keeps to the
  protocol does not bring that about.
- `DialTimeout` is given to TCP and again to TLS, though
  `smp/transport.go:50-51` says it caps both together. `InTime` has the factor.
- The comment of `DialTLS` names a cipher suite and signature algorithms that
  the `tls.Config` does not set.
- Two devices a minute apart derive different slots when an hour begins between
  them, though `cmd/kozi-cli/proximity.go:68-69` says they agree.
- `notify-send` is called inside the tick and does not see the context, so one
  that hangs keeps SIGTERM from stopping the daemon: the only exception to
  `StopsOnSignal`.
- A tick ends at the first `notify-send` that fails
  (`cmd/kozi-cli/proximity.go:118`), so that a buddy whose notification always
  fails hides those after him. `NearIsTold` has this for an exception.

## 4. Bounds, and why they are enough

- *Client*: two calls, because every race in the code is between one call and
  another, or a call and the reader, or a call and `Close`; one queue, because
  the entries of `subs` are independent but for calls on the same queue;
  `BufCap` 1 for 32, so that "full" and "empty" are both near; up to three
  transmissions taken, enough to answer twice, to push before the answer, and to
  end a subscription and push again. The proofs have none of these bounds.
- *Dial*: chains of no certificate up to five (two to four are allowed), with the
  pinned one first, last, in the middle or missing; versions 5 to 8 (one past
  each end); two sessions; timeouts of 1 to 3 units: equal, different and
  absent, with and without a deadline of the context; ten units of time, more
  than what `InTime` allows, so that the reader gets to wait too.
- *Conn*: three writers, so that one can be overtaken by two; short, long and no
  deadlines.
- *Delivery*: two messages, so that one may overtake the other; two `Subscribe`s,
  so that one may fail or lose its place to the other while a message is out;
  one `Ack`, after which the second message can come. `BufCap` is the number of
  `Subscribe`s, as `DeliveryAssumption` asks; in the code it is 32.
- *Wire*: blocks of 480 bytes for 16384 and a count byte that goes up to 2 for
  255, so that both limits are met by batches of three; fields of 0, 1, 2 and 256
  bytes; a message body of 256 bytes, signed and sealed, so that what is
  authorized, and the `Word16` before a transmission, exceed what one byte can
  say; message bodies and queue ids that look like encoded commands and fields;
  versions on each side of the two that change the encoding.
- *Kozi*: two shells, one in `watch_live`, and the daemon; two names, codes of
  the same and of different neighbourhoods, and `++++`; three commands.
- *Pairing*: 122 minutes, two hour boundaries; keys of one byte and queue ids of
  one or two, so that parts of different lengths can have one concatenation;
  hosts with and without brackets, colons and ports; ports 0, 5223, 65536 and
  none.

## 5. Fairness, and why the code justifies it

- `Client!FairGoroutines`: the Go scheduler runs a goroutine that can move.
  Nothing makes an application call a method or cancel a context.
  `FairTransport`: a closed connection fails the reads and writes in progress,
  and a write whose block has left is over. Nothing is assumed of the peer, and
  no deadline.
- `Dial!FairSpec`: time passes, and a wait that is overdue or interrupted
  returns (`GiveUp`). Nothing is assumed of the server.
- `Delivery!DeliveryFairSpec`: the relay answers and pushes, the reader takes
  what comes (`readLoop` runs until the session ends), and the application reads
  its channels. Nobody need call, cancel, take over or end the session, and
  writes need not return: a message does not wait for a call.
- `Watch!LoopFairness`: the goroutine runs and the ticker fires; strong fairness
  of `Stop`, because `select` picks at random among the ready cases and so does
  not pass over `ctx.Done()` for ever. `FairSpec` is no more than that: nothing
  is assumed of `notify-send`, and what a hanging or failing one does is in
  `NearIsTold` and `StopsOnSignal` as their exceptions.

## 6. What is proved

All of it holds for every value of the constants that satisfies the
assumptions named in the modules: `ConstantsAssumption` (`Client`),
`DeliveryAssumption`, `DialAssumption`, `ConnAssumption`, `KoziAssumption` and
`NothingAssumption` (`KoziState`), `SlotsAssumption`, `QueueURIAssumption`,
`PairingAssumption`, and the five of `Wire`. Those say what kind of thing each
constant is, that a subscriber channel has room for one message (one per
`Subscribe` in `Delivery`), that coarsening a code twice is coarsening it once,
that the pinned certificates are certificates, that what stands for "none" is
nothing else, and that the two sessions differ.

**Client** (`ClientProofs`): `TypeCorrect`, `PendingUnansweredAlways`,
`NeverStranded`, `DrainedOnceClosed`, `RegisteredAlwaysOpen`, `LockedCodeSafe`,
`NoOrphans`, and `ClientRefinesRequestReply`. The invariants are not inductive
one by one. That the reader may put an answer in a response channel
(`LockedCodeSafe`) needs that an entry of `sentCmds` is unanswered
(`PendingUnanswered`), and that one has to know that an answer deletes its
entry, which the drains do for all at once. That registered channels are open
needs that `closed` means drained, and that a `Subscribe` past its `Unregister`
is registered nowhere. `NoOrphanChannel` needs to know how a call may have lost
its registration: by the drain, by `END`, or to another `Subscribe` which is
about to panic. The inductive invariant is the conjunction of the type
invariant, these facts, and what each place of the program knows. The
refinement maps `closed` to the shutdown, and a step of `Client` to the one
step of `RequestReply` that changes the status of one call, or to a stutter.

**Delivery** (`DeliveryProofs`): `ClientInside` shows that `Delivery` takes
steps of `Client` only, whatever the relay, the streams and the application do
in between. Its invariant, `LinkInv`, says that the streams carry nothing but
what `Client` lets the reader take. So all of `ClientProofs` holds here;
`NotStrandedInside` draws one conclusion. `RoomEnough` counts the copies of
messages that are in a channel, on their way to one, or read: each was sent for
a `SUB`, or because the message before it was acknowledged (`Budget`), and only
what was read is acknowledged (`AckedRead`), so at most as many are unread as
`SUB`s were handled: neither the reader nor a `Subscribe` that pushes its inline
message finds the channel full. `NeverLost` follows the message that is out
(`Kept`): it is on its way as an event, on its way to a `Subscribe` or held by
one that has yet to push it or to fail, in the channel, or read. A message on
its way to a `Subscribe` that has given up would be lost, so the relay must not
be able to answer that one last: the command of a `Subscribe` which is over is
ahead of that of the one registered now (`Order`), because the former is over
before the latter registers. A `Subscribe` that holds the message and fails
takes the registration with it; one that pushes it to a channel which is not the
registered one does so only when another is about to panic (`NoOrphanChannel`,
from `ClientProofs`). `ReadsInOrder` counts again, with the same lemmas, the
copies of one message (`Load({m})`, where `RoomEnough` counts `Load(Msgs)`):
there are none before all messages before it are acknowledged, and never more
than `SUB`s handled, the relay's leave to push being one of them (`Rounds`). A
message that is read for the first time was a copy just before, so its
predecessors were acknowledged, and only what was read is (`InOrder`). The order
of the two streams, and which goroutine fills a channel, do not matter.
`Traffic` says that a command, its answer on the way and its answer received are
never there at once, nor twice.

**Dial** (`DialProofs`): `HighestCommonVersion` is about the function alone.
`Progress` says of every place what has been checked by then, and that whatever
was told to the server was told after the checks; `NothingLeftOpenAlways`,
`OnlyToTheRightServerAlways` (of the session the caller passed) and
`BothAgreeAlways` are about its last places. For the deadlines `Armed` says what
is on the connection in each place: the deadline of the wait that is on, and
nothing else. It is inductive because every wait clears what it has set; with a
clear left out, the next wait, if it is given nothing to set, finds what it
should not.
`Timed` says the same of time (no wait has gone on past its own timeout), and the
two give `EachItsOwnDeadlineAlways`. `InTimeAlways` needs `Begun` too: each wait
begins at most one timeout later than the one before.

**Conn** (`ConnProofs`): the owner of the deadline has set it and has not left,
which is stronger than `DeadlineIsSomeones`: a goroutine that is still to set
its deadline may be entitled to the same moment by chance, and is no owner.

**KoziState and Watch** (`KoziProofs`, `WatchProofs`): `ApplyOK` shows that an
accepted command makes a list without repetitions of one without. What is in the
file and what each command is about to write are such lists, however stale, so
interleaving cannot hurt (`NoNameTwiceAlways`), nor can the user's edits
(`NoNameTwiceWatched`). `UnreadableKept`: whoever writes has loaded. A tick has,
at buddy `at`, told of exactly those before it who are near, each once
(`TickInv`), which gives `OncePerTickAlways` and `WholeTickAlways`.
`TypesWatched`, `ReadableWatched` and `StoreWatched` assume `SizeOK`, that the
JSON text of a state has a length greater than 0, and nothing else about it.
`ReadableWatched`: while no save has been cut short or begun during another, at
most one process is between truncating and writing, the file is empty while one
is, and otherwise it can be loaded (`Clean`). `StoreWatched`, the
refinement, assumes `Exclusive` too: then at most one process runs, what it
loaded is what the file holds (`Alone`), so that its write is one whole command
of `KoziStore`, and the truncation before it, a crash in between and the reads
of the daemon are a stutter or the loss that `KoziStore` allows. The same three
are proved in `KoziProofs` without the daemon and the user's edits.

**Wire** (`WireProofs`): `OneMeaning` says that `EncodeCommand` is injective up
to `Meaning`: every field but the last tells where it ends (`ShortEnds`,
`CorrEnds`, `MaybeEnds`, `FlagEnds`), so that two equal texts are equal field by
field. The same goes for the bytes that are authorized, with session, CorrID and
queue before the command, however many they are: an authenticator is the same
only if the symbol at its head is, and so the bytes under it; and no signature
is a box, because the relay's key is not 1. With the invariant that each
transmission of a batch is that of the request recorded for it (`BatchInv`) that
gives `Authorizes`. `TransmissionRoundTrip` walks along a transmission with the
decoder, whose position is always the length of what has been read, and finds
each field as it was written.

Writing a block and reading it are recursive functions of the number of
transmissions written or read so far (`EncodeBlock`, `DecodeBlock`). The library
states induction with an operator as parameter, which cannot be cited; but it
states too that `<` on the natural numbers is well-founded, which gives
induction for a set of numbers (`Induction`): a claim about all `n` is the set
of the `n` for which it holds. The definitions are unfolded once. What is proved
that way: the bytes of a batch are bytes; from the position where a transmission
begins `DecodeBlock` finds it, and goes on from where the next one begins; and
in a block that has been cut it comes, sooner or later, to a length that reaches
past the end. The count byte tells the number of transmissions only as `Frame`
lets no more than `MaxCount` through (`CountByteIs`). The inductive invariant
has, beside `BatchInv`, that a framed block is the encoding of the batch,
damaged in the way recorded, and that what was read is what `DecodeBlock` makes
of that (`FrameInv`). `ReadsBack`, `RefusesDamage` and `Covers` follow: what is
taken is what was sent (`TakenIsSent`), so that the fields the relay decodes are
those the client signed, and the session it puts before them is the one they
were signed with, or not. `ReadsAnswers` adds the decoding of one answer,
keyword by keyword, and that what breaks the grammar matches no case. Blocks are
at most 65537 bytes long (`WireAssumption`; in the code 16384), so that the
length before the padding is a `Word16`.

**Pairing** (`PairingProofs`): `MidHour` for any skew, `Neighbours` for clocks up
to half an hour wrong. `Strangers`: the secrets of accepted addresses are one
only if the addresses are of one queue, since the last two parts have fixed
lengths. `RoundTrips` follows `String` and the parser through the tokens: the
last colon of what is printed is the one before the port, whatever the host, and
the first dash the one between the versions. The invariant says that the address
a device has paired with was accepted and is of the same queue as the invitation
behind it, which printing and parsing preserve even where they change port and
host.

## 7. What is only model-checked

Every safety invariant, action property and refinement that a run checks is
proved. What is left to TLC:

- Liveness (`CallsEnd`, `CloseReturns`, `DialReturns`, `NearIsTold`,
  `StopsOnSignal`, `Delivered`): the prover has no rule for fairness or
  `ENABLED`.
- The deadlock checks of `client_*` and `conn_shared`, for the same reason.

## 8. What is not modelled, and why

- The arithmetic of X25519, Ed25519, XSalsa20-Poly1305 and SHA: out of reach of
  a model checker; represented by what they bind.
- `Word32`, `Int64` and `Large` of `smp/encoding.go`, which nothing but tests
  calls.
- Why a read fails, in `Client`: a read error, which may be `ReadBlock`'s deadline
  or not, may come at any time there. `Dial` has the reader's deadline
  (`ReaderTakes`, `ReaderFails`), and `Conn` is about writers.
- The relay, but for what `Delivery` needs of it: it is not in this repository.
- Texts of addresses with a separator too few or too many: refused as a whole
  (`scheme`).
- `cmd/simplex-cli` (a stub), usage texts, the layout of `list`, and the choice
  of a command in `main`.
- Two commands of kozi-cli that overlap and both succeed may lose one's change
  (`cmd/kozi-cli/commands.go:63`). It is in `KoziState` and no property
  excludes it, as the code does not try to.
