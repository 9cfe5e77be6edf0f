# howdy-as-passkey: TLA+ models, checks and proofs

howdy-as-passkey is a daemon that turns Howdy face recognition into a FIDO2
authenticator. It serves a virtual USB security key over USB/IP on the loopback
interface, attaches it to the local `vhci-hcd`, answers the CTAP2 and U2F
commands of the browser, asks Howdy (through PAM) for a face before it signs,
and keeps the credentials in an encrypted file, optionally under a passphrase
sealed in the TPM.

This directory models that program: modules, TLC configurations, proofs for
TLAPS, and `PROJECT.json`, which ties every definition to the lines it stands
for and every property to a mutation of the code that breaks it. Paths below
are relative to `src/src/virtual-fido` unless they begin with `docs/` or
`scripts/`.

## 1. The system

```
 browser --HID--> kernel (vhci) ==USB/IP over TCP==> usbip_server
                    ^  ^                                 |  claim, alive(), writeResponse
  usbip attach/detach  | suspend                         v
                    |  |                             usb_device --OUT packet, one goroutine each--> ctap_hid
 server_linux (main, watchdog)                           ^                                          |  channels,
 sleep_linux (coordinator) <--D-Bus-- logind             |  request_buffer (IN requests, reports)   |  transactions,
                                                         +---------------- response packets --------+  keepalives
                                                                                                    v
                                                       approver (Howdy) <---- ctap, u2f ----> fido_client
                                                            |                                       |
                                                            +--- vault file <--- saveData ---- identity_vault
                                                       tpm_linux: --tpm-init, sealed passphrase
```

| Component | State | Operations | Talks to |
|---|---|---|---|
| `util/request_buffer.go`, `usb/usb_device.go` | waiting callbacks, queued reports, timers | Request, CancelRequest, Respond; IN, OUT and control transfers | server (callbacks), HID layer (reports) |
| `usb/usb.go`, `usbip/usbip.go`, `util/util.go` | none | descriptors, setup packets, headers and the reads behind them | the host's USB stack |
| `usbip/usbip_server.go` | claim per bus id, a socket and a write mutex per connection | accept, devlist, import, SUBMIT, UNLINK, end of a connection | kernel, `usb_device` |
| `cmd/howdy-bridge/server_linux.go`, `sleep_linux.go` | `sleepPending`, the inhibitor, the vhci port | attach, watch, detach for a suspend, re-attach | `usbip`, kernel, logind |
| `ctap_hid` | channels, a transaction and a lock per channel, the response lock, a keepalive goroutine per CBOR command | INIT, first and continuation packets, CANCEL, responses | `usb_device`, `ctap`, `u2f` |
| `ctap`, `u2f`, `cmd/howdy-bridge/approver.go` | the command in progress; PIN hash, PIN retries, U2F counter (in `fido_client`) | MakeCredential, GetAssertion, ClientPIN, Register, Authenticate, `verify` | Howdy, `fido_client` |
| `fido_client`, `identities`, `cose` | sources and their counters in memory, device key and CA, the vault file | create, select, count, delete, export, save, load; the saved form of a key | the file |
| `cmd/demo` | the sources of a vault it has loaded | list, delete, enable the PIN | the file of a server that may be running |
| `cmd/howdy-bridge/tpm_linux.go` | `vault.key.tpm`, `vault.json`, its backup | `--tpm-init`, choice of the passphrase at start | TPM, the file |

What is hard in it:

- **Goroutines without a common lock.** Every OUT packet has its own; a channel
  is served under its own lock, and two channels meet in the vault, the PIN and
  the U2F counter, which have none. Timers and the HID layer answer requests of
  connections that may be gone.
- **Panics as errors.** Reads and writes panic. On a connection's goroutine
  `alive()` catches that, elsewhere the process ends; what was locked or
  half done on the way stays so.
- **Two supervisors of one port**, main and the sleep coordinator, with logind
  and the kernel deciding what they may do and when.
- **Files.** A save truncates and rewrites; the migration to the TPM writes
  three files; a crash, a failing write or the daemon may come in between.
- **What outlives what.** Channels, running commands and queued reports belong
  to the process and outlive an attachment; the device key and the CA are made
  anew at each start unless a vault replaces them; keys were saved in several
  forms over the versions, and each is read by probing.
- **Cutting and joining.** A message is cut into 64-byte reports, each carried
  on a byte stream, by code of three packages; lengths that just fill a packet,
  the longest and the empty one are where they may disagree.

What makes each part correct is stated with its module below. `PROJECT.json`
lists under `hazards` the places where these difficulties bite, each with its
line and with the properties that look at it, or why none does.

## 2. The modules

Each module is one component, in the granularity in which its goroutines can
interleave: a step touches shared state once, or is the critical section of one
lock. The counters `Max...` are the only bounds; they are constants, named in
the module, and the proofs hold for all their values.

### RequestBuffer and ReportPipe (the interrupt-IN path)

`RequestBuffer` has the buffer's two maps (`waitingForData`, `responses`), the
timers, what the connection and the HID goroutine are about to write (`conn`,
`hid`) and everything written (`wire`). `RequestWaits`, `RequestServed`,
`Unlink`, `RespondToWaiting`, `RespondQueues` and `TimerFires` are the critical
sections of `buffer.lock`; the `Finish...` actions are the writes after it.
`Request` alone calls its callback with the lock held (`LockFree`).
`RespondToWaiting(id)` takes any waiting id: Go's order over a map.

`ReportPipe` is what the component promises a host: reports leave in the order
they were made, each in the answer to one request; a request ends once.
`RequestBuffer` implements it, with the refinement mapping at its end
(`ImplementsPipe`): a report counts as delivered when it is written.

### UsbIpServer (connections)

`pc` is where the goroutine of a connection is in `handle()` and
`handleCommands()`; `peer` is the other end. A write is free to fail once the
peer is gone: `WriteFails` leaves the mutex `leaked` (no defer in
`writeResponse`) and goes where `alive()` takes it; a panic inside
`handleCommands` releases the claim and returns to the control loop, which then
reads at a `stray` place of the stream, or finds it `ended`. What it takes for a
device list or an import there it answers like any other, and so may wait for
ever for the mutex its own panic left locked (`Stuck`). `AnswerCrashes` is a failing write on a timer or in the HID layer,
which nobody catches. Contents are left to RequestBuffer.

### BridgeSupervisor (attach, watch, suspend)

`main` and `coord` are the two goroutines; `served`, `forsaken`, `claim`,
`sleepPending`, `lock` and `inhibitors` what they share with kernel, server and
logind. The ports in use are those whose handler serves the device and those it
has given up: `handleCommands` ends by a panic on a command it does not know, or
a transfer read short, and releases the claim while the kernel goes on using the
port (`HandlerGivesUp`), which then looks live to the watchdog. An attach is two
steps, the import (guarded by the server's claim) and the bind.
External, from how the code uses them: logind announces a suspend, proceeds when
the last delay lock is gone or its cap is over, and announces the resume or the
failure; the kernel refuses to suspend with a port in use; nothing of user space
runs while suspended. `excused` is history: since the last announcement something
happened that the code cannot help (a cap, a failing detach, no lock in place) or
that a finding is about (an attach in the window).

### CtapHid and Exchange (packets, channels, keepalives)

A packet in `packets` is a goroutine that has not got its channel's lock yet, so
they may get it in any order; `reordered` records that one overtook another.
`owner[ch]` is the goroutine inside `messageLock`; `sender` holds
`responsesLock`; `ticker[r]` is the keepalive goroutine of a CBOR request.
The clients (browsers) are external: they open a channel, send requests of one
or two packets, wait, read the next final message on their channel as the
answer, may cancel, and one of them may use a channel id from before a restart.
A PING may be empty: `createResponsePackets` makes no packet of its echo, so the
command ends without a response (`Echo`).

One timing assumption is made: after a keepalive is sent, its next trigger is
50 ms away, and the goroutine reaches its `select` before that
(`util/util.go:139-146`), so that a stop that is ready is taken (`Keepalive`). A
goroutine that is not scheduled for so long could send another one.

`Exchange` is what the HID layer promises them, without packets, transactions,
goroutines, locks and keepalives: a call is made on a channel, waits there
(`pending`), runs (`Begin`, at most once and alone on its channel) and has its
result (`Return`, or `Open` in the lobby, which makes a channel that is nobody
else's), or none, if it is a mute one: an empty PING (`Finish`). The calls of a channel run in the order they were made and none is
refused or lost, until packets are mixed up (`InTurn`, `Refuse`, `Lose`). A
client takes a result once, and it is the one of its own call unless it has given
one up or packets were mixed up (`Take`). `CtapHid` implements it in every order
of packets (`ImplementsExchange`, with the mapping at its end): a request is
pending until the packet that completes it is handled, and runs from there to
the last packet of its response. A channel id from before a restart counts as no
channel, and what is asked on it as nothing (`MakeElsewhere`).

### CtapServer (commands, approval, PIN, counter)

`cmd[c]` is the command a channel runs and how far it is. `approve` waits for
Howdy, which matches in time (`Matched`), denies, or reaches the deadline; or
the check ends and a process it has started holds its output, on which
`CombinedOutput` waits past the deadline (`Held`, `LetsGo`). U2F's control byte
0x08 signs presence and asks nobody (`AuthenticateUnenforced`).
`spend`/`spent` are the read and the write of the retry counter, `count`/`bump`
those of the U2F counter, `export`/`write` a save. `signature` is history: the
flags of the last signature, and what it rests on: a face matched for its
command, U2F's waiver, or the pinToken, which a client was given for the PIN or,
while no PIN is set, for an empty attempt ("free": `bytes.Equal` of an empty
slice and nil). The bridge itself creates its client with PIN
support off (`main.go` passes `false`) and takes the setting of the vault when
there is one; `enabled` is therefore either, and the PIN paths describe a vault
in which it was switched on.

### VaultStore (credentials, counters, the file)

`vault`, `counter` and `file`, and for each channel the ceremony with what it
has loaded and exported. Append, increment and save are two steps or more, as in
the code; a save truncates (`Open`) and writes (`Write`), possibly over another
writer. `excused` collects the accidents that cost data: overlapping updates,
two assertions with one credential at a time, a failing save, a file that could
not be read, a kill inside a save.

`CredentialLedger` is what that means to a relying party, without ceremonies or
files: a ledger that only grows, in which a credential is entered before its
party is told, and a counter before it is signed. `VaultStore` implements it
until one of the accidents happens; the mapping takes the ledger to be what the
next start would find (`Durable`).

### TpmInit and VaultKeys (migration, secrets)

In `TpmInit` `key`, `vault` and `backup` are the files, each with the passphrase
it is under; `pc` is where `runTPMInit` is. A daemon runs beside it, starts,
saves and stops. An init takes a vault that is empty, or that it fails to read,
for none and ends well without migrating it (`TakesForNone`); a daemon that
fails to read it starts with nothing (`StartBlind`); a save of the daemon may be
cut short (`SaveFails`). `mishaps` is history, and each property names those it
excuses: "race" (a save during an init, or with a passphrase from before one),
"tear" (a save cut short), "blind" (such a start) and "unread" (such an init).

`VaultKeys` adds what else is in the vault. `secrets` are the device key and the
CA of the daemon, `stored` those in the file, `read` those an init holds.
Each action is one of `TpmInit` with its effect on them, so it implements
`TpmInit`, which the run and a theorem (`KeysMigrate`) use: what is checked of
the migration is checked in the larger module. `handles` are the U2F handles
given away, `software` the credentials whose key is not of the TPM, and `bare`
records that an init found no vault, which with a blind start is the one way to
another device key.

### UsbDevice and PacketPath (enumeration, a message from end to end)

`UsbDevice` has the descriptors and the control requests as functions, in the
bytes that make a host ask for more. `PacketPath` is one session: the host
enumerates the device from those answers, then sends PINGs whose packets travel
as OUT transfers. `stream` is the TCP stream, of which `arrived` units can be
read; `Read` of a transfer's buffer takes what is there, once, as
`usbip_server.go:202` does, and `short` is history: it took less. The
`transaction` joins the packets, `reports` are the answer's. Sizes are
constants: a report of 4 units, headers of 2 and 1 and messages of at most 11 cut
and join like 64 bytes, headers of 7 and 5 and 7609 bytes, with the same
remainders.

### Sessions (what outlives an attachment)

A composition of the connection handler, the request buffer and the channels,
each reduced to a step per effect on the others. `session` counts attachments,
`irp[s]` is the one IN request the host keeps outstanding in session `s`, with
the goroutine that has it; `running` are the commands in the HID layer,
`responses` the queue. `leaked` are the sessions whose write mutex stayed
locked. Clients open a channel, ask, wait and give up. `delivered`, `lost` and
`died` are history: how each answer ended.

### Credentials (which credential answers, with which key)

`sources`, `saved` and `cli` are the list in the server, on file and in a demo
command. Import, Export, deletion and selection are functions on lists, with the
saved forms of `cose.go`. A key is the number of its pair. `known` is what the
relying parties have; `deleted`, `astray` and `raced` are history, the last two
being the excuses: a party that dropped or refused a credential of ours, and a
demo command on the file of a running server.

## 3. What is checked

The runs that pass are complete searches:

| Run | Distinct states | Bounds, and what it shows |
|---|---|---|
| RequestBuffer | 173,890 | 3 requests, 3 reports: every request ends (`EveryRequestEnds`); ECONNRESET means never answered (`UnlinkedNotAnswered`); no report is parked while one waits (`NoMissedWakeup`); `ImplementsPipe` |
| UsbIpServer | 70,687 | 2 connections, 2 requests, 2 reports: the claim follows the handler exactly (`OneImporter`); a dropped peer ends the handler, or leaves it at the mutex its own panic has locked (`DropEndsHandler`); a live peer is answered (`RequestsOfLivePeersEnd`) |
| BridgeSupervisor | 258,643 | 3 suspends, 2 drops, 2 failures, a handler that gives up, a loss of the bus: never two ports that are served (`AtMostOneServed`); when all is handled the watchdog is on and the lock held (`CaughtUp`); a suspend meets the port only excused (`SuspendMeetsPortOnlyExcused`); `AttachedInTheEnd` unless the bus is lost or a port its handler gave up stays in use |
| VaultStore | 2,535,930 | 2 channels, 2 credentials, 2 assertions, 2 crashes, a failure: only the listed accidents cost a credential (`AckedKept`) or the next start (`BrokenOnlyExcused`); `ImplementsLedger` |
| VaultKeys | 1,389,488 | 3 credentials, 3 inits, 2 faults, 3 starts, 2 handles: the migration loses nothing (`NothingLost`), leaves a backup (`BackupIsWhole`) and stops the daemon only half-way or after it took a vault it could not read for none (`StartFailsOnlyHalfway`); U2F handles keep opening (`HandlesOpen`), a TPM key never meets a daemon without the TPM (`SignerForEveryKey`), what was saved of CA and device key stays (`SecretsStay`); a racing or torn save and a blind start are excuses, each only where it is needed |
| CtapHid | 624,722 | 2 clients, up to exchanging them (`MCCtapHid`), 3 requests, a CANCEL, 2 keepalives: `Contiguous`, `OneLateKeepalive`; with packets in order `HandedAsSent` and `AnswersOwnRequest`; in any order `NobodyForgotten` (but for an empty PING) and `ImplementsExchange`, which implies that no channel is given out twice (`ChannelsUnshared`) |
| CtapServer | 2,929,687 | 2 channels, up to exchanging them (`MCCtapServer`), every ceremony, PINs set and tokens asked for, a restart, PIN support on or off: `FlagsEarned` |
| CtapServerLive | 449,744 | 2 channels that change the PIN and authenticate with U2F, 2 tries, 3 counter values, 2 restarts: `TriesAddUp`; `CommandsEnd` unless a check's output is held, `NumbersRepeatOnlyExcused` |
| PacketPath | 33,112 | reports of 4 units, 3 continuation packets, 2 PINGs of any length: the device serves all that its descriptors make a host ask for (`EnumerationServed`); a message comes back whole (`PongsIntact`), and does come back (`PingsAnswered`), unless it is empty or a Read was short |
| Sessions | 242,556 | 2 clients, 2 sessions, 4 requests: an answer is in one place (`OnePlace`); a client takes none but its own (`OwnAnswerOnly`); in a session that lasts it gets it (`WaitingEnds`), unless a dead session took it or wedged the HID layer |
| Credentials | 172,088 | 2 parties, 3 credentials: what a party has and nobody deleted still signs (`KnownStillSigns`); a login gets a credential it allows (`LoginFindsAllowed`), or the party's own (`DiscoverableKnown`); `DeletedStaysDeleted` |

The types are proved of every module but PacketPath, whose types are checked by
`PacketPathTypes.cfg` (as CtapHid's and `ChannelsUnshared` are, besides, by
`CtapHidTypes.cfg`). PacketPath also has `ConfiguredAsServed` (a configured host has every endpoint and the
report descriptor) and `InStep` (only a short Read makes the server take payload
for a header), which is a theorem too.

Why the bounds suffice: each property relates at most two requests, credentials
or commands of two actors and one outsider, so two actors with one operation
more than the property names let every pair overlap and leave one to come after.
Three requests let one be served, one time out and one be taken back; three
suspends let a resume, a failed attempt and a next one follow each other; two
faults let a second accident hit the recovery from the first; in `VaultKeys` a
third init follows a failed one and a removed key, and a third start one that
follows either. The lengths 0 to 11 of PacketPath meet each case of cutting: no
packet, a part, exactly one, one and a part, the last sequence number; the
second PING finds what the first left. Three credentials are the least for which
a deletion moves a source over a gap and leaves the order of two to matter; four
requests let both clients open and ask, or one of them do it in each of two
sessions. `Tries = 2` stands for 8: at
2, 1 and 0 the code takes each of its branches. Where a bound stops the system (`MaxNumbers`), the
liveness property says so.

Deadlock is checked for RequestBuffer, where `Quiescent` is the only end, and for
Credentials, which never stops. The other modules may really stop: the process ends by a panic, or all bounded
environment steps are spent and the goroutines wait for input.

### Fairness

- Goroutines that can go on do (`WF` of their steps). `sync.Mutex` does not
  starve a waiter, hence `SF` of `TimerFires` in RequestBuffer.
- In UsbIpServer a dropped peer sends nothing more, so reading comes to the
  failing read (`SF` of `ReadFails`), unless the handler waits for a mutex
  nobody will unlock.
- logind ends a delay by its cap, and somebody wakes the machine up (`WF` of
  `Logind`).
- The deadline of `context.WithTimeout` fires (`WF` of `TimedOut`) and kills
  pamtester. That does not end the call while another process holds its output,
  since no `WaitDelay` is set: `Held` may come first, and `LetsGo` has no
  fairness.
- A handler whose port is gone releases the claim (`WF` of `ClaimReleased`), which
  also stands for one that reads on: claims of a stray stream are UsbIpServer's.
- In PacketPath TCP delivers, and the server and the host's stack go on (`WF` of
  `Arrive`, `Serve` and `Listen`); that the host sends anything is not assumed.
- In Sessions goroutines go on, the host reads, timers fire, and systemd starts
  the process again (`Restart=on-failure` in the unit). A command in the HID
  layer competes with others for `responsesLock`, which starves nobody: `SF` of
  `Respond` for each.
- Hosts, clients, PAM, crashes, drops and failures owe nothing. In CtapHid every
  step uses something up, so "nobody waits for ever" is the invariant
  `NobodyForgotten`: where nothing is left to do, nobody waits for nothing.

### Findings

One run, `UsbIpServerCrash`, is listed as a violation (`findings` in
`PROJECT.json` quotes both sides): a detach while a request waits ends the
process, for the timer's write panics and nobody recovers. The modules state
sixteen more sentences of the sources that the code does not keep, each with a
configuration that TLC refutes (`tlc -config <name>.cfg <module>`):

| Configuration | Sentence | What the code does |
|---|---|---|
| UsbIpServerWedge | `cmd/howdy-bridge/server_linux.go:47-50`, a fresh attach brings the device back | a failing write leaks the connection's mutex; the HID layer waits for it for ever, and a new session gets no reports |
| SessionsFresh | the same | the same with clients: one whose new session lasts is never answered, because its answer went to the dead session's request or the HID layer is stuck |
| UsbIpServerStray | `usbip/usbip_server.go:185-187`, a panic means that the peer dropped | `alive()` ends a session over an unsupported request although the peer is there |
| UsbIpServerStuck | `usbip/usbip_server.go:102-103`, `165-168`, a dropped peer ends the handler and frees its socket | a handler whose write panicked takes what is left of the stream for a control request, and waits with its reply for the mutex that panic left locked |
| RequestBufferOldest | `util/request_buffer.go:48`, the first waiting request | `Respond` serves any waiting request |
| BridgeSupervisorWindow | `cmd/howdy-bridge/sleep_linux.go:54-57`, no attach in the window before the suspend | the watchdog attaches after the detach when it asked before the announcement |
| BridgeSupervisorBus | `cmd/howdy-bridge/sleep_linux.go:73-76`, a broken bus does not take the authenticator down | the bus lost between the two signals leaves `sleepPending` set: the watchdog never attaches again |
| BridgeSupervisorForsaken | `cmd/howdy-bridge/server_linux.go:181-184`, a port in use means that the authenticator is live | a handler that gives up leaves its port in use; the watchdog takes it for live and never attaches again |
| TpmInitReadable | `cmd/howdy-bridge/tpm_linux.go:49-50`, `docs/security.md:137-138`, a failure never leaves the vault unreadable | an init that stops after the key and before the vault leaves a daemon that cannot start until the key is removed by hand |
| CtapHidOrder | `ctap_hid/transaction.go:15`, messages are combined into a command | packets of one request overtake each other, and a proper request is refused |
| CtapServerRetries | `fido_client/fido_client.go:169`, the assertion on PIN retries | the PIN command after the last wrong PIN panics |
| CtapServerWedged | `cmd/howdy-bridge/approver.go:15-16`, a wedged check can never hang the authenticator | a process that outlives the check and holds its output holds the channel past the deadline |
| CtapServerPresence | `cmd/howdy-bridge/approver.go:30-31`, `75`, every ceremony is gated on a live face match | a U2F authentication without enforcement signs presence and asks nobody |
| CtapServerToken | `cmd/howdy-bridge/approver.go:46`, we never assert verification we did not perform | while no PIN is set an empty attempt earns the pinToken, and with it UV |
| VaultKeysCa | `docs/security.md:205-206`, `cmd/howdy-bridge/main.go:92`: the CA is regenerated on every run | the vault replaces it by the saved one (`importData`), so attestations of all runs share a CA |
| VaultKeysUsable | `docs/security.md:130-134`, in TPM mode a decrypted vault yields no usable key | credentials from before the migration keep their software keys |

Plain from the code, and left at that: a MakeCredential that does not decode
panics and ends the process, against `docs/security.md:197-199`; an assertion
with `up=false` is signed without a face (UP and UV clear, as CTAP2 has it),
against `cmd/howdy-bridge/approver.go:29-30`; an init that fails after the key
does not leave the daemon in disk mode, against
`scripts/install-service.sh:39-41`.

## 4. What is proved

TLAPS proves the following for all values of the constants, from the named
assumptions of the modules (`BoundsAssumption`, `ConnsAssumption`,
`BridgeAssumption`, `CtapHidAssumption`, `CtapAssumption`, `VaultAssumption`, `TpmInitAssumption`,
`VaultKeysAssumption`, `SessionsAssumption`, `CredentialsAssumption`, `PacketAssumption`: the bounds
are naturals, `NoPin` is no PIN, `NoRP` no party, and a packet holds
more than its share of the payload). Each proof module begins with its argument and defines an inductive
invariant `IInv`; `Init => IInv` and `IInv /\ [Next]_vars => IInv'` are lemmas
with one step per action.

- **UsbIpProofs**, about RequestBuffer: `TypeOK`, `AnsweredOnce`, `UnlinkedNotAnswered`,
  `NoMissedWakeup` and the refinement `ImplementsPipe`. `AnsweredOnce` speaks of
  the wire only and is not inductive: `OnePlace` says of every request that it is
  in the buffer, in one of three hands, being unlinked, or settled, and in one of
  them at most. The refinement needs `Numbered`: the queue holds the last reports
  and the one in flight is the one before them.
  About UsbIpServer: `ServerTypeOK`, `OneImporter` and `OneOwner`, with ids that
  grow and a HID layer that holds one request at most.
  About PacketPath, for reports, headers and sequence numbers of any size with
  `InitData` and `ContData` below `ReportSize`: `EnumerationServed`,
  `PongsIntact` and `InStep`. `JoinsUp` says of every payload up to the limit
  that joining its packets gives it back, by comparing unit for unit what lies
  before packet `k` with `InitData + k * ContData`, so no induction over the
  payload is needed; the number of packets is the least `k` for which that
  reaches the end (`PartsSuffice`). The invariant then says how far a message
  has come: `j` packets sent or, on the way back, `j` joined by the host
  (`Outward`, `Inward`), and that the enumeration asks only for what is in
  `Asks` (`Enumerating`), from which no answer leads out (`FollowUpsAsked`).
  That needs the length of the configuration, a fold over four descriptors,
  unfolded by hand (`LengthOfFour`).
- **BridgeSupervisorProofs**: `TypeOK` and `AtMostOneServed`; `Guarded` says that
  the claim covers the goroutine between import and bind as well as the port that
  is served. A handler that gives up releases it and takes its port out of service
  in one step, which is why a port it leaves behind does no harm to the invariant.
  `CaughtUp` and `SuspendMeetsPortOnlyExcused` need a second invariant, `Order`,
  about a queue of signals that is read late: its last entry is how the system
  is (`Told`), and an announced suspend finds either the lock held and the signal
  under way, or the port gone (`Covered`).
- **CtapHidProofs**: `TypeOK`, `ChannelsUnshared` and all properties of the run, with
  the refinement `ImplementsExchange`. The invariant
  follows a packet: it is with a goroutine or gathered in a transaction, in one
  place (`LiveOK`), it is of the one client that uses its channel (`Ownership`),
  and it becomes the message of the goroutine in the channel's `messageLock`
  (`OwnersOK`). Ids are given out once (`Numbered`) and suffice for all INITs
  (`Counted`); a response holds `responsesLock` (`Locked`); a request's keepalive
  starts once (`Once`); who waits has a packet, a message or an answer on the way
  (`NoneForgotten`), unless its request is an empty PING, and only those are
  without packets (`Mute`). These hold whatever order packets are handled in. Two more
  parts need the order of sending (`~reordered`): a gathered first packet is
  followed by its own continuation (`InOrder`), and a client that never cancels
  has its request in one place and old answers only to what it has asked
  (`Flow`, `StaleFlow`, the latter for a client with an old channel id). That
  they need it is what `CtapHidOrder.cfg` shows. The refinement needs four facts
  more, `Served`. That a client takes a result once is not visible in what is on
  its way, so the replies sent are followed: one to a request, whose keepalives
  have been told to stop (`OneReply`), and read in the order of sending, so that
  one taken is behind the reader (`ReadOnce`). That calls run in turn needs that
  the first packets of a client are numbered as they were sent (`Ordered`); that
  none is refused, that a continuation finds its beginning before it
  (`Preceded`). Each step of `Next` is then shown to be one of `Exchange` or to
  change nothing of what the mapping reads (`ClientExchange`, `HandleExchange`,
  `WorkExchange`, `TickExchange`, `IdleExchange`).
- **CtapServerProofs**: `TypeOK`, `FlagsEarned`, `TriesAddUp` and the action
  property `NumbersRepeatOnlyExcused`; `CmdOK` carries the origin of the flags
  along with the command (a face, U2F's waiver, the token and what it was given
  for), `Serial` says that without an overlap one command is at
  the retry counter and what it has read is current, `Alone` the same of the U2F
  counter, with all issued numbers below it.
- **VaultStoreProofs**: `TypeOK`, `AckedKept`, `CountersIncrease`,
  `BrokenOnlyExcused` and the refinement `ImplementsLedger`. Without overlapping
  updates one ceremony is between reading the vault and having saved it
  (`Serial`), so the file is torn exactly while it writes; what is told or
  signed, or about to be, is then in what the next start finds (`Entered`,
  `Counted`).
- **VaultKeysProofs**: that VaultKeys implements TpmInit, `NothingLost`,
  `BackupIsWhole`, `StartFailsOnlyHalfway`, `HandlesOpen`, `SignerForEveryKey`
  and `SecretsStay`. What each point of an init knows of its files, whoever saves in between,
  is `Shapes`; that the vault is the one it has read until a save races with it,
  or one it could not read, is `Undisturbed`; that it holds all there is until a
  save is cut short too, or a daemon starts blind, is `Intact`. Each property
  follows from the weakest of the three that gives it, and so has no excuse it
  does not need.
- **SessionsProofs**: `TypeOK`, `OnePlace`, `OwnAnswerOnly` and
  `OneLostPerSession`. `Spread` divides the requests among the places an answer
  can be in; `Channels` says that the one reply that can be about on a channel is
  the one its client waits for, because an id is given once.
- **CredentialsProofs**: `TypeOK` and all four properties of the run.
  A list is sound if it has each id once and with its own key; export, import,
  registration and deletion keep it sound whatever form the keys are in, and the
  three lists keep what is known and not deleted. A selection is the least place
  that matches, which exists because the naturals are well-ordered (`First`).
  That the party has what is selected needs `Parties`, which holds even when
  commands and the server save over each other: in every list a source is its
  party's under that id, and the party knows it or has one astray.

Only model-checked: all liveness properties (beyond the prover), and of
PacketPath the types and `ConfiguredAsServed`, which speaks of all descriptors
the host has got and so of the whole history of its list.

## 5. What is not modelled

- Power loss: a write that has returned is on disk. Two inits at the same time,
  which share a `.tmp` name.
- HID commands nobody sends: an unknown one, or input that does not decode,
  panics on its goroutine and ends the process (`Malformed` of CtapServer is the
  end of the process, which Sessions restarts).
- A stale channel id that happens to be given out again after a restart: the
  client with it would talk on another's channel. In Sessions clients open a new
  channel whenever they open the device.
- What follows after the server has taken payload for a header (PacketPath stops
  there), and reports in an order other than the packets' (CtapHid's subject).
- A sealed key file that is there but cannot be looked at (`os.Stat` fails with
  another error than that it does not exist, `cmd/howdy-bridge/tpm_linux.go:53`).
- A keepalive goroutine that is not scheduled for 50 ms, the assumption under
  CtapHid above.
- What a handler that has given up its port does to the claim afterwards, in
  BridgeSupervisor: a stray stream that passes for an import is in UsbIpServer
  only.
- A TPM that fails while it signs: `Sign` returns nil and the ceremony answers
  success with an empty signature, plain from `cose/cose.go:116`. That a TPM key
  never meets a daemon without the TPM, the other way to that line, is
  `SignerForEveryKey`.
- A vault in which a source does not parse: import stops there without an error.
- The key derivation of the PIN protocol, ciphers, X.509 and CBOR, which are
  libraries used as such; logging; the scripts beyond what the findings quote.
- The macOS driver and client: a DriverKit extension reached through cgo, not
  part of the Linux bridge, and governed by the behaviour of the macOS kernel.

## 6. Plan

Done: RequestBuffer with ReportPipe, UsbIpServer, BridgeSupervisor, VaultStore
with CredentialLedger, TpmInit, CtapHid with Exchange, CtapServer; then
VaultKeys, UsbDevice, PacketPath, Sessions and Credentials; the proofs of all of
them.

What is left: a TPM that fails in the middle of a ceremony, in CtapServer and
VaultStore together, and what a relying party has after an empty signature; and
the types of PacketPath as a theorem, for which the invariant would have to say
what the transaction and the stream hold after a short Read.
