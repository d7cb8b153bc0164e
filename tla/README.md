# Boardswarm in TLA+

Boardswarm gives network access to development boards. A server per machine
collects the serial consoles, actuators (power switches, straps) and volumes
(flashable storage) it can reach, groups them into the devices of its
configuration and offers them over gRPC. Servers re-export the items of other
servers, and clients follow items and devices as they come and go. What makes
it hard is order: boards appear and vanish by themselves, several clients act at
once, every notification channel can overflow, and any connection can break.

This directory holds TLA+ modules for the parts of the program whose
correctness depends on the order of events, the TLC configurations that check
them on small instances, and theorems that TLAPS proves about them. Paths below
are relative to the repository; `main.rs` without a directory is
`boardswarm/src/main.rs`.

- [Inventory](#inventory): the system's parts, state, operations, interactions
- [Modules](#modules): which module models what
- [Runs](#runs): what is checked, with which bounds
- [Fairness](#fairness)
- [Divergences](#divergences): where the code does not do what it says
- [Proofs](#proofs)
- [Not modelled](#not-modelled) and [Plan](#plan)

Run everything from this directory: `tlc -config X.cfg M` for the module that
`PROJECT.json` names with the configuration, `tlapm M.tla` for the modules whose
name ends in `Proofs`.

## Inventory

**Registries** (`registry.rs`, `register_*`/`unregister_*` in `main.rs`). One
registry each for actuators, consoles, volumes and devices. State: the next id,
a map from id to item, a `tokio::sync::broadcast` channel of 16 changes.
Operations: `add`, `remove`, `monitor` (subscribe), `contents`. Every provider
writes to them; Monitor calls and configured devices read them. Hard: a reader
subscribes and lists in two steps while others write, and a slow one loses
changes. Correct when ids are never given out again, the changes sent are a
history of the map, and a reader that has received everything agrees with it.

**Monitor RPC** (`main.rs:673-728`). Per call: a receiver, a snapshot sent as the
first message, then changes, until the receiver lags, which ends the stream.

**Configured devices: links** (`config_device.rs`). A device has volumes,
consoles and mode steps that name an item by properties; each is a `DeviceItem`
with an optional id. One task per device subscribes to three registries, scans
them, follows their changes, and starts over when one of its receivers lags.
Every changed link is announced to the watchers of the device. Hard: changes
between subscription and scan, lag on one of three receivers, restarts.

**Configured devices: modes** (`config_device.rs:275-317`). `set_mode` checks and
clears `current_mode` under a lock, runs the actuator steps of the mode without
it, and sets the mode at the end. `ActuatorChangeMode` (`main.rs:894`) sets an actuator
whatever devices use it. Hard: concurrent calls, steps that fail, calls dropped
half-way, whose actuator may act yet.

**DeviceInfo RPC and the client's device** (`main.rs:391-405, 849-870`,
`boardswarm-client/src/device.rs`). The server reads a device, subscribes to its
notifier (capacity 1), and reads it again on each notice; the client stores the
info in a watch channel, on which tasks wait for a volume or console to appear
or to go. Hard: changes between reading and subscribing, lost wake-ups.

**udev events and registrations** (`udev.rs`). A stream that listens to the
kernel, then scans. `DeviceRegistrations` numbers appearances of a path; a
preparation spawned for one may finish after the device has gone or has appeared
again, and must then register nothing. Used by fastboot, mediatek-brom,
eswin-eic7700-storage and hifive-p550-mcu. The serial, dfu and rockusb providers
register from their event loop with a map of their own.

**Serial consoles** (`serial/mod.rs`). The first caller opens the port; a task
reads it into a broadcast channel of 64 chunks; inputs share the write half
under a lock. Hard: two first callers, slow readers, unplugging, end of streams.

**VolumeIo** (`main.rs:131-311, 930-983`, `boardswarm-client/src/client.rs:301-636`).
A bidirectional stream of pipelined read, write, flush and shutdown requests;
replies have no number, so both sides rely on order. Volumes complete requests
in any order. Hard: reordering, failures in mid-pipeline, break of the
connection, who lets go of whom.

**VolumeIoRW** (`client.rs:640-1011`): the same as a tokio reader, writer and
seeker with poll functions that may be given up at any point. **BatchWriter**
(`boardswarm-cli/src/utils.rs`): batches of whole blocks on top of it.

**Boardswarm provider** (`boardswarm_provider/mod.rs`, `device.rs`). Follows the
registries of another server, registers a proxy per item, and maps remote to
local ids; re-exported devices translate their info through that map. Hard:
items that go while they are being asked about, restarts of the remote (which
gives out its ids anew), lag of one of four streams, a channel that connects again
for a call before the broken streams have ended.

**Pass-through of consoles and actuators** (`boardswarm_provider/console.rs`,
`actuator.rs`). The proxy of a console keeps its parameters and sends them to the
remote whenever an input or output is opened; what is typed goes through a
channel to a task that streams it. Hard: two openings at once, dropped calls, a
remote that stops listening. Actuators pass each call on.

**Fastboot volumes** (`fastboot.rs`). Writes are buffered as chunks of whole
blocks and flashed as raw or sparse images no larger than the board takes. All
targets, probes, erasures and commits of a board go through one channel to one
task. Hard: where a large write is split, and several users of one board.

**DFU volumes** (`dfu.rs`). One task owns the device and serves one download
after another over channels of capacity one; `commit` resets the device.

**Rockusb volumes** (`rockusb.rs`). In maskrom mode a target collects an image
and uploads it when it is shut down; in loader mode it is the storage, and one
task serves one open target at a time until it is closed. Hard: calls of open
given up while they wait, what is stored when the target goes.

**MediaTek boot ROM volumes** (`mediatek_brom.rs`). Targets that upload when they
are shut down, and a commit that executes what was uploaded last, through one
task. Hard: several clients with one place to upload to.

**GPIO actuators** (`gpio.rs`). The provider takes the first chip that matches and
sets its lines up one after another. Hard: chips that go or come meanwhile, and
lines that cannot be had.

**HiFive P550 controller** (`hifive_p550_mcu.rs`). One task serves two actuators
over a serial line: it waits for a prompt, asks, sets, and waits to be told, each
for a limited time. Hard: replies that come too late are left for the next call.

**Client authentication** (`boardswarm-client/src/oidc.rs`, `authenticator.rs`).
An access token under a mutex, a cache file, refresh and login. **Client
configuration** (`config.rs` of the same crate): the file of servers, which every
command reads whole and some write whole. Hard: commands at the same time.

**Terminal** (`boardswarm-cli/src/ui.rs`). Keys are read in chunks, and a key after
^a is a command, carried out within the stream that the console reads. Hard: what
falls into one chunk, commands that wait or fail. **Sparse images** (`write_aimg`
of `boardswarm-cli/src/main.rs`): chunks copied, filled or skipped on the way to a
volume. Hard: holes, and files that are cut short.

The remaining parts (ESWIN storage, pdudaemon, the drawing and the other commands
of the command line client, server configuration and authentication, protocol
crate) are under [Not modelled](#not-modelled).

The hazards of each part, with the line where each bites and the properties that
watch over it, are listed in `PROJECT.json`.

## Modules

| Module | Extends | Models |
|---|---|---|
| `Registry` | | ids, contents and change channels of all registries |
| `ItemMonitor` | `Registry` | Monitor calls of several clients |
| `DeviceLinks` | `Registry` | a configured device's task over three registries |
| `DeviceMode` | | `set_mode`, and what else sets actuators |
| `DeviceInfo` | `DeviceMode` | info streams and waiting tasks of clients |
| `UdevEvents` | | kernel, monitor socket, `DeviceStream` |
| `DeviceInventory` | | abstract: what is offered for each path |
| `UdevRegistrations` | `UdevEvents` | `DeviceRegistrations` and preparations; implements `DeviceInventory` |
| `UdevDirect` | `UdevEvents` | providers that register from their loop |
| `SerialPort` | | one serial console with its callers and streams |
| `IoAnswers` | | what a client knows of its requests |
| `OrderedIo` | `IoAnswers` | abstract: a target that serves requests in order |
| `VolumeIo` | `OrderedIo` | both ends of the stream and the wire; implements `OrderedIo` |
| `VolumeIoRW` | `IoAnswers` | the poll functions |
| `RemoteProvider` | `Registry` | a provider over the registries of a remote server |
| `RemoteDevice` | | a re-exported device and the provider's map |
| `ConsoleProxy` | | a console of another server |
| `FastbootData`, `Fastboot` | | the buffer as pure operators; the target and `process` |
| `FastbootVolume` | | all callers of a fastboot device |
| `ExclusiveUse` | | abstract: users take turns with a device |
| `Dfu` | | targets, commits and `dfu_task`; implements `ExclusiveUse` |
| `RockusbLoader` | | calls of open, targets and the task of a loader's storage; implements `ExclusiveUse` |
| `UploadTargets` | | targets that upload at shutdown: maskrom and boot ROM |
| `Gpio` | `UdevEvents` | the provider of GPIO lines |
| `UdevProviders` | `UdevRegistrations`, `UdevDirect`, `Gpio` | one provider of any of the three kinds; what all of them promise |
| `HifiveMcu` | | the controller of a HiFive P550 board and the task that serves it |
| `BatchWriter` | | the command line client's writer |
| `SparseImage` | | what the client makes of an Android sparse image |
| `TerminalUi` | | the terminal's keys, commands and scrolling |
| `OidcClient` | | the access token of a client |
| `ClientConfig` | | the client's file of servers |
| `RegistryProofs`, `ItemMonitorProofs` | `Registry`, `ItemMonitor` | theorems about registries and Monitor calls |
| `DeviceProofs` | `DeviceInfo`, `DeviceLinks` | theorems about modes, the clients of DeviceInfo and the links of a device |
| `ProviderProofs` | `UdevProviders`, `HifiveMcu`, `SerialPort` | theorems about the providers that follow udev, the refinement; the P550 controller, serial consoles |
| `RemoteProofs` | `RemoteProvider`, `RemoteDevice`, `ConsoleProxy` | theorems about what is re-exported of other servers |
| `VolumeIoProofs` | `VolumeIo`, `VolumeIoRW` | theorems about the stream, the refinement, and a volume as a file |
| `VolumeTaskProofs` | `Dfu`, `RockusbLoader`, `UploadTargets`, `FastbootVolume`, `Fastboot` | theorems about the tasks that own a device, the refinements |
| `ClientProofs` | `OidcClient`, `BatchWriter` | theorems about the token and the writer |
| `MC*` | | instances for TLC, where the constants are functions or sequences, or several modules are checked in one run; the other configurations name their module itself |

Conventions. A definition has the name of the function it models where it has
one. One action is what happens between two points at which others may run: an
`.await`, a release of a lock, or a spawn; what the code does under one lock is
one action. Ids, items and messages are numbers or model values. A variable that
only records history for a property (what was given out, what an exception
excuses) is named as such where it is declared. "A wrong X" before a
definition X is a plausible faulty version of it; the properties are known to
tell the two apart, and `PROJECT.json`, "mutants", says which property does.

How the state corresponds to the code, module by module:

- `Registry`: `next`, `contents` are `RegistryInner`; `log` is every change ever
  sent. A receiver is a position in `log`; it has lagged when more than
  `ChannelCap` changes lie before it, as in tokio's broadcast channel. `Add` and
  `Remove` change the map and send under the write lock, so each is one action.
- `ItemMonitor`: `stage`, `kind`, `pos`, `view` per call. `Subscribe` and
  `Snapshot` are two actions, as the code subscribes first and lists then;
  `Apply` is the client's idempotent handling of a change.
- `DeviceLinks`: `pc`/`step` are where `monitor_items` is among its three
  subscriptions and three scans; `Receive` is one turn of its `select!`;
  `Restart` is the end of the function on a lag and the loop around it.
- `DeviceMode`: `call[c]` is the step a call has reached. `Finish` and `Notify`
  are separate since the lock is released between them. `stray` holds what was asked of
  actuators by `ActuatorChangeMode` or by a call that was dropped, until it acts: the
  controller of a P550 board carries out what is in its channel whoever waits for it.
  `touched` are the actuators that were last set that way. `DeviceInfo` reads a
  device in two actions, the links and then the mode, each under its own lock.
- `UdevEvents`: `phase` orders listening, scan and delivery; scanned devices are
  given before queued events. `UdevRegistrations`: `registrations` is the map,
  `tasks` the running preparations with their `PreRegistration`. A batch is
  registered in one step: the code holds the lock on the map over it, so only
  the order in which items of one batch become visible is abstracted away.
- `SerialPort`: `opened` is every opening of the port, since a server that runs as
  root may open it twice. `get_writer`/`get_reader` are the actions `Check`,
  `ReadRate`, `Open`, `Fetch` with the lock released in between. A message is
  written in two halves so that writers can get between them.
- `VolumeIo`: client queue, held request, outstanding queue, request wire; on the
  server the request loop, completions, the reply task and the reply channel;
  `Break` ends the connection at any point.
- `VolumeIoRW`: `state` is `IoWrapperState`, `pending` the queue of unanswered
  writes, flushes and shutdowns. Any poll may follow any other, which is what
  giving up a poll amounts to. How requests are answered is `IoAnswers`, the
  same actions that `VolumeIo` refines.
- `RemoteProvider`: one `phase`, receiver and map per kind. The future that asks
  for details is `asked`, so that others go on meanwhile. `link` is tonic's channel: a
  break cuts all streams (`cut`, with what had `arrived` on them), and `Rejoin` connects
  it again for later calls, which a restarted remote may answer; `conn` counts the rounds
  of `start_provider`'s loop. `RemoteDevice` has the
  same map from the point of view of a device.
- `Fastboot`: `buffered` is `FastbootData`, `channel` and `results` are the command
  channel and the answers, `volume` is what each observed byte of the storage
  was last written by. Numbers are byte offsets, with blocks of four bytes.
- `FastbootVolume`: `asked` are the commands sent to the board with their state,
  `busy` the one a handle waits for, `pending` what it buffers, here a sequence of
  writes. A flush is a command behind the flashes of the handle before it, also
  those that writes sent and whose answers are not taken yet.
- `Dfu`: `data`, `control` are the channels, `current` what `dfu_task` serves.
- `RockusbLoader`: `opened[s]` is where the command of call `s` is: with the sender,
  in the channel `commands`, served, or ended. `made[s]` are the operations of the
  target with their answers, `dirty` what the io has and the storage has not.
- `UploadTargets`: `buffer` is the data and capacity of a target
  (`RockUsbMaskromTarget`, `BromVolumeTarget`), `uploads` and `executes` the commands with their answers,
  `received` the images the device has got. `kind` is which of the two files it is.
- `Gpio`: `setup` and `left` are the chip that is set up and the lines still to
  come, so that the kernel's events fall between two lines; the loop itself takes
  an event only when it is done.
- `ConsoleProxy`: `carried[c]` are the parameters that call `c` has read; between
  that and the arrival at the remote, others may pass. A dropped call may still
  arrive, which is why `requests` is a set apart from the calls.
- `SparseImage`: bytes are numbered; `contents[p]` is where in the image the byte at
  place `p` of the volume comes from. `cut` is the length of the file, chosen first.
- `TerminalUi`: `chunks` is what was read, `doing` which step of a command is on,
  `sawEscape` the flag kept between chunks; `acted` is what each chunk did.
- `ClientConfig`: `own[r]` is the copy of command `r`. `file` is what the file holds,
  every server as a number of parts (`Size`, by the command that wrote it, so that lists
  differ in length). Writing is two actions, the truncation and the contents, since
  another command can read in between, or write: of a longer list the parts beyond the
  new end stay. `Readings` is what such a file is read as.
- `HifiveMcu`: `work` is what the controller has been told and `line` what it has
  answered; lines that the expressions of the code tell apart are `Status`, `Told`
  and the prompt. A reply lost because it was read in part is one that `cut` drops.
- `OidcClient`: `token` (memory), `cache` (file), `holder` (mutex), `saving` (the
  token taken out while the file is written).

## Runs

Each run finishes within about two and a half minutes on two workers. Invariants and action
properties are explained at their definitions; here is what each run asks. An
invariant named `...Inv` is the conjunction of a module's type invariant with
the safety invariants in parentheses.

| Run | Instance | Shows |
|---|---|---|
| `ItemMonitor` | 1 registry, channel of 2, 3 ids, 2 calls | `MonitorInv` (`RegistryInv`: `IdsNeverReused`, `ContentsMatchLog`), `MirrorExact`, `ForgetsOnlyRemoved`: a client's copy is exact once it has received everything, whatever falls between subscription and snapshot; `Settles` |
| `DeviceLinks` | 2 registries, channels of 1, 2 ids each, 2 slots | `LinksInv` (`DanglingOnlyIfMissed`, `PresentIsLinked`), `LinksAreAnnounced`, `CatchesUp` |
| `DeviceInfo` | 2 callers, 3 calls or requests by hand, 2 modes, 1 follower, 2 link changes | `ModeInv` (`ModeIsReal`, `OneClaimPerArrival`), `InfoInv` (`InfoCurrentAfterNotice`, `NoLostWakeup`), `WaitEnds` |
| `UdevRegistrations` | 2 paths, 4 kernel events, 2 parts; three kinds of provider; GPIO: a line by number, two by name | `ImplementsInventory`, `LatestInv` (`RegistrationsInv`), `GoneInTheEnd`; `OfferedInv` (`QuietIsTrue`; for loop providers `DirectInv`: `LeftoversWereDisplaced`; for GPIO `GpioInv`: `OneChip`, `WholeChipOrNone`) |
| `SerialPort` | 1 reader, 2 writers, 2 openings, 3 chunks, channel of 1; P550: 4 calls, 2 actuators | `PortInv` (`NeverUnreachable`, `NoSilentGap`, `MessagesStayWhole`), `OutputsEnd`; `McuInv` (`DoneIsSet`) |
| `VolumeIo` | 3 requests of 2 kinds, queue of 1, reply channel of 2 | `ImplementsOrderedIo`, `WireInv` (`RepliesFollowRequests`), `EveryRequestAnswered`, `ServerLetsGo` |
| `VolumeIoRW` | 3 requests, positions to 2, buffers of 1 and 2 | `RWInv` (`FlushedMeansWritten`, `ReadsSeeWrites`), `ReadsFromPosition` |
| `RemoteProvider` | 1 kind, 2 ids, 2 rounds of the loop, 2 restarts, any number of breaks, channel of 2 | `ProviderInv` (`MappedAreRegistered`, `OrphansWereDisplaced`, `MirrorsRemote`), `ReexportsWhileStreaming` |
| `RemoteDevice` | device: 2 items, 3 proxies, 3 infos, 1 drain; console: 2 callers, channel of 1, 2 configurations, 3 typed | `DeviceInv` (`CurrentUnlessMissed`, `WatchersAreTold`); `ProxyInv` (`HeardInOrder`, `InForceUnlessOverlapped`) |
| `VolumeTargets` | see below | Fastboot: `BufferInv` (`AnswersTellResults`, `ImagesAreWellFormed`, `FitsDownload`, `RoomIsPositive`, `FlushedIsWritten`), `VolumeInv` (`FlushSettles`, `InOrder`); `DfuInv` (`DeliveredAreAcked`, `CommitWaitsForDownloads`); `UploadInv` (`ImagesAreWhole`, `OkIsReceived`, `ExecutesNoOlder`); `LoaderInv` (`ReadsOwnWrites`, `FlushedIsStored`); `UsersTakeTurns` (`ImplementsExclusiveUse`: `OneDownloadAtATime`, `OneTargetAtATime`; `EveryoneGetsOn`: `EveryRequestAnswered`, `CommandsReturn`, `EveryoneReturns`, `UploadsReturn`, `OpensReturn`) |
| `Client` | see below | `TokenInv` (`NewestIsUsed`), `LoginIsKept`; `WriterInv` (`NothingLostOrMoved`, `SyncedIsSent`); `TerminalInv` (`CommandsAreHeard`, `PowerAsTyped`); `SparseInv` (`OnlyWhatIsSaid`, `WrittenIsWhole`); `ConfigInv` (`NamesAreUnique`, `LastIsFirst`, `AsCommanded`); `NobodyIsStuck` (`EveryoneGoesOn`, `TerminalGoesOn`) |
| `RemoteProviderPanic` | 1 kind, 2 ids | expected to fail: see [Divergences](#divergences) |

`UdevRegistrations`, `SerialPort`, `RemoteDevice`, `VolumeTargets` and `Client` check
several modules in one run. These share nothing (in `UdevRegistrations` only the
events of the kernel), so every behaviour is one of one of them: the composition
in the `MC` module lets only one leave its initial state, or picks one at the
start. Properties of the parts that answer the same question, such as whether
everyone who waits gets on, are joined in one property of the run.

The instances of the two largest:

- `VolumeTargets`. Fastboot: 4 requests, blocks of 4, downloads of 18, 1 failure;
  all callers: 2 handles, 2 writes, 3 commands, 1 refusal, a known target and the
  stage. DFU: 2 targets, 2 writes, 2 commits, 1 failure. Uploads: 2 targets,
  2 uploads, 1 commit, 1 fault. Loader: 2 sectors, 2 calls of open, 3 operations,
  1 error.
- `Client`. Token: 2 requests, 4 tokens. Writer: 6 bytes, limit of 4, blocks of 3.
  Terminal: 3 chunks of every key and of the pairs that matter. Images: 4, with
  every type of chunk in every position that matters, each cut anywhere.
  Configuration: 4 commands, 2 servers, of two parts each but for one of three.

Why the bounds are enough for the cases that matter:

- channels of one or two changes with three changes or more: a receiver that is
  current, one that is behind, one that has lagged, and one that lags again;
- three ids per registry: an item, another one while it is being handled, and a
  registration after a removal. `RemoteProvider` has two, an item and another one,
  which each of the remote's two restarts gives out again. Two calls, connections or appearances: one
  before and one after a break. A third repeats the second;
- two callers: every property of concurrent callers here is about pairs. The
  modes of `DeviceInfo` are those of the example in `boardswarm/README.md`: one
  that depends on the other, which can be entered at any time. `DeviceInfo` does not read
  actuators, so its instance has stray requests (`StraysApart`) or a follower;
- three pipelined requests: one answered, one failing or late, and one behind;
- Fastboot's block of four bytes and download of 18 make each of these happen: raw
  and sparse images, gaps, a second chunk, a write split at the limit, a write
  that begins within a block, one over another. Four requests let a flush
  follow three writes;
- the batch writer's limit (4) is not of whole blocks (3), with writes smaller than
  both, and of the limit; one absolute seek and one from where the user is, up to
  position 3, before, among and behind five bytes;
- two handles, targets or calls of open: one that has the device or the data, and
  one that waits for it or replaces it. One refusal or fault can fall on either;
- two configurations and two callers of a console: an older request that arrives
  after a newer one. Four commands on the client's file: two that make a list,
  and two that overlap, or one that overlaps and one that reads what is left.

No configuration replaces a definition of a module. `CHECK_DEADLOCK FALSE` is set
everywhere, because every bounded model stops at its bounds and most programs
stop legitimately (a stream that ended, a request answered); that nobody waits
for ever is a liveness property in the runs above.

## Fairness

Weak fairness is assumed of what a runtime or a loop must take: tokio polls the
tasks and streams that can go on (`ItemMonitor`, `DeviceLinks`, `DeviceInfo`,
`VolumeIo`, `RemoteProvider`, `SerialPort`, `Fastboot`, `FastbootVolume`, `Dfu`,
`UploadTargets`, `RockusbLoader`, `OidcClient`, `TerminalUi`), and a provider's event
loop runs (`UdevRegistrations`). Nothing is assumed of clients, of
registrations and removals, of the kernel's events or of connections breaking,
with these exceptions:

- `VolumeIo`: a volume completes, fails or drops what it has begun. Completions
  resolve when dropped, so this asks only that a volume does not keep one;
- `UdevRegistrations`: preparations may hang for ever; `GoneInTheEnd` holds anyway;
- `SerialPort`: a read of a port that is gone returns, as the kernel promises;
- `RemoteProvider`: the remote answers while the connection lasts;
- `Dfu` and `RockusbLoader`: users close their targets, since the task serves one at
  a time. In `RockusbLoader` sending a command is strongly fair for each call: the
  channel is full whenever another call has been faster, and tokio's semaphore
  serves those who wait in order. In `Dfu`, `UploadTargets` and `FastbootVolume` it is
  enough that somebody sends when there is room, since calls are bounded;
- `OidcClient` has strong fairness of its mutex for the same reason, and a login
  dialogue ends (it has a time limit);
- `Fastboot`, `FastbootVolume`, `UploadTargets`: a device answers or fails. The
  task has no time limit of its own, so a board that hangs would hold up everyone;
- `TerminalUi`: the server answers a change of mode, or fails it.

Liveness is stated as `[]<>` where the number of events is bounded, which there is
the same as "whenever ... eventually" and cheaper to check.

## Divergences

The run `RemoteProviderPanic` shows a finding: `remote.properties().await.unwrap()`
(`boardswarm_provider/mod.rs:92`) panics when an item goes, or the connection
breaks, between its announcement and the answer. The provider's task then ends;
what it registered stays and it never reconnects, whereas mod.rs:183 says "If the
connection breaks; drop all registrations".

The modules also state properties that the code does not have. They are marked
"Does not hold" and are in no configuration; add one to the configuration named
here to get its counterexample. The checked property next to it says what does
hold.

| Property (module, configuration) | What happens |
|---|---|
| `GoneIsUnlinked` (`DeviceLinks`) | `config_device.rs:262`: after a lag the task scans again without clearing links, so an item whose removal was among the skipped changes stays linked, and `wait_unavailable` does not end. Holds: `DanglingOnlyIfMissed` |
| `ModeIsAlwaysReal` (`DeviceMode`, `DeviceInfo`) | `main.rs:894`: `ActuatorChangeMode` sets an actuator and leaves `current_mode` as it is, and so does what a dropped call had asked for and is carried out after another has reached its mode. Holds: `ModeIsReal` |
| `ModeIsReal` without `~ overlapped` (`DeviceMode`, `DeviceInfo`) | `config_device.rs:290`: two `set_mode` calls interleave their steps, and the mode reported last is not the state of the actuators, which `boardswarm/README.md:395` takes to be known |
| `FirstInfoIsCurrent` (`DeviceInfo`) | `main.rs:856`: the device is read before its notifier is subscribed to; a change in between is not sent until the next one. Holds: `InfoCurrentAfterNotice` |
| `ToldModeIsCurrent` (`DeviceInfo`) | `config_device.rs:289`: clearing `current_mode`, and a call that fails or is dropped, notify nobody |
| `OffersWhatIsThere` (`UdevDirect`, `UdevRegistrations`) | `serial/mod.rs:78`, and the same in dfu and rockusb: a second Add of a path displaces the id of the first registration, which then stays for good. Holds: `LeftoversWereDisplaced` |
| `UnavailableIfClosed` (`SerialPort`) | `serial/mod.rs:146`: of two first callers the second opens the port again, and fails though the console works; as root both succeed, and two tasks share what the port says |
| `RateIsConfigured` (`SerialPort`, with two rates) | `serial/mod.rs:115`: the rate is read when the port is first opened; a later configuration has no effect |
| `DoneIsAlwaysSet` (`HifiveMcu`, `SerialPort`) | `hifive_p550_mcu.rs:305`: nothing drains the line after a timeout. If a request to set was not answered in time, the next call may take the answer to an earlier question for the present mode and answer Ok, before the controller carries out what was set. Holds: `DoneIsSet` |
| `ReadsFollowSeeks` (`VolumeIoRW`) | `client.rs:1004`: a seek keeps a read that is pending or buffered, whose data is then returned at the new position. Holds: `ReadsFromPosition` |
| `PollsReturnErrors` (`VolumeIoRW`) | `client.rs:781`: after a failed reservation the finished future stays in `state`, and the next poll panics |
| `LastSeekCounts` (`BatchWriter`) | `utils.rs:181`: a seek that waits for a batch and is given up stays in `pending_seek` when a write or a flush sends the batch; a seek started then without polling the first to its end is accepted, and the old one is carried out. tokio's `seek()` polls it to its end. Holds: `SeekIsDue` |
| `ExposesRemoteItems` (`RemoteProvider`) | `boardswarm_provider/mod.rs:99`: an item in both snapshot and changes is registered twice, and the first proxy stays. Holds: `OrphansWereDisplaced` |
| `MappedAreRegistered`, as far as it goes (`RemoteProvider`) | `mod.rs:92`, `client.rs:66`: the channel connects again by itself, so until the end of a broken stream is taken an item announced on it may be asked for from a restarted remote, where its id is another's, and a proxy with that one's properties be registered; `mod.rs:186` removes it with the rest of the round |
| `ReexportsAll` (`RemoteProvider`, with two kinds and a channel of 1) | `mod.rs:257`: when one stream ends for a lag, `join!` waits for the others, and that kind is not followed any more. Holds: `ReexportsWhileStreaming` |
| `CurrentFromStart`, `CurrentAfterDrain` (`RemoteDevice`) | `device.rs:127`: the device's task subscribes to the provider's notices after the ids were mapped; `mod.rs:186`: proxies dropped at the end of a stream are not announced. Holds: `CurrentUnlessMissed` |
| `FlushedIsWritten` without `~ split` (with `W(0, 16)` among the writes), or without `WholeBlocks` (with `W(3, 4)`) (`Fastboot`, `VolumeTargets`) | `fastboot.rs:674`: the rest of a split write is appended at the offset of the write again; `fastboot.rs:322`: a write within a block pads its start with zeros over what is there |
| `ImagesAreWellFormed` without `WholeBlocks` (`Fastboot`, `VolumeTargets`) | `fastboot.rs:281`: every piece counts as rounded up to a block, but only the end of a chunk is padded |
| `WrittenIsDelivered` (`Dfu`, `VolumeTargets`) | `dfu.rs:138`: writes are answered with their length after the download has failed. Holds: `DeliveredAreAcked` |
| `BootsWithEverything`, `StagedIsKept` (`FastbootVolume`, `VolumeTargets`) | `fastboot.rs:635`: `commit` boots the board whatever open targets still buffer, and nobody is told; what was staged is replaced by the next download of anyone. Holds: `FlushSettles` |
| `EmptyTakesAnImage` (`UploadTargets`, `VolumeTargets`) | `rockusb.rs:248`: a shutdown leaves a maskrom target with a buffer of no capacity, and a boot ROM's with what the image before did not need, so a second image is refused or cut. Holds: `ImagesAreWhole` |
| `ExecutesOwn` (`UploadTargets`, `VolumeTargets`) | `mediatek_brom.rs:208`: a commit executes what anybody has uploaded last. Holds: `ExecutesNoOlder` |
| `ClosedIsStored` (`RockusbLoader`, `VolumeTargets`) | `rockusb.rs:403`: only a flush stores what the io holds; closing a target without one drops data whose writes were answered. Holds: `FlushedIsStored` |
| `GoneTakesLines`, `NamesAreFound` (`Gpio`, `UdevRegistrations`) | `gpio.rs:144`: a line that cannot be had is unwrapped; the task is gone and the lines before it stay registered for good. `gpio.rs:123`: the search for a name leaves line 0 out. Holds: `WholeChipOrNone` |
| `NewestInForce`, `TypedIsHeard` (`ConsoleProxy`, `RemoteDevice`) | `boardswarm_provider/console.rs:46`: two calls send their parameters in either order, and the older may arrive last; `console.rs:69`: when the remote has ended the stream, what is typed is still taken and dropped. Holds: `InForceUnlessOverlapped`, `HeardInOrder` |
| `OnlyAfterEscape`, `CanBeLeft` (`TerminalUi`, `Client`) | `ui.rs:205`: after a command the next keys are commands without ^a, which `boardswarm-cli/README.md:30` does not say; `ui.rs:307`: an error of the server is a panic in the reading task, after which not even ^a q is heard. Holds: `CommandsAreHeard`, `PowerAsTyped` |
| `CutIsNoticed`, `WholeIsRead` (`SparseImage`, `Client`) | `boardswarm-cli/src/main.rs:135`: a file that ends within its last chunk is written with success; `main.rs:148`: a checksum chunk is not read over, so that its four bytes are taken for the next header. Holds: `WrittenIsWhole`, `OnlyWhatIsSaid` |
| `AddedIsKept`, `FileIsReadable`, `NamesStayUnique` (`ClientConfig`, `Client`) | `boardswarm-client/src/config.rs:48`: of two commands at a time the one that writes last undoes the other; one that is killed while it writes leaves part of a file; and when both have truncated the file, the shorter list is written over the longer one, of which the end stays: the file cannot be read, or has a server twice (`[a]` over `[b, a]` gives `[a, a]`). Holds: `NamesAreUnique`, `LastIsFirst`, `AsCommanded` |
| `LoginIsAlwaysKept` (`OidcClient`, `Client`) | `oidc.rs:284`: a request dropped while the cache is written loses the token; `oidc.rs:73`: a token without a time of expiry is saved in a form that cannot be read. Holds: `LoginIsKept` |

## Proofs

What TLC checks on the instances above, TLAPS proves for every value of the
constants, from the named assumptions of the modules only: capacities and bounds
are natural numbers, capacities are positive, a new buffer has at most the largest
capacity, values that stand for "none" (no id, chip, mode, caller, writer or number)
are not among the others, there is at least one kind of registry, blocks are not
empty and a download has room for two of them and a header, a configuration's sequences
of steps are sequences of steps.

In the order of the modules. Each paragraph says what keeps the property from being
inductive, and what the invariant adds.

**`RegistrySafe`** (`RegistryProofs`): ids are never given out again, and the map
is what the changes sent amount to. Neither part is inductive alone: a new id is
unused only because every id that was ever announced is below `next`. The
inductive invariant `RegistryInv` is the conjunction of `RegistryTypeOK`,
`NextIsFresh` (present and announced ids are below `next`), `IdsNeverReused` and
`ContentsMatchLog`. `AddKeepsInv` and `RemoveKeepsInv` are one lemma per action,
over `AddEffect` and `RemoveEffect`, which say once what the actions do to the
sequences and maps.

**`MonitorMirrors`** (`ItemMonitorProofs`): a client that has received everything
holds exactly the registry's contents, `Spec => []MirrorExact`, for any number of
clients and any channel capacity. `MirrorExact` says nothing of a client that is
behind, so it is not inductive. `FeedInv` is: for each id, what the client holds
was added in the changes before its position or is in its snapshot
(`HeldWasAdded`), what it holds and is gone will be removed by a change it has
not received (`GoneWillBeRemoved`), and what it lacks will be added by one
(`MissingWillBeAdded`). There is a lemma for each kind of step: a change sent by
the registry, the snapshot, the delivery of a change, and steps of other
clients. Together with the types and `RegistryInv` it makes up `MonitorInv`, which
**`MonitorSafe`** proves; `FeedInvGivesMirror` draws the conclusion when no
change is left.

**`ForgetsAreJustified`** (same module): an action property. A step that takes an id
from a client's copy either ends its call or delivers a removal, and a removal in
`log` is of an id that is not in the map, since ids are never reused: that part is
`RegistryInv` again, so the theorem rests on `MonitorSafe`.

**`RegistrationsImplementInventory`** (`ProviderProofs`): every step of
`DeviceRegistrations` is a step of `DeviceInventory` or changes nothing of it, so a
preparation that outlives the appearance it was started for never registers
anything, and a path offers the whole batch of its latest appearance or nothing.
The step simulation needs `RegistrationsInv`: the map's entry for a path is
absent, pending with the number of the latest appearance, or registered with
exactly the items the registries hold. Each action has one lemma for the
invariant, and `StepImplements` does the refinement. **`RegistrationsAreLatest`**
proves the invariant itself, with the types of udev's stream (`LatestInv`).

**`OffersSafe`** (same module), with **`GpioSafe`** and `DirectSafe` for two of its three
kinds of provider: once it has been given everything, a provider offers items of
devices that are there, but for what it displaced itself or left when it panicked.
All three need to know what the stream of events still owes. `Backlog` says that the
last queued event for a path, or else what the scan has found, is true of the path,
and `Gone` names a path that has neither a device nor an event to come; each kind of
provider has then let go of what is gone (`IdsInv`, `ToldInv`, the end of
`ChipInv`). For GPIO, `ChipInv` counts besides: the lines set up and those left are
as many as the configuration has, so a chip whose set-up is over has all of them
(`WholeChipOrNone`).

**`McuSafe`** (same module): an actuator whose call was answered with Ok is in the mode
that was asked for, unless a request to set it was given up. Replies have no number,
so what the next call takes for its own may be an old one. `McuSettled` says of an
actuator that no request in doubt was made for: while it is not being set, nothing
that would change its mode is on the line and what the line says of it is so
(`Answered`); while it is, its one request is still to be carried out (`SetSent`), or
is carried out and its confirmation is on the line, with nothing old behind it
(`SetTold`).

**`PortSafe`** (same module): whoever comes out of `open` finds the port open, and on a
port that was opened once no reader misses a chunk without being told and no two
messages mix. `PortIInv` relates a reader to its opening: it is behind what that has
logged (`ReaderFollows`), the log of the only opening is all that the port has said
(`LogIsAll`), and a reader that has got anything ends where it is (`GotUpToSeen`). For
writers, `LastMessage` says that the lock is held by the one whose message is half
written (`LockIsHeld`), and that a message is only ever cut short by the end of its
writer.

**`ModeSafe`** (`DeviceProofs`): a mode that is reported is the one the board is
in, unless calls overlapped, but for actuators that a stray request has set since,
and two calls are never let through by the same arrival in a mode. Neither says anything of a sequence that is half done.
`ModeIInv` adds where each call is (`CallsInv`: while a mode is reported, the calls
that run had begun before it was reached), and that a call that has not overlapped
has left each actuator as its steps so far have set it, on top of the mode it came
from, unless it is `touched` (`HalfWay` in `SequenceInv`). `Leaves` is a recursive function along `depends`,
which the code does not check for cycles; it is well defined all the same, and
`LeavesDef` says so: for each actuator the least relation closed under the two rules
gives a mode one setting at most, and `Leaves` may give any setting to a mode to
which it gives none.

**`InfoSafe`** (same module): a client of DeviceInfo that has received an update is
right about the device when nothing is pending, and no task sleeps through the
update it waits for. What a stream has read counts only from the last notice it has
consumed, so `CopyFollows` follows the links through the two halves of a reading.
`WaiterFollows` says that no task has seen an update that was not sent. The steps of
`DeviceMode` keep `ModeIInv`; of those of `DeviceInfo`, `ModeStepPending` says that
one that changes the mode leaves a notice pending or no mode.

**`LinksSafe`** and **`LinksAnnounced`** (same module): a device that has received
everything links to what is there and matches, or to something whose removal a lagging
channel has dropped, and what its watchers were told is what the links are. `LinksIInv`
extends `RegistryInv`. `LinkIsJustified` says of each link that its item is present, that its
removal is yet to be received, or that it is among those missed; `MatchIsFound` says
of each present match, as long as there is one at a time, that it is linked, that its
announcement is ahead of the receiver, or that the scan of its registry is still to
come (`ToScan`), also when the scan starts over.

**`ProxySafe`** (`RemoteProofs`): a remote console hears what is typed, in order and
without gaps, with the parameters configured unless calls overlapped. `InputInv` says
that what is in the channel of an input continues what was heard, `ConfigureInv`
that as long as calls have not overlapped one request at most is on its way, and that
it carries what is as new as all that the calls before it have read.

**`DeviceSafe`** (same module): a re-exported device that has taken all notices shows
the ids the provider has, unless a change was announced to nobody, and its watchers
have seen that. `MappingFollows` has the same for a device that has not started and for
one that is about to receive a notice.

**`ProviderSafe`** (same module): the ids in the maps are those of proxies that were
registered for that very item in this round of the loop, a proxy in no map is one that was
displaced, and a provider that has followed everything on a live stream has exactly the
remote's items.
`ProviderIInv` extends `RegistryInv` of the remote, whose ids begin anew when it restarts.
`PhaseOK` says that what a stream holds is gone with it, so that no id of one
round is taken for one of the next, and that every stream is cut once its connection
has broken, so that what a restarted remote announces is never read at the position of
the old one; `ProxiesApart` that local ids are given out
once; and `StreamFollows` that what a live stream has not taken will be announced to it and
what it has taken and is gone will be announced as removed.

**`WireSafe`** and **`WireImplementsOrderedIo`** (`VolumeIoProofs`): the replies on
their way are those of the requests that wait for one, in the same order, and the two
ends of a stream and its wire implement `OrderedIo`. A reply has no number, so what
pairs it with its request is only that each of the queues between them holds
consecutive requests. `WireIInv` says so with three counts: requests that have left the
client's channel (`Feeds`), those answered (`Awaits`), and those the volume was given
(`Serves`), with the replies between the last two (`Replies`); and it says what
remains of that when one side has ended or the connection is broken. There is a lemma
for each action, and `ReplyIsNext` is what the refinement needs: the reply that
arrives is that of the oldest request without one.

**`RWSafe`** and **`ReadsAreInPlace`** (same module): a flush that has returned Ok stands for
every write before it or their errors were told, a read sees the writes before it, and
one that no seek has overtaken comes from the position of the user, whatever polls are
given up. `FileIInv` says that each write is waited for, was carried out, or was told to
have failed (`WritesTracked`), that a read under way or buffered was asked for after all
writes (`ReadsAreLatest`), and for which position (`ReadsInPlace`). The scan over
the pending requests stops at the first without an answer; that there is one is
`LeastNumber`, from the well-foundedness of the numbers.

**`DfuSafe`** (`VolumeTaskProofs`): the device gets the writes of a target in order,
all those answered if the download has ended properly, and a commit resets it only
after the downloads of the targets that were open. `DfuIInv` says of each download what
its channel holds (`DownloadOK`), that its command is where its state says (`TurnOK`),
and that a reset in the channel has no download before it there (`CommitOK`).
**`DfuImplementsExclusiveUse`**: `TurnOK` gives that one download at most runs, and
`DfuStepTurns` that each step changes the turn of one target as `ExclusiveUse` lets
it, or no turn.

**`LoaderSafe`** (same module): a target of a loader reads what it wrote last, and what
it wrote before a flush is on the storage. Neither speaks of what the io holds, and
that is the io of one target only as long as one is served, so `LoaderIInv` adds: one
command in the channel at most and one target served, where each call and its command
are (`CallOK`), an operation without an answer is the last one (`PendingOK`), and what
the io or the storage holds at a sector is what the target served has written there
last (`LastIsKept`). "The last" is a CHOOSE over a set of numbers; `Largest` and
`LastWriteIsLast` say once that there is one. **`LoaderImplementsExclusiveUse`**: calls
of open take turns with the storage, also those that are given up while they wait.

**`UploadSafe`** (same module): a shutdown sends one whole image, the device has each
upload that was answered with Ok once and no other, and a commit executes nothing older
than what was answered before it was called. `UploadIInv` adds what a target has of the
next image (`BufferOK`), that a command is in the channel or carried out once, while its
caller waits (`LinedUp`), and that what a commit was called after stays answered
(`AfterOK`). With `ReceivedOK`, which says the same as `OkIsReceived` without a
cardinality, the image a commit counts on is among those received when the last one of
them is executed.

**`VolumeSafe`** (same module): what a successful flush of a fastboot handle stands for is on
the board unless it was erased, and on each partition the writes of a handle are in
their order. `VolumeIInv` adds that commands are sent in their order and end in it
(`InTurn`), that the writes of a handle rise from one of its commands to the next and to
what it still buffers (`OwnData`), that what is on the board is older than all that
(`Older`), and that each flash that has succeeded is there (`IsStored`): several handles
share one channel, and none of their data changes hands.

**`FlashAnswersTell`** (same module): each command that a fastboot target sends is part of the
answer to one request, a success means that all of the request's commands have
succeeded, and a failure that one has failed (`AnswersTellResults`, of `BufferInv`). The answer
to a write comes when the target has gone on to others, so `FlashIInv` adds that data
is in hand or being sent only for the current request, which has no answer
(`TargetAtWork`), and that the commands in the channel have no result and are each
there once (`ChannelWaits`).

**`TokenSafe`** and **`LoginKept`** (`ClientProofs`): the token that callers share is the
newest, and nobody is asked to log in needlessly, with the named exceptions. Between
the answer of the server and the end of saving it, the token is in neither the memory
nor the file. `TokenIInv` says that only the holder of the mutex is past it, that what
is being saved is the newest (`CallerOK`), and that the client has what it was given
last in memory, in what is being saved or in a file it can read (`HasIt`).
`LoginKept` is an action property that follows from `HasIt` for the one step that
begins a login.

**`WriterSafe`** (same module): each byte goes where the user meant it to, in order.
`WriterIInv` adds that the user's position is behind what is batched, from which a
relative seek counts. The lemmas on
`At` and `Bytes`, which give each byte its position, do the rest: `AtConcat` says that
positions go on where a sequence is put together, `AllArrives` that sending the batch
and what is taken with it is the same as sending it at the places meant.

TLC has checked each of these invariants on the instance of its run before it was
proved; `MonitorInv`, `LatestInv` and the `...Inv` of the table of runs stay in the
configurations, so that a proof and a run speak of the same definitions. The actions
that are proved about are those that are checked; the assumptions are evaluated in
the runs.

Only model-checked:

- all liveness, which with fairness and ENABLED is out of the prover's reach;
- the rest of `BufferInv` of `Fastboot` (what is buffered, sent and on the volume), and
  `SparseInv` of `SparseImage`: these compute over sequences by folds, and what a
  fold computes for every input needs induction over data;
- `TerminalInv` of `TerminalUi` and `ConfigInv` of `ClientConfig`, for the same reason:
  the flag of the escape key is a recursive function over what was typed, and both select from
  sequences with `SelectSeq`, whose argument is an operator;
- `ImplementsExclusiveUse` as one property: it is the conjunction of the two refinements
  proved as `DfuImplementsExclusiveUse` and `LoaderImplementsExclusiveUse`, for the
  instance of the run.

## Not modelled

- ESWIN EIC7700 storage: registration is that of `UdevRegistrations`. A target is one
  file of the mounted storage; every call seeks, writes or flushes it, and nothing is
  kept between calls.
- pdudaemon: registered once at start; setting a mode is one request to an external
  service. `DeviceMode` has actuators that take time and fail, which covers this and
  the lines of GPIO and the actuators of other servers.
- Server configuration, start and authentication: a file is read, and tokens are
  validated by a library, before any of the state modelled here exists.
- The command line client's drawing, and its commands other than those of
  `TerminalUi`, `SparseImage` and `ClientConfig`: each is one call, or a wait and a
  call, over the client library. Block maps are written by the bmap-parser library.
- The protocol crate, properties, USB descriptors: conversions without behaviour over
  time. So are the questions to a device before its volume exists (for the mode of a
  rockusb device, the handshake of a boot ROM).
- The static token and the login dialogue of client authentication.
- Configuration of a console when a device links to it: it changes no state of
  the device. Its effect on the port is `Configure` in `SerialPort`.
- Opening a VolumeIo stream and a second Target request in it, which this client
  never sends.
- In `VolumeIoRW`, the limit `MAX_WRITE_SIZE` of one write: a longer one is accepted in
  part, as a shorter one would be in full; `BatchWriter` has it. In `BatchWriter`,
  `SeekFrom::End`, which its users never pass, and volumes that cannot seek, where a
  seek fails and moves nothing.
- In `HifiveMcu`, a first byte of the prompt that is not followed by the rest
  (`hifive_p550_mcu.rs:342`): the command fails before it has asked for anything, as it
  does when no prompt comes in time.

## Plan

The modules were written in the order of the table above: registries and those who follow them
first, then what fills them, then the data paths, then the remaining back ends and the client.

Left in modelling: `DeviceLinks` composed with `DeviceMode` (actuator links that change during a
sequence of steps).

Left in proofs: `NamesAreUnique`, `LastIsFirst` and `AsCommanded` of `ClientConfig`, with `retain` stated as
a function whose properties are provable, and for `Fastboot` that the size of an image, a fold,
is the sum of its parts, from which `FitsDownload` and `RoomIsPositive` follow. Both need an
induction over sequences, which would have to be done by hand from `LeastNumber`.
