# Verification of kmonad-device-manager

TLA+ models of the manager's core, model-checked with TLC and, for all modelled
components but the validation preview, proved with TLAPS for every number of files, devices, requests,
connections, restarts and users. Every definition is taken from the source
under `src/`; `PROJECT.json` gives the lines each one stands for.

## 1. The system

`kmonad-device-manager` watches a directory of KMonad configuration files,
decides which file may drive which keyboard, validates it, and keeps one KMonad
child process per accepted file. Clients talk to it over a Unix socket: they
read state, subscribe to events, and create, update, adopt, enable, disable and
delete configurations.

One goroutine, the **owner**, executes everything that changes the manager's
memory: passes over the configuration directory and commands from a bounded
mailbox (`runtime.go`, `commands.go`). Everything slow happens elsewhere and comes
back as another command: the dry run of an apply, reading keys in an
identification session, forwarding events, waiting for a client.

| component | state | operations | what makes it hard | what makes it correct |
|---|---|---|---|---|
| supervisor (`supervisor.go`, `service.go`) | per file: phase, content, device, child, failures, retry time, illness; duplicate marks; claims of the current pass | a pass: list, inspect, claim, snapshot, dry-run, launch, keep, stop, purge; shutdown, restart | files, symlinks, permissions and children change between any two steps of a pass | children run what was validated, on the device it was validated for; claims are exclusive; no snapshot file leaks; stable input converges |
| sessions and devices (`identify.go`, `inputscan.go`, `devices.go`) | at most one session of each of two kinds, the table of operations, role of each device | discover, start (stops children of the device), wait for a key, finish, cancel, prune | keyboards come and go between discovery and open; the finish arrives late, or meets a full mailbox; the table is over its limit | no child drives a device in a session; an outcome belongs to its session and stays to be polled; sessions end |
| children and status file (`process.go`, `state.go`, `service_runtime.go`) | `status.json`; process identifiers, start times | signal, write status, crash, recover, restore backoff | identifiers are reused; the file is older than the processes | only own children are signalled; none that is on record is lost; old failures delay nothing new |
| validation preview (`validation*.go`, `render.go`) | a snapshot file during one request | render, check, snapshot, dry-run, locate a diagnostic | the request ends at any point; positions pass through a rendered prefix | the verdict is KMonad's, of this candidate, on the device the manager chose; a location names the text reported |
| event stream (`events.go`, part of `api_transport.go`) | event counter, circular buffer, subscribers with bounded channels | publish, subscribe with replay, forward, overflow, unsubscribe | replay and live events meet; a subscriber falls behind; the server restarts | a client sees every event in order or is told to resynchronise |
| mailbox and idempotency journal (`commands.go`, `idempotency.go`) | queue, records in memory, journal on disk | admit, execute, complete, evict, load | contexts end while a command is queued; the journal write fails half-way; the process ends between effect and record | a key's mutation runs at most once; an answer survives a restart |
| managed configurations (`apply.go`, `adopt.go`, `lifecycle.go`, `managed_store.go`, `configurations.go`) | metadata and content files, registry of external files, memory copies | prepare, dry-run, finish, rollback, adopt, enable, disable, delete, reopen | three durable writes per apply; other commands run during the dry run; rollback | metadata always points to complete content; adoptions are backed; memory and metadata are the work of requests not turned down; the verdict tells what runs |
| privileged broker (`internal/platform/broker*.go`) | grants, reservations, audit ring, staged copies | stage, register, authorise start and stop, hand over, abort | transports interleave between authorisation and launch | one start per copy; failed starts hold nothing and release nothing of others |
| API connections (`api_transport.go`, `api_client.go`) | listener, table of clients; per connection: negotiation, identifiers in flight, semaphore, request and event goroutines | accept, add, read, refuse, answer, forward, remove, close; the tools' exchange | every connection has several goroutines that share one socket, and any of them can be blocked writing when the client leaves or the server closes | an answer belongs to one request; slots and table entries are neither lost nor given twice; a client that does not read holds up nobody and close ends everything |
| `devices.json`, structured content, systemd, metrics, CLI | | | | see section 7 |

How they meet: API requests become owner commands through the journal; a finished
apply ends in a reconciliation pass; a session stops children and ends in a pass;
every state change publishes events. The broker is the authorisation half of a
macOS backend whose daemon is not in the repository; the Linux manager does not
call it.

## 2. Modules

| module | models | composed with |
|---|---|---|
| `Supervisor` | the owner's passes, the sessions, the children | `SupervisorProofs` extends it; `MCSupervisor` gives it small instances |
| `EventLog` | abstract promise of the event stream: a log a client reads in order or jumps | |
| `EventStream` | buffer, channels, forwarders, reconnecting clients | instantiates `EventLog` and implements it (`LogSpec`); `EventStreamProofs` extends it |
| `Idempotency` | mailbox, journal, request goroutines, crashes | `IdempotencyProofs` extends it |
| `ManagedApply` | store, adoption registry, apply goroutines, crashes, failing writes | `ManagedApplyProofs` extends it; `MCManagedApply` |
| `Connection` | server table, read loops, request and event goroutines, the tools at the other end | `ConnectionProofs` extends it |
| `Broker` | authoriser, snapshot store, hand-off | `BrokerProofs` extends it; `MCBroker` |
| `Operations` | abstract promise of the table of operations: identifiers in order, one final outcome each | |
| `Sessions` | sessions, mailbox, observers, operations, discovery and roles, hotplug | instantiates `Operations` and implements it (`OperationsSpec`); `SessionsProofs` extends it; `MCSessions` |
| `Recovery` | children as processes, `status.json`, the manager's crash and restart | `RecoveryProofs` extends it; `MCRecovery` |
| `ConfigText` | the two scanners of KMonad text, positions | used by `Preview` |
| `Preview` | one preview: owner, request goroutine, KMonad, diagnostic | extends `ConfigText`; `MCPreview` |

Each module's action names follow the code's functions or the branch of the
function they stand for. Mutations used to test the properties stand directly
before the definition they alter, named `<definition>_<what is wrong>`; nothing
else uses them.

### Supervisor

A pass is a sequence of steps: `BeginPass` lists the directory, then each listed
file in name order is inspected (`Usable`, `Claims`, `OverLimit` and the actions of
the branches of `reconcile`), and a file that needs a child goes through `snapshot`,
`dryrun` and `launch`. The environment acts between any two steps: files are
edited, removed or made unsafe, device paths are plugged, unplugged and
retargeted, KMonad becomes unusable, children exit, hang and recover. `kept` is a
history variable: the children that this pass left running although it did not
accept their file. Times are countdowns that run while the owner waits in its
`select`. `copy` is what the snapshot file of a validation holds, and `from`, of a child, the bytes
and the device behind their path at the moment of its launch, where `dev` is what the
inspection found. Process death is immediate; the 100 ms wait after KILL is not modelled.
The result of a dry run already made by an apply (`takePrevalidated`) is left to
`ManagedApply`.

### EventStream

An event is its number. `Publish` numbers it, puts it in the ring and offers it to
every subscriber without blocking; a full channel drops the subscriber and leaves
one resynchronisation event. `Subscribe` decides between replay and
resynchronisation from the client's cursor and server identity. Connections end at
any time and clients come back with their old cursor. The refinement maps the
client's position to the reader's position in `EventLog`.

### Idempotency

A request submits three commands: admit, mutate, complete. The first is bound to the
request's context, the others to the manager's. A journal write fails before or
after its rename; a failure after it leaves the file changed although the caller
is told otherwise. A crash ends all goroutines; `Load` reads the journal and turns
pending records into interrupted ones, or fails and leaves the journal unavailable.

### ManagedApply

`PrepareCreate`, `PrepareUpdate` and adoption run in the owner; the dry run ends outside it;
`StartFinish` begins the owner's sequence of writes (`WriteContent`, `WriteMetadata`,
`MarkAdopted`), each of which can fail on either side of its rename, followed by
`Activate` (one reconciliation, with any outcome for the child) and, when the new
content does not run, `Rollback`, `RemoveNew`, `RestorePrevious`, `RestartPrevious`. `SetEnabled`
and the steps of a deletion run between: `Delete` gives the source back, `DeleteMetadata`,
`SettleDeletion` (a reconciliation), and `DeleteContent`, which removes one file after another and
may fail or be cut off with the rest still there. `suspect` marks configurations whose
store was touched by a failed write, by another program, or by a commit over a
newer revision; the properties that cannot hold for those say so.

### Connection

A connection is two short queues of frames and the goroutines at the manager's end:
the read loop (`ReadFirst`, `ReadRefused`, `ReadRequest`, `Refuse`, `ReadFails`,
`RemoveClient`), one goroutine per request (`Submit`, `GiveUp` or `Expire`, `WriteAnswer`,
`Finish`) and one per subscription (`TakeEvent`, `Push`, `ForwardEnds`). A write is possible while
the socket has room, and fails without effect once either side has closed it.
Frames are reduced to the kinds the server distinguishes: overlong or empty,
malformed, an offer, an owner command, a subscription, and what is always refused. A
request is one owner command (a mutation's three are in `Idempotency`), and the
owner's reply never waits, as the reply channel has room for it. The end of the
manager's context and the locked part of `Close` are one step; closing the
connections and then the listener are steps of their own, between which `Accept` may
still return a connection. A client in `Tools` follows `requestManagerAPIWithKey` or
`eventsCLI`; any other client sends frames of `OtherKinds` with identifiers of `OtherIds`, need
not read, and hangs up if `MayLeave`. `MayStop` lets the server close.

### Broker

Every call of the authoriser is atomic, as under its mutex; `PrepareBrokerLaunch` is
not: opening the copy and aborting the start are separate steps. Frames are
reduced to whether they validate, files to whether the hand-off succeeds. `cancel`
is treated like `stop`, as in the code.

### Sessions

The owner takes commands from a bounded mailbox: `BeginStart`, `Locate` and `OpenDevice` are a
start, one step for each time the code looks at the devices again, with `Plug` and
`Unplug` between them; `StartFails` is any of its error returns. The goroutine of a session
is `Observes` or `ContextDone`, then `PostFinish`, which loses the finish when the mailbox is full, as
the code ignores the answer of `submitCommand`. `FinishSession` is shared by `Finish` and
`Cancel`, ends in `PruneOperations` and a pass. `RefreshDevices` reads the boards present, falls back to
the topology for boards of equal identity (`PublicId`) and keeps roles. A node
may be taken by another board, whose platform identity is then the node's. A
mutation is one direct step of the owner that leaves an operation in the table;
its commands do not occupy the mailbox here (`Idempotency` has them). The table of
operations is a set, as the code's map is; of each `UpdatedAt` it keeps the place in the order
(`Ranked`), which is all that pruning and eviction look at. `why` is a history of what has
happened to each session.

### Recovery

A pass is seen one configuration at a time, with exits, foreign processes, edits and
the manager's crash between any two. Whether a configuration may run is a free
choice of the action (`Refuse`, `Hold`, `Skip` and so on); `Supervisor` decides it. `proc` is the
kernel's table by PID, each process with a start time; a launch has a path of its
own, for which the start time stands. `stop` is the stop under way: `StopProcess` looks at the
PID (`ownsProcess`), `Terminate` signals the group of that number, then the child goes (`Stopped`) or the
`Deadline` passes and `Kill` signals the number again. In between the child may exit, be waited for
and its PID be reused; the owner does nothing else, so that the configuration's
state is already what it will be. `Cleanup`, `StopStates` and `CleanupDone` are a shutdown, which stops
the children one by one. `RecoverChild` begins a stop of the same kind for an entry of
`status.json`, with a look at the start time before either signal. A KILL ends its
process at once or leaves it `doomed`, not confirmed in time. `Crash` ends the manager and any
of its children (the parent-death signal); `Restart`, `RecoverNothing` and `Recovered` are the rest
of the next one's start. Time is reduced to whether a configuration is
still delayed. `struck`, `seen`, `blame` and `listed` are history. `cgroups` says whether a cgroup
root is configured.

### ConfigText and Preview

`ConfigText` has pure operators over sequences of bytes: `TokenizeConfig`, which decides what
a configuration declares; `ParseBehaviorForms`, which finds the assignments in a submitted
behaviour; and the conversions between offsets and line:column positions. They
are RECURSIVE, so no module with a theorem uses them. `Preview` is one request:
`Submit`, the owner's `Check`, `CreateSnapshot` and `FinishPreparation`, then `Receive`, the dry run and `Finish` or
`Interrupt` in the request's goroutine; its context may end between any two. The properties
restate the scanners independently: `PlaceOf` counts as KMonad does, `InAssignment` finds the
assignments by tokens instead of forms.

## 3. Runs

All bounds are constants named in the modules (`MaxEvents`, `MaxPublished`, `MaxSubs`,
`MaxServers`, `MaxFaults`, `MaxCrashes`, `MaxMishaps`, `MaxEdits`, `MaxRev`, `MaxTime`, `MaxFrames`, `MaxSessions`, `MaxMutations`,
`MaxHotplugs`, `MaxStarts`, `MaxManagers`, `MaxPieces`); `MailboxSize`, `MaxOps` and `MaxRecords` are limits of the code made small; sets are small sets of
model values. Runs whose bounded counters can be exhausted say
`CHECK_DEADLOCK FALSE`: the model stops there, not the program. The supervisor runs
check deadlock, because a pass can always begin.

| run | instance | states | shows |
|---|---|---|---|
| `SupervisorClaims` | 3 files, room for 2, 3 contents (1 rejected), 2 paths, 2 devices | 2.1 M | `SnapshotAccounting`, `RunsValidated`, `SessionExclusive`, `SharedOnlyWhenKept`, `UpdateReplacesOnlyWhenValid`, `LimitRespected` |
| `SupervisorLive` | 2 files, 1 device, 3 contents | 119 k | `Converges`, `RefusedStops` |
| `EventStream` | ring 2, buffer 2, 5 events, 3 subscriptions, 2 servers | 142 k | `NothingLost`, `LogSpec` (refinement), `CatchesUp` |
| `Idempotency` | 2 requests, 2 keys, 2 fingerprints, queue 1, 1 record, 2 faults, 2 crashes | 365 k | `AtMostOnce`, `AnswersDurable`, `RecordsMatchWorkers`, `Answered` |
| `ManagedApply` | 2 requests, 2 configurations, 2 sources, 1 mishap (crash or failing write), 1 outside edit | 749 k | `StoreIntact`, `AdoptionBacked`, `RejectionLeavesNothing`, `VerdictHonest` |
| `ApplyStale` | 2 requests, no faults, no crashes | | violation of `NoStaleCommit` |
| `Broker` | 3 requests, 2 configurations, 2 snapshots, ring 2, 1 tick | 223 k | `SingleUse`, `ReservationOwned`, `AuditAgrees`, `ReleasedByOwner` |
| `Connection` | 2 clients, room for 1, 2 requests in flight, 4 frames of 5 kinds, a client that may leave | 497 k | `SlotsAccounted`, `Unambiguous` |
| `ConnectionClose` | a client that need not read beside a tool, mailbox 2, 1 request in flight, the server may close | 363 k | `ClientsAccounted`, `ReplyMatches`, `NotHeldUp`, `Drains` |
| `Sessions` | a keyboard, its twin and a virtual output; 2 sessions, 1 mutation, 1 hotplug; mailbox, table and journal of 1 | 432 k | `WaitingIsCurrent`, `OutcomeTrue`, `OutcomeKept`, `OperationsSpec` (refinement), `SessionEnds` |
| `Recovery` | 2 configurations, 2 PIDs, 2 process starts, 1 edit, 2 managers, with and without cgroups | 4.5 M | `SignalsOwned`, `NoChildLost`, `BackoffFresh` |
| `Preview` | texts of up to 3 of 9 pieces, as a behaviour and as a whole configuration | 168 k | `PreviewHonest`, `DeviceChosen`, `LocationFaithful` |

The type invariant of a module is a conjunct of one of the invariants of its run
(`NothingLost`, `SlotsAccounted`, `StoreIntact`, `RecordsMatchWorkers`, `WaitingIsCurrent`, `NoChildLost`, `PreviewHonest`); those of
`Supervisor` and `Broker` are proved.

Why the bounds suffice for the cases they are for:

- Two files with two paths to two devices give every relation the pass
  distinguishes: same path, two paths to one device, different devices; two
  environment events suffice for an edit whose validation is overtaken by a
  second change. Its watchdog and uptime limits are zero, as no property of this run
  depends on how long they are; `SupervisorLive` has them positive. The limit needs one file more than it admits.
- A ring of 2 with 5 events wraps twice; a buffer of 2 overflows while replaying.
- A journal of one record makes the second key meet a full journal; a mailbox of one
  makes the completion of a mutation meet a full mailbox.
- Two requests, with enabling, disabling and deletion, which need none, let other
  operations commit while one is being validated; one crash between any two
  writes reaches every combination of files on disk that one interrupted
  operation can leave.
- Four frames are an offer, two requests that fill the two slots, and one too many
  or one that repeats an identifier. A socket of one frame is filled by one unread
  answer. A mailbox of 1 is full at the second request; a mailbox of 2 lets a
  tool's command wait behind another client's.
- Three broker requests are a start whose hand-off fails, a stop, and a second start
  that the late abort meets; two ring entries wrap with the third.

- A mailbox of one is filled by one client command when a session's finish comes. A
  table of one and a journal of one are exceeded by a session and a mutation. The
  twin shares the keyboard's identity, so that plugging it in between two looks
  changes what the identifier means; the third node lets a board move.
- Two process starts are a child and its successor, or a child and the foreign
  process that takes its PID; two managers are a crash and a recovery. One edit is
  a change of content that failures must not outlive; with two, a rejected update
  could be adopted later under `pending`, which `BackoffFresh` allows.
- Three pieces put an assignment after a layer head and before what ends it, or hide
  a word in a string or a comment; runes of two bytes make columns and offsets differ.

`ManagedApply` allows one mishap per behaviour, either a crash or a failing write.
A failing write followed by a crash before the
registry is rewritten can leave an adopted source without its configuration:
with two mishaps TLC finds `AdoptionBacked` violated. `AdoptionIsBacked` proves it for
any number of either kind alone; the combination is left for a later module
(section 8). The other three properties are proved for any number of both.
`RejectionLeavesNothing` speaks of behaviours in which no write failed, with stops of the manager.

### Fairness

- `Supervisor`: weak fairness of the owner (its poll ticker always brings the next
  pass) and of the restart (systemd). Strong fairness of `Tick` and `EndSession`,
  which happen only between passes: time passes and a session has its own timeout.
  Nothing is assumed of files, devices or children.
- `EventStream`: weak fairness of each client's forwarder, which runs as long as the
  client reads.
- `Idempotency`: weak fairness of each request goroutine and of the owner taking a
  command from the mailbox. Writes may fail and contexts may end.
- `Sessions`: weak fairness of the owner, and of the sessions' goroutines, whose observer
  returns at its deadline at the latest. Nothing is assumed of clients or boards.
- `Recovery` and `Preview` have safety properties only.
- `Connection`: weak fairness of the manager's goroutines taken together, which is
  weaker than fairness of each one and enough because every client's frames are
  bounded, and of each tool. Nothing is assumed of other clients, and no deadline
  needs to pass.

## 4. Disagreements between code and documents

One run is expected to fail: `ApplyStale` checks `NoStaleCommit`. The API document
(`src/wiki/Manager-API-v1.md:840-841`) promises `stale_revision` instead of silently applying a
stale edit, but the revision is compared before the dry run only, in
`prepareManagedApply`; what is stored after it may overwrite a newer revision. `VerdictHonest` and
`StoreIntact` hold all the same.

Other disagreements are the named exceptions of properties that hold:

- `SharedOnlyWhenKept`: `src/wiki/Keyboard-Configuration.md:34` says duplicate configurations are
  prevented from reading the same device. A child kept because its edited file was
  rejected (or changed while being read) keeps its device, but the pass leaves the
  file before claiming the device (`supervisor.go:136`), and another file is launched on it.
- `Converges` speaks of files whose content stays acceptable. `src/wiki/Keyboard-Configuration.md:67-68`
  limits how long an unhealthy child may remain; a rejected edit ends the file's
  inspection before the health check, so the child stays as long as the edit does.
- `RecordsMatchWorkers`: `src/wiki/Manager-API-v1.md:854` says a disconnect does not cancel an admitted
  mutation. If the context ends after the owner has journaled the admission and
  before the goroutine takes the reply (`idempotency.go:245`), nobody executes the mutation and
  its key answers "running" until a restart (`GaveUp`). A completion whose write failed
  leaves its record pending as well (`Unwritten`).
- `RejectionLeavesNothing`: `src/wiki/Manager-API-v1.md:684-685` says that a failed adoption removes the
  new managed revision. What is removed is its metadata (`apply.go:222`, `apply.go:293-296`), and after
  an update its metadata is restored (`apply.go:300`); the content file written before
  stays in the state directory, for creations, adoptions and updates alike. The property
  is about memory and metadata, so that no configuration names such a file, and about
  the content file only for creations rejected before the commit, which wrote none.
- `SessionEnds`: the finish of a session that meets a full mailbox is lost (`identify.go:128`); the
  device stays held and the operation waiting until a client cancels it.
- `OutcomeKept`: with a table full of operations the journal needs, the operation of a
  session goes at the moment it ends (`identify.go:222`), and its client is told it does not
  exist.
- `SignalsOwned`: signals go to a group by number, so that a process that took the PID
  after the last look is hit. A stop looks once (`supervisor.go:499`), before TERM (line 510) and,
  up to the deadline later, KILL (513), while the goroutine in `Wait` may reap the child; a
  recovery looks right before each signal (`process.go:115-118`); the exit branch of a pass
  (`supervisor.go:189`) does not look after the launch. The run reaches a stranger hit in each of these
  windows. The property says that this is all: a process that was there at the last look,
  and is not the child, is never signalled. The pidfd would exclude the windows but is used
  only if the signal by number fails (`supervisor.go:591-598`).
- `NoChildLost`: a child whose executable was replaced is no longer owned; it is not
  signalled and forgotten (`supervisor.go:499`, `process.go:77`), though with cgroups its group is still
  killed. A child launched before the manager died in its first pass, or whose
  `status.json` could not be written, is not found by the next manager, which may start a
  second reader of the device.
- `BackoffFresh`: `restoreBackoff` (`state.go:120`) restores failures and delay, but no signature; the
  first pass takes every file for changed and clears both. The restored backoff
  therefore shows in the table and delays no launch.
- `PreviewHonest`: `src/wiki/Manager-API-v1.md:740` says the snapshot is removed in every outcome. It is
  left behind if the request ends after `validation.go:71` and before its answer is taken. A
  cancelled request whose KMonad outlives the KILL is answered `rejected`
  (`supervisor.go:427`, `validation.go:145`), though KMonad gave no verdict.

## 5. Proofs

### SupervisorProofs

For any number of files, contents, paths, devices and environment events, from
`ConstantsAssumption` (positive number of files and retry cap, every content names a
path, `None` is neither a content nor a device, delays are positive):
`TypeCorrect`, `SnapshotsAccounted`, `ChildrenValidated`, `SessionsExclusive`, `ClaimsExclusive`,
`LimitIsRespected` and the action property `UpdatesReplaceWhenValid`.

The inductive invariant is

    IInv == TypeOK /\ PassInv /\ ClaimInv /\ SnapshotAccounting /\ RunsValidated /\ SessionExclusive

The stated properties are not inductive by themselves. `PassInv` says what is known
of the file in the owner's hands at each step (it claimed its device, no session
reads that device, a start has no child, the snapshot file holds what the state
records, and at `launch` KMonad accepted it): without it the launch could start anything. `ClaimInv` says that a child whose file
this pass has dealt with holds the claim on its device unless it was kept; two
children on one device would both have to be the claimant, which is
`SharedOnlyWhenKept`. The proof has a lemma per helper, then one step per action.

The last two theorems need a second invariant on top of the first,

    LimitInv == OrderInv /\ LimitRespected

`LimitRespected` counts children between passes; within a pass the count may be over the
limit, because the listing is new and children of files further down are still there.
`OrderInv` says what holds instead: the children of files already dealt with have a rank
within the limit, and claims belong to files already dealt with. At the end of the pass these
are all children, and a counting lemma (`WithinLimit`: the greatest of them has all others before
it) gives the bound. For `UpdateReplacesOnlyWhenValid` it excludes that a file's device is
claimed by the file itself before it is inspected. `RunsValidated` speaks of the manager's last
look at the path, in `startConfig`; KMonad opens it by itself afterwards, which no check of the
manager can cover.

### BrokerProofs

For any number of users, configurations, snapshots and requests, any clock bound and
any ring size, from `BrokerAssumption`: `TypeCorrect`, `CopiesSingleUse`, `ReservationsOwned`,
`TrailAgrees` and the action property `ReleasesOwned`.

    IInv == TypeOK /\ GrantInv /\ SingleUse /\ ReservationOwned /\ AuditAgrees

`GrantInv` orders the life of a copy: an outstanding grant belongs to a registered
copy that no start has used, and a start's copy was registered. It makes `SingleUse`
inductive (an authorised start meets an unused grant), and `SingleUse` is what
makes comparing snapshot identifiers in `AbortStart` safe. `AuditAgrees` rests on what
recording does to the ring (`RecordedFacts`): at most the oldest entry goes, the
order stays, the new entry is last.

### EventStreamProofs

For any ring and channel size, any number of clients, subscriptions, events and
restarts, from `StreamAssumption` (sizes are positive): `NothingIsLost` and
`StreamImplementsLog`, the refinement of `EventLog`.

    IInv == TypeOK /\ RingInv /\ FreshInv /\ CursorInv /\ StreamInv /\ OwnInv

`NothingLost` speaks of one stream; to keep it, a publication must find the ring in
order (`RingInv`: consecutive numbers from `eventStart`, wrapping), a subscription must
replay exactly what is newer than its cursor, and a new subscriber must find its
channel empty (`FreshInv`). `RunInv` is the gapless chain cursor, replay, channel,
`nextEventID`. What the replay loop collects from a ring (`NewerThan`, a recursive
function) is not proved by induction, which the prover cannot do, but from a least
counterexample: the first position where the loop and the closed form differ.
The refinement then maps each step: a publication appends to the log, the next
number read or a resynchronisation moves one reader, a restart begins a new log,
and every other step is a stutter.

### IdempotencyProofs

For any number of keys and requests, any mailbox and journal capacity and any number
of failed writes and crashes, from `JournalAssumption`: `RunsAtMostOnce`,
`AnswersAreDurable`, `RecordsHaveWorkers`.

    IInv == TypeOK /\ RecordInv /\ QueueInv /\ RequestInv /\ OwnerInv /\ RanInv /\ AnswerInv

`AtMostOnce` needs `RanInv`: a key that can be admitted, and one whose mutation is still to
come, has not run. That holds because an admitted request owns its pending record
(`OwnerInv`), because a command is queued once and for the point its goroutine is at
(`QueueInv`), and because what is finished in memory is not pending in the journal
(`RecordInv`). `AnswerInv` strengthens `AnswersDurable` to memory, and to answers the owner has
given but the goroutine has not yet passed on.

### RecoveryProofs

For any number of configurations, process identifiers, launches, edits and managers,
from `RecoveryAssumption` and `NoneAssumption` (`None` is none of the records it stands
beside): `SignalsAreOwned`, `NoChildIsLost`, `BackoffIsFresh`.

    IInv == TypeOK /\ ProcInv /\ HandleInv /\ StatusInv /\ StopInv /\ ChildInv /\ BackoffInv
            /\ SignalsOwned

A PID tells nothing by itself; what does is the start time (`ProcInv`: given once) and the
launch path. `StatusInv` is the core: an entry's launch path identifies its child even when
its PID and start time are those of a later process, and a recovery begins only
where both agree. `StopInv` carries what a look found through the steps of the stop: the
start time identifies the child, and nothing with its PID is older (`Follows`), so that a
stranger there came after the look. `ChildInv` follows a child from the table of its manager, or the stop under way, to `status.json`
and on to the next manager's recovery, which is where `NoChildLost` could fail.

### ManagedApplyProofs

For any number of configurations, requests, bodies, sources, revisions, outside
edits, failed writes and stops, from `ApplyAssumption` (`None` is none of the values it
stands beside, a configuration can have a revision): `StoreIsIntact`,
`RejectionsLeaveNothing`, `AdoptionIsBacked` and the action property `VerdictsAreHonest`.

    IInv == TypeOK /\ ConfigInv /\ JobInv /\ OwnerInv /\ StoreInv /\ CommitInv
            /\ DrawnInv /\ MarkInv /\ AgreeInv /\ BackedInv /\ TraceInv

An apply is spread over many steps, so that the invariant says what each step leaves to
the next one. `JobInv`: a request under way proposes a content revision its
predecessor does not use. `CommitInv`: before the metadata is written the content is
there, and after the commit memory and disk hold exactly what the request proposes, or
its predecessor again before the restart; `VerdictHonest` and `StoreIntact` both rest on it. `StoreInv` and
`AgreeInv` relate memory to disk, unless a configuration is suspect or a write failed.
`DrawnInv`: an identifier nobody has drawn is nowhere, and no two requests
create the same configuration. `MarkInv`: a source is marked only between the commit
and the removal. `TraceInv` carries what `RejectionLeavesNothing` says of a creation from the
request's preparation to its end; to keep it, nobody else may touch the configuration in the
meantime (`Sole`). The proof has one lemma per action, on top of lemmas about what a
write of the store, a reconciliation and the end of a request do.

Whose work the store holds needs a second invariant, proved on top of the first:

    WorkInv == faults = 0 => AuthorInv /\ ContentInv

`AuthorInv` names for every metadata file a request that was committed and not taken back
(`InPlace`), and for what a request may have to restore one that was accepted: it is read
from memory in `prepareManagedApply`, where every configuration has an accepted author because the
owner is in no other command. A stop of the manager leaves the verdict of a committed
request open, and it counts as accepted from then on. `ContentInv` says that a
creation which has not come to its content file, or never will, has none; identifiers
are drawn once, so nobody else writes it. `WorkKeeps` says what a step must satisfy to
keep both, and has one application per kind of step.

### ConnectionProofs

For any number of connections and tools, any limits on clients, requests in flight,
mailbox and socket, from `ConnectionAssumption` and `KindsAssumption` (what other clients
send is of the kinds the server distinguishes): `SlotsAreAccounted`, `AnswersAreUnambiguous`,
`ClientsAreAccounted`, `RepliesMatch`.

    IInv == TypeOK /\ ServerInv /\ \A c \in Conns : ConnInv(c)
    ConnInv(c) == FrameInv /\ SlotInv /\ IdInv /\ HelloInv /\ (c \in Tools => ToolInv)

Every step concerns one connection at most, so that the proof treats a step as what it
does to its connection and, by one lemma, nothing to the others. Slots and
identifiers are inductive once every frame is read by one goroutine (`FrameInv`). A tool
does not compare identifiers, so that `ReplyMatches` needs the whole history of its
exchange: before negotiation nothing is written but what ends the connection
(`HelloInv`), then its request is at exactly one place, unread, refused or with its only
goroutine, and events follow the answer (`AskedInv`). `ServerInv` adds that a connection is
served after it was accepted, which is after it was dialled.

### SessionsProofs

For any boards, nodes and identifiers, any size of mailbox, table and journal, and any
number of sessions, mutations and hotplugs, from `SessionsAssumption` and `NoneAssumption`:
`WaitingMatchesSessions`, `OutcomesAreTrue`, the action property `EndedOperationsStay` and
`TableImplementsOperations`, the refinement of `Operations`. The
assumptions say that two boards are never at one place, that a board's place is never
the identity of another board (`linux.go:353-357`: an identity is the board's own
place, or begins differently), and that no two boards start at one node.

    IInv == TypeOK /\ TableInv /\ IssuedInv /\ CountInv /\ WaitingInv /\ HeldInv
            /\ ResultInv /\ OutcomeTrue /\ NodeInv /\ StartInv

`OutcomeTrue` speaks of the table only; a finish can be wrong long before it is
executed. `ResultInv` therefore follows each result from the goroutine through the
mailbox: it happened to its session, or it is the cancellation of a session that is
not current any more, which `Finish` ignores. `StartInv` follows a start: while no board
comes or goes, the identifier belongs to one board only (`OneBoard`), so that the board
chosen first, the node found next (`NodeInv`: one board at each) and the board opened last are the
same. `WaitingIsCurrent` needs that pruning and eviction cannot touch a session's operation
(`PruneFacts`, `JournaledFacts`), which rests on identifiers being issued once (`IssuedInv`,
`TableInv`). `EndedOperationsStay` is a counting argument (`LatestKept`): the operation that
has just ended is the latest, so it goes only if all others that may go are not
enough, that is if what may not go fills the table.

The refinement maps the table to the answers its clients get: the state of the row, or
"gone" when the identifier was issued, or "unknown" (the code answers `not_found` to both). A session that opens its device is
`Begin`, a mutation is `Execute`, a finish or cancellation of the current session is `End`, the
end of the manager is `Stop`, and every other step leaves the answers alone. Each takes
other operations' outcomes along (`KeepOrFade`): a row that goes was not waiting, because
`WaitingIsCurrent` makes it a session's and those are kept. That at most one operation of each
kind waits follows from `StartInv`.

### Only model-checked

Liveness (`Converges`, `RefusedStops`, `CatchesUp`, `Answered`, `NotHeldUp`, `Drains`, `SessionEnds`), which is beyond the prover; and everything about `Preview`: what the recursive
scanners of `ConfigText`, which it uses, compute for every text is induction over data.

## 6. Hazards

`PROJECT.json` lists the places where this code can go wrong in ways a test hardly
reaches, with the properties that would notice. Those without a property say why;
they are the agenda of section 8.

## 7. Not modelled

- The scan of key capabilities (`device.inputscan.get`), which only reads, and its
  generation counter.
- The file `devices.json` that keeps identifiers and roles across restarts, and the
  listing of devices.
- The hand-off of a dry run done by an apply to the pass (`takePrevalidated`) inside
  `Supervisor`; `ManagedApply` has its outcome.
- Metadata files that cannot be read at a start, which `openManagedConfigurationStore` skips
  (`managed_store.go:74-85`), in `ManagedApply`: its `Restart` loads every file, since a write is
  atomic and nothing in the model damages one.
- The comparison that decides which events a change of state publishes
  (`events.go:198-255`), in `EventStream`: an event may be published at any time.
- Snapshot files across a crash and the descendants of a child, in `Recovery`.
- The conversion of structured content to KMonad text (`content.go`).
- Metrics, systemd notifications, logging, settings, doctor, the command line beyond
  its exchange with the socket; exec, ioctls and permissions of the Linux backend.

## 8. Plan

Written and in order of importance: Supervisor, EventStream with EventLog,
Idempotency, ManagedApply, Broker, Connection, Sessions with Operations, Recovery, Preview with
ConfigText; the proofs about all of them but Preview. Next:

1. The replacement of a managed configuration's path while its old child runs, as a
   composition of Supervisor and ManagedApply, with the prevalidated hand-off.
2. The failing write followed by a crash of section 3; `devices.json` across a restart;
   snapshot files in Recovery.
3. The backoff formula as an operator checked against its closed form.
