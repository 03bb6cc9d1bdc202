# RomCloud: a TLA+ verification of its save synchronisation and services

RomCloud shares one library of games and one set of save games between Batocera devices. This
directory holds a formal model of the parts of it that keep state: how saves are replaced and shared,
how games are cached and queued, and the services around them. TLC checks the model on small
instances; TLAPS proves, for every instance, what is said in section 4. Source paths below are relative to
`src/src/romcloud/` unless they begin with `src/`.

## 1. Inventory

| component | source | state | what is hard | what makes it correct | modules |
|---|---|---|---|---|---|
| Save transaction | `infrastructure/save_transaction.py` | recovery journal, staging trees, snapshots, stable history, the live saves | crashes and power loss between any two steps, emulators that write without a lock, several destination roots | all or nothing, no save lost, third versions kept, durable before recorded | `SaveTransaction` |
| Commit protocol | `infrastructure/savesync_commit.py`, `services/saves.py` | commit lock, shared intent, index, each device's baseline and receipt | plans older than the lock, dying between payload and publication, recovery by a peer | no progress lost, published saves never regress, published once, index describes payload | `CommitProtocol` |
| Shared index | `infrastructure/savesync_index.py` | shards per layout, HEAD and its predecessor, ownership marker | readers without a lock, torn publication, fallback | a reader sees a published index or nothing, generations identify content | `SharedIndex` |
| Quick Sync discovery | `services/saves.py`, `infrastructure/savesync_journal.py` | index watermark; journal cursor of an unowned dataset | the watermark must not pass what was not compared | no remote change is overlooked but by named routes | `SharedIndex`, `JournalSync` |
| SaveSync state | `infrastructure/savesync_state.py` | baseline, groups, dirty marks, conflicts, receipt | old plans and old answers meeting new observations | a conflict is never dropped unresolved, an answer never destroys what it did not show | `CommitProtocol`, `Conflicts`, `JournalSync` |
| Automatic SaveSync | `services/auto_savesync.py`, `integrations/batocera/auto_savesync.py` | session markers, dirty marks, worker lock, queue of prompts | the game runs while the worker syncs, the frontend dies, one worker for hook, loop and drain | local work is remembered and drained, nothing unseen is replaced | `AutoSync` |
| Cache | `services/cache.py`, `services/transfer.py`, `infrastructure/cache_coordination.py` | cached games, members, reservations, staging, quota | eviction racing with launches and downloads, shared files | quota and reserve kept, no game loses another's files | `Cache` |
| Download queue | `services/download_manager.py`, `infrastructure/repositories/download.py` | job table, the one worker, control requests, the suspension of Offline | requests racing with the worker, restart, a mode change by HTTP | a run ends as asked, no row is orphaned, Offline is quiet and lifted again | `Downloads` |
| Operating mode | `integrations/batocera/game_access.py`, `core/capabilities.py` | mode file, links, proxies, game lists | failure half-way and its rollback, a refresh without the lock | what is shown is what the mode file says | `OperatingMode`, `Downloads` |
| Mounting | `infrastructure/mount_worker.py`, `mount.py`, `mount_endpoint_cache.py`, `integrations/batocera/mount_service.py` | lock, status and availability files, kernel mounts, endpoint cache | a mount that ends after it was given up, a worker overtaken by another | a reported success is mounted, only own mounts are undone | `Mounting`, `Startup` |
| Library sync | `services/library_sync.py`, `library_manager.py` | canonical records, blobs, each device's copy, game lists | overlapping runs cut short, user edits | nothing canonical vanishes, an image is there before it is named | `LibrarySync` |
| Catalog and library view | `integrations/batocera/catalog.py`, `infrastructure/library_view.py` | games, proxy records, files shared with the user | identity across renames and cue sheets, dying between writes | one game per file, a proxy launches its own game, user files are kept | `Catalog` |
| Setup wizard | `src/ports_gfx/wizard.py`, `operation.py` | page, form, requests in the background | an answer that arrives on another page or for an older form | an answer fits what its page asked, nothing unchecked is sent | `Wizard` |
| Web interface | `web/lifecycle.py`, `server.py`, `auth.py`, `browser_runtime.py` | server state file, instance lock, sessions, pairing, kiosk launches | two starts racing, a stop of a stale pid, revocation across restarts | one server that can be found, a revocation is final | `Manager`, `Browser` (partly: the pages are left out) |
| Lifecycle | `lifecycle/update.py`, `manage.py`, `setup.py`, `integrations/batocera/direct_saves.py`, `startup_activation.py` | environments, backups, configuration, manifests | every step may fail or be the last | a failure leaves what was there, or says so | `Update`, `Removal`, `Setup`, `Startup`, `DirectSaves` (partly: first installation and repair are left out) |
| Providers | `infrastructure/providers/`, `google_auth.py`, `smb_discovery_client.py` | token, pending authorization, identity of the folder, host keys | requests lost or late, two processes of one device | one folder, an outage never signs out, passwords go to trusted keys only | `GoogleDrive`, `Wizard` (partly) |
| Configuration and credentials | `infrastructure/config.py`, `credentials.py` | configuration, secrets, backups | replacement and restoration cut short | see Setup | `Setup`, `Wizard` (partly: parsing and encryption are left out) |
| Save formats | `core/save_containers.py`, `infrastructure/ps1_memory_card.py` | baselines of merge domains | cards that hold the saves of many games | no save of a card is lost, a readable card can be rebuilt | `Containers`, `MemoryCard` (partly: bytes and path tables are left out) |
| Diagnostics | `troubleshoot.py`, `infrastructure/diagnostics.py` | log files | none: it reports and changes nothing | | not modelled |
| Interfaces | `cli/`, `ui/`, `src/ports_gfx/app.py` | none of their own | none: they call the services | | not modelled |

How they meet. A game launched by the frontend runs the hooks of Automatic SaveSync, which ask the
SaveSync service to reconcile; that takes the device's state lock, recovers the transaction a predecessor left,
discovers remote changes through the shared index (or the older journal), takes the commit lock, and carries out
its plan as a save transaction whose publication is a shard and a HEAD. The download queue lives in the resident
Library Manager, calls the cache service under asset locks that every process of the device shares, and is
suspended over HTTP when the operating mode goes Offline. Setup, update, removal and the startup service act on
files that the others read, and mounts come and go under all of them.

## 2. How the modules correspond to the code

### SaveTransaction

One device and its `SelectedTransaction`. `journal` is `savesync-transaction.json` with the two
manifests it carries; `live` is what every process sees under the destination roots and `synced`
what a power loss may fall back to; `stage`, `candidate` and `previous` are the directories
`.<root>.savesync-stage-<op>`, `.<root>.savesync-previous-<op>` and `<root>.savesync-previous`;
`receipt` is `last_completed_operation_id`, in the same file as the baseline. `pc` and `mem` are what
is lost when the process dies. The steps follow `prepare_transaction`, `apply_transaction`,
`SelectedTransaction.finalize`, `SelectedTransaction.rollback`, `_cleanup` and `recover_transaction`
in the order of the code; the callers (`_reconcile_once`, `_commit_force`, `resolve_conflict`) appear
as `StagingChanged`, `CallerAborts`, `Publish`, `WriteReceipt`, `ReceiptFails`, `AppendJournal`,
`AppendFails` and `RestoreState`. Emulators write at any moment. A content is a model value; several
files of one save group are several paths.

### CommitProtocol

Several devices and one dataset the protocol owns. A group's content is a version: every emulator
save creates a new one, and `past` remembers what it was made on top of, which is how "progress" is
made precise. `payload`, `head`, `intent` and `lock` are the remote files; `local`, `base`,
`receipt` and `tx` belong to each device. The transaction of SaveTransaction is reduced to what peers
can see of it: one step per replaced group, a rollback that plans first and restores afterwards, and
a recovery that runs without the commit lock, as `_recover` does. `Recover`, `Scan`, `SkipLock`,
`TakeLock`, the resolution of an intent, `CheckIndex`, `Prepare` up to `FinalizeTx` are the steps of
`_reconcile_once` in order; `FullStart`, `Rescan`, `Rebuild` and `FullEnd` are `full_sync` around it.
The compare-and-swap of the code reads its expectations under the lock it validates them under, so it
cannot refuse; it is therefore not a step.

### SharedSaves

The abstract specification of CommitProtocol without faults: per group a register, `shared`, that every peer may rely on, and beside it
`offered`. A save made on top of the shared version is laid next to it (`Offer`), if nothing is pending for the group, and is then taken back
(`Withdraw`) or becomes the shared version together with the groups of its transaction (`Publish`). The refinement mapping reads `shared` off the index
(`head[g].ver`) and `offered` off the payload: `PromoteRemote` is `Offer`, `RestoreRemote` is `Withdraw`, `Publish` and `PublishForward` are
`Publish`, `Edit` is `Save`, and every other step of a device, its plans, locks, journals and downloads, is none. Elsewhere it is no refinement, and
TLC shows why: a state file that fails after the publication rolls the payload back under what the index already tells, and a Full Sync, which skips the
comparison of the index with the payload, lays a save on a pending one that a peer had downloaded before its upload got stuck (two groups,
four edits, four operations).

### SharedIndex

One dataset of layouts, each a set of save groups, and the devices that publish and read it. `shards`
are the immutable files `<layout>/g<generation>.json`, `head` is `HEAD.json`, `marker` the ownership
marker, `journal` the generation of the compatibility journal, `intent` the shared intent; `watermark`
and `pass` belong to each device and are read and written without the commit lock. `pub` is the one
publication that can be under way, because the commit lock admits one: `BeginCommit` or `BeginFullSync`,
`WriteShard` for each layout it changes, `WriteHead`, `CloseCommit`. `WriteFails` and `Crash` end it
between any two of these, `Refused` is `write_shard` finding its name taken. `BeginQuickSync`, `Compare`,
`Reconcile`, `Advance` and `Defer` are `_quick_sync_owned`; `BeginGameStart` the targeted pass. A device
that predates the protocol writes payload and journal directly (`LegacyWrite`), and storage may lose
`HEAD.json` (`LoseHead`). Contents are version numbers. What a reconciliation does to files is
CommitProtocol's; here it makes the device `observe` the payload. `missed`, `unindexed` and `masked` are
history variables: they name the routes by which a change is known to escape. A pass that runs only because of pending local groups
(`saves.py:2801`, 2847, 2914) compares nothing new and is left out.

### Cache

Several processes over one cache directory and one database. `entry`, `pin` and `member` are the rows of
`cache_entries` and `cache_members`; `row` and `stale` those of `cache_reservations`, of live and of dead
owners; `manifest` and `done` those of `cache_staging_assets`; `final` and `staged` are bytes on the disk,
counted in units; a sum is the number of units of a set, and a shared path counts the units any owner recorded. `lock` and `admission` are the flocks of `AssetLockManager` and `admission_lock`. The
steps from `Request` to `Release` are `cache_game`, `admit` with the eviction it calls back,
`_cache_game_after_admission`, `_transfer_in_session`, `_promote` and `finalize_transfer` in the order of
the code; `AskRemove` to `DropRemoved` are `remove`; `PinRead`, `UnpinRead` and `ControlWrite` the two
commands that take no lock; `DiscardPartial` the one the download queue offers. An asset stands for all
its files, a promotion that replaces a file frees the old one at once, eviction may try the eligible games in any order instead of by last access. `_fits` is three steps and a comparison: what is finished (`ReadFinal`), what is
staged (`ReadStaging`), what is reserved (`ReadReserved`), then the free space with the verdict (`Fits`), and everything that needs no admission
lock, writing, promotion, finalisation, discards and the release of reservations, may come between. The removal of a game that is not complete is three
steps as well, `DiscardStaging`, `RemoveFiles` and `DropRemoved`, with a crash possible after each. `stray`,
`unplanned`, `unseen` and `overlooked` are history variables: the assets whose bytes went uncounted by a route that is named where it
happens, those damaged by another program after a transfer had found them intact, the transfers that wrote after the running
admission had measured the staging directory, and whether such bytes were missed by every one of its three reads. The asset locks of a closure are
taken in one step; the code takes the flocks one by one in the order of their paths, which cannot deadlock.

### Downloads

The resident manager and its queue. `row`, `game` and `born` are `download_items`; `manager` is the one
process the instance lock admits, from `__init__` (`Start`) over the published state file (`Publish`) and
`start_downloads` (`Serve`) to `shutdown` (`Term`), `Exit` and `Crash`; `suspended` to `stop` are the fields
of `DownloadManagerService` that die with it. `worker.pc` walks through `_worker`: what the code does inside
one `_control_lock` section or in one statement of the database is one step, and everything between two
such sections may interleave. A browser request that reads a state and acts on it later (`AskStop`,
`CancelAll`, `AskDiscard`) is two steps, with `control` between them. `switch` is `set_operating_mode`, with
its coordination by HTTP, its rollback, and the ways a coordination can end: answered, not running, timed
out, connection lost to a manager that was restarted. The transfer is what `Cache` shows of it: it stages
bytes, and ends stopped, failed or finalised. A game's asset locks are one lock, Connected and Cache are
one mode, and the retention periods of partial data are any age. The handler of a stop, and that of a failure while downloads are blocked, first ask for the staged size, which
for a game without recorded members is resolved through the source; what that raises leaves the handler and ends the only
worker thread with the row in flight (`Raise`). `asked` and `stranded` are history variables: the stops accepted since the active run began,
and whether the last mode change ended without the manager having answered.


### AutoSync

`services/auto_savesync.py` and its hooks. `front` and `game` are what the frontend does; `marker` are the
session markers, `dirty`, `base` and `conf` the parts of the state file that matter here, `queue` the conflict
prompts. `run` has one process of each kind: the hook of the game being started or stopped, the periodic loop (which also
stands for the reconnection), and the follow-up drain of a gameStop that found the worker busy. `Launch`, `RetireMarker`,
`Settle`, `Detect`, `Acquire`, `Busy`, `Pass`, `Enter`, `Verify`, `Apply`, `Conclude` and `Fail` are the steps of
`_run_worker`, `game_start`, `game_stop` and the drain in the order of the code, `Load` to `Close` those of the popup.
Files move as in `SaveTransaction` and `CommitProtocol`, remote changes are found as in `SharedIndex`: a reconciliation is one
step. `escaped`, `silent` and `raced` are history variables: changes that were never settled or lost before they were
recorded, conflicts that no hook queues or a player put off, and games launched between the last look at the sessions and the promotion.

### The services (run by `MCServices`)

- **Mounting**: the detached workers with lock, status and availability files, `mount start`, `stop` and `remove`, a network
  that comes and goes, and a mount that the kernel finishes after it was given up (`stray`). The lock file is a record of the worker that created it; an unlinked and re-created file is another one. Deadlines are used-up attempts. The availability of the
  data share is read (`ReadRecord`) and written (`WriteRecord`) without a lock; the write may fail, in which case nothing is announced, and
  the callback that announces may fail after the write.
- **Manager**: servers started by requests, the boot service, an update or by hand; the state file, the instance
  lock, the port, and a stop that signals the process the file names. Kernel locks are functions of where processes are.
- **Browser**: pairing codes, sessions in memory and on disk, revocation, launches of the kiosk browser and the
  requests to close them. A registry operation holds its lock and is one step; time is the set `aged`.
- **LibrarySync**: a game's record and image on the data share, each device's copy, and the list the user edits; `Runs`
  are processes that sync, pull or re-render, and may die between any two writes. A Connected device
  copies an image only when the record names none beside the source.
- **OperatingMode**: `set_operating_mode` with lock and rollback against `reconcile_game_access`, which takes none. A process is the list of steps it
  has still to do. A first call to the manager that fails is not rolled back, although the manager may have obeyed it (`SwitchUnheard`).
- **Catalog**: one system: rows, ownership of proxy paths, proxies in a directory the user shares; a refresh scans, keeps
  identities (renames, tracks of a cue sheet), writes the rest, and may die.
- **Update**, **Removal**, **Setup**: sequences of file operations of which every one may fail or be the last, with the
  restoration each performs; Update's child process reconciles launchers and interface and may be killed, its rollback may fail (`FailRollback`,
  `StrandUi`), and so may the server it stops and starts (`FailStop`, `FailRestart`). Removal's `evidence` is the catalog and the manifest of
  links in the data root, without which later stages do not look; Setup's `claimed` records what each cache held when it was
  claimed and when the setup looked at it, `home` the cache inside an owned home, which is claimed without a look.
- **Wizard**: every page, the keyboard over it, and the background requests; a request holds the form of the
  moment it was started and ends whenever it ends.
- **GoogleDrive**: the account's authorization, the one folder, the write probe; processes of a device share the token
  files without a lock, and a request may be lost, unanswered, or take effect late.
- **Startup**: the service script, the boots, and what the interface says of them.
- **JournalSync**: Quick Sync of a dataset that has no index: the journal beside the saves and the cursor.
- **DirectSaves**: the retirement of mounted save directories, route by route, repeated until it succeeds. `migrate` holds no lock between its passes over
  the routes; here a sync or an answer to a conflict waits until it is idle.

### The parts of SaveSync modelled apart (run by `MCSaves`)

- **Conflicts**: the ledger of one device: what both sides agreed on, conflicts with their two sides, resolution,
  acknowledgement and forced transfers, under emulators and peers that write at any time. An operation is one step,
  since it holds the lock and refuses what changed under it; a decision may be older than what it is applied to.
- **Containers**: one memory card shared by devices; merge domains with baselines of their own, and the fallback to the
  whole file. A sync is one step, for the same reason.
- **MemoryCard**: a raw PlayStation card: chains of blocks, what the emulator writes, what SaveSync accepts and rebuilds.

A behaviour of `MCServices` or `MCSaves` runs one part, chosen initially, and leaves the others in one of their initial
states: they share no state, so nothing is lost by not interleaving them, and a run can check the whole collection.
`MCSaves` repeats Mounting, Manager and Browser on smaller instances, under fairness, for what must eventually happen.

### Proof modules

`SaveTransaction_proofs`, `CommitProtocol_proofs`, `SharedIndex_proofs`, `Downloads_proofs`, `AutoSync_proofs`,
`Cache_proofs`, `Manager_proofs` and `Update_proofs` each EXTEND the component's module; the other `MC` modules only give constants a
value or a symmetry set.

## 3. What the runs check

Every run explores its whole state space. The constants named below are the only bounds; each bounds a
guard of an action that a user, an emulator, a peer or the environment takes, never a step of the program.

| run | bounds | properties | what it shows |
|---|---|---|---|
| `SaveTransaction_owned` | two views of one path, two contents, two operations, one emulator write, one fault | `TypeOK`, `OutcomeHonest`, `SaveNeverLost`, `ThirdVersionKept` | all views or none, receipts durable and true, replaced content survives, unplanned saves are not overwritten |
| `SaveTransaction_legacy` | one operation, two writes, one fault, unowned dataset, fairness | `StuckOnlyIfBlocked` | recovery stays stuck only behind a save it must not overwrite |
| `CommitProtocol_calm` | two devices, two groups, three saves, four operations, no fault and no Full Sync, fairness | `TypeOK`, `NoProgressLost`, `IndexHonest`, `PublishedNeverRegresses`, `SavesShared`, `Converges` | no save lost, index and payload agree at rest, nothing published regresses, index and payload implement `SharedSaves`, devices converge |
| `CommitProtocol_faults` | two devices, one group, three saves, three operations, one Full Sync, one fault | `PublishedOnce`, `FullSyncRepairs` | an interrupted commit is published once; a Full Sync that ends repairs |
| `CommitProtocol_lost` | one fault | `NoProgressLost` (violated) | finding: recovery outside the lock loses a save |
| `AutoSync_pass` | two games, one without provable identity; two writes, two launches, one fault, fairness | `NothingForgotten`, `PassesCareful`, `SyncProceeds` | local work is remembered and drained, conflicts of hooks are queued, nothing unseen is replaced, a launch goes on |
| `Cache_pass` | two processes, three games of which two share a file, two requests, one command, one fault, fairness | `BudgetKept`, `CachedPlayable`, `EveryRequestEnds` | quota and reserve kept although an admission reads one figure after another, bytes counted, no game loses another's files, every request ends |
| `Containers_conflict` | one card, two devices, no fault | `ConflictMeansBoth` (violated) | finding: a conflict although nobody else touched the card |
| `Downloads_pass` | two games, two items, two manager starts, three further moves, fairness | `TypeOK`, `QueueHonest`, `RunsHonest`, `QueueMoves` | Offline is quiet and lifted again, no row is orphaned and the queue moves as long as the worker thread lives, runs end as asked, discards spare transfers |
| `SharedIndex_pass` | two devices, one layout of two groups, two writes and one by an older client, one fault, two passes | `ReadersHonest`, `PublicationsGrow` | readers are never torn, no change is overlooked but by named routes, generations only grow |
| `Services` | fourteen parts, see below | twelve, one to each service | the promises of the services, under interleavings, failures, crashes and restarts |
| `Saves` | six parts, see below, fairness | `ConflictsKept`, `CardsKept`, `WorkEnds` | conflicts, shared cards and rebuilt cards; workers, starts and closings end |

The parts of `Services` and `Saves` are instances, and their bounds are in the `INSTANCE ... WITH` of `MCServices` and `MCSaves`:

| part | instance |
|---|---|
| mounting | two workers and two targets, one attempt, one event of the network or a user (one worker in `Saves`) |
| manager | three servers, two requests, two events (two servers in `Saves`) |
| browser | two tokens, two codes, two launches, one event (one token and one code in `Saves`) |
| library | one game, two devices, one of them Connected, two runs, one event, two images |
| mode | one game, two processes, two runs, one fault, one event |
| catalog | a cue sheet, its track and a game in a folder; three runs, one mishap |
| update, removal | three releases and three updates; two removals, one fault |
| setup | two setups, two remotes, two faults, one event |
| wizard | two hosts with a key each, one folder, two choices, two texts, one stray answer; a SaveSync setup over SFTP or SMB |
| google | two processes, two accounts, two tasks, one fault, one event |
| startup | three boots, two installations, two starts, one fault |
| journal | two devices, two files in groups and layouts of their own, two edits, a history of one entry, one fault |
| direct | one route, four saves, two runs, one fault |
| conflicts | one group of two files, three edits, one forced transfer |
| containers | two devices, two domains, three edits, one fault |
| card | four blocks, two names, three writes of the emulator |

**Why the bounds are enough.** The hazards are races of two actors, or one fault at the worst place. Two
views show every partial promotion, since a further view is treated as one of the two; two operations show
what the leftovers of one do to the next. Two devices and three saves give a plan made before, and carried
out after, a peer's commit. One fault lets every step be the last; a second fault was tried for the safety
properties, and what it adds is listed in section 6. In `SharedIndex` two groups in one layout are needed
for a watermark of the layout to hide one group behind the other, and three generations for a name to be
drawn twice. In `Cache` the sizes and the quota are chosen so that any two unrelated games overflow it, the shared
file is the larger part of its games, and `Lag` is two units, so that a reservation really lags behind. In
`Downloads` three moves spent in any mixture give a stop, its resumption and a mode change, or a mode change,
its failure and the failure of its rollback. In `AutoSync` the two games let a session of one overtake the
pass begun for the other, and the two writes make a conflict, which a third cannot make again. The services are
sequences cut short once and begun again, or two processes over the same file; a larger instance of each was
tried alone while it was written.

**Fairness.** `SaveTransaction` and `CommitProtocol` assume, for their liveness properties, weak fairness of the steps of an
operation that has begun (they are consecutive statements of one thread) and of beginning one (the menu
loop and the end of each game invoke SaveSync again). `Cache` assumes weak fairness of each process's
steps, since asset locks, like the admission lock, are kernel locks that their waiter gets once they are
free for good; nobody is assumed to request, launch, pin or fail. `Downloads` assumes that the worker
thread runs and its transfers end (the providers time out), that a mode change which has begun goes on, and that
another program lets go of a game it has locked. `AutoSync` assumes that the hooks, the menu loop and its follow-up
run, that players end their games, and that they answer, or put off, what they are asked.
`Saves` assumes that a mount worker, a server, a start (past its lock) and a stop take their steps and that the kiosk
browser polls; only entering the start lock is given strong fairness, since other starts take it again and again and the kernel
serves its waiters. Deadlock is not checked: when the bounds are used up and nothing is under way, the system rests.

**Findings.** The two violation runs each contradict a sentence of the repository, quoted in `PROJECT.json`. Recovery restores
remote files without the lock that commits are made under (`saves.py:1940` against the head of
`savesync_commit.py`), and so a peer's newer save can be lost. The first copy of a card leaves no logical
baseline (`saves.py:4312`), so the next change of the only device that plays is reported as a conflict although the
README promises one only where both sides changed. What else the model shows against a sentence of the repository is in section 6.

**Known routes.** A property that holds only outside a named route says so in its comment. The routes are history variables or
predicates, and part of what the model shows. `NothingOverlooked` names three ways a change escapes a watermark
(`missed`), `DivergenceSeen` one in which a commit hides an older client's write (`masked`), and
`EveryByteCounted` four in which bytes leave every account (`stray`): a manifest discarded with its
promoted file in place, a damaged file recorded as missing, an unpin in the first moments of a transfer,
and the removal of the one game that had recorded the size of a shared file. `SuspensionLifted`, `OfflineQuiet`
and `QueueMoves` name one (`stranded`): a switch to Offline that gives up waiting for the manager, or is
killed, leaves the queue suspended although the device stays in its mode, until the mode is chosen again or
the manager restarts. `WithinQuota` can fail only
after one of these, when a file is damaged under a transfer that counts on it, or when an admission missed bytes by reading in sequence (`overlooked`): a
transfer wrote after the staging directory was measured and ended before the reservations were read, or a manifest was discarded between the
finished sizes and the staged ones. TLC reaches the first within the bounds; the second needs a third request, and the theorem covers it.
`ReserveKept`, which reads the disk last, survives all but the damage. `NoOrphanRow` and `QueueMoves` except a worker thread that an exception
of its own handler has ended (`download_manager.py:500` and 518): its row stays in flight and the queue stands until the manager restarts.
`OutageAnnounced` names three (`dropped`): the callback failed, another worker that had read the file before replaced the record,
or the record could not be written, and then the outage is still on file for the next worker.
`ShownAsStored` names one (`Forgotten`): the first call to the manager, for Offline, timed out, and downloads stay suspended in another mode.
`FailedIsUnchanged` leaves out the renames that nothing rolls back, after which nothing may be installed, and says of a server that does
not start that the update is reported as failed although it is installed; `ManagerReturns` names the same failure, `UiThere` a
rollback of the interface that is only logged. `LeftIsReported` names the presentation and the media, of which no stage
is recorded without the catalog (`PassedOver`), and the links, called absent without their manifest (`CalledAbsent`). `ClaimedWasEmpty` names the
cache inside an owned home (`Unlooked`) and what is put into an empty cache while the setup runs (`FilledMeanwhile`). In `AutoSync`, `Remembered` names two (`escaped`: a save that never settles before the
hook gives up, and a power failure before the hook has recorded it), `Prompted` four (`silent`: a conflict met in the background,
by a hook that failed, or before a power failure, and one the player put off), and
`SessionsRespected` one (`raced`: a game launched between a background pass's last look at the sessions and its promotion).
`ChangesFound` names the holes of the journal, `SetupHonest` the crossing of two processes of one Google account.

## 4. What is proved

Eight modules hold twenty-four theorems. Each holds for every set of devices, games, groups, views, paths and items and for every value of
the bounds; nothing is assumed but the named assumptions on the constants (the absent value is not a value, a
device called nobody is not a device, every group has a layout, processes, games and assets are finite in number, bounds are
numbers). TLC checked each
inductive invariant on the small instances before it was proved.

| theorem | states | of |
|---|---|---|
| `SaveTransaction_proofs.TypeCorrect` | `[]TypeOK` | the save transaction |
| `SaveTransaction_proofs.ThirdVersionSafe` | `ThirdVersionKept` | the save transaction |
| `SaveTransaction_proofs.SaveSafe` | `[]SaveNeverLost` | the save transaction |
| `SaveTransaction_proofs.AlwaysHonest` | `[](Publishes => OutcomeHonest)` | the save transaction |
| `CommitProtocol_proofs.TypeCorrect` | `[]TypeOK` | the commit protocol |
| `CommitProtocol_proofs.FullSyncAlwaysRepairs` | `FullSyncRepairs` | the commit protocol |
| `CommitProtocol_proofs.NeverPublishedTwice` | `[](fulls = 0 \/ faults <= 1 => PublishedOnce)` | the commit protocol |
| `CommitProtocol_proofs.CalmKeepsProgress` | `[](Calm => NoProgressLost)` | the commit protocol |
| `CommitProtocol_proofs.CalmIndexIsHonest` | `[](Calm => IndexHonest)` | the commit protocol |
| `CommitProtocol_proofs.CalmNeverRegresses` | `[]Calm => PublishedNeverRegresses` | the commit protocol |
| `CommitProtocol_proofs.CalmImplementsShared` | `[]Calm => SavesShared` | the commit protocol, refinement of `SharedSaves` |
| `SharedIndex_proofs.ReadersAreHonest` | `[]ReadersHonest` | the shared index |
| `SharedIndex_proofs.PublicationsOnlyGrow` | `PublicationsGrow` | the shared index |
| `Downloads_proofs.TypeCorrect` | `[]TypeOK` | the download queue |
| `Downloads_proofs.QueueIsHonest` | `[]QueueHonest` | the download queue |
| `Downloads_proofs.RunsAreHonest` | `RunsHonest` | the download queue |
| `AutoSync_proofs.NeverForgets` | `[]NothingForgotten` | Automatic SaveSync |
| `AutoSync_proofs.PassesAreCareful` | `PassesCareful` | Automatic SaveSync |
| `Cache_proofs.FinishedAreCached` | `[][FinishedIsCached]_vars` | the cache |
| `Cache_proofs.StaysPlayable` | `[]NoBareRemoval => CachedPlayable` | the cache |
| `Cache_proofs.UnsharedStaysPlayable` | `Unshared => CachedPlayable` | the cache |
| `Cache_proofs.BudgetIsKept` | `[]BudgetKept` | the cache |
| `Manager_proofs.ServersAreHonest` | `[]ServerHonest` | the library server |
| `Update_proofs.UpdatesAreSafe` | `[]UpdateSafe` | software updates |

**Save transaction.** `TypeOK` is inductive as it stands. A step that overwrites a target acts on a check made one
step earlier; `WindowInv` says that what was checked still holds unless an emulator wrote in between,
which the history variable `raced` records. That is the whole window, and `ThirdVersionKept` allows nothing more.
`SaveNeverLost` alone is not inductive: whether the old content of a
target is kept depends on how far finalisation or rollback has come. `LossInv` adds, for each phase, where
the snapshot of a view is (`AllGuarded`: in the candidate directory, in the stable history, or in the
untouched live files), that nothing was touched before the journal says so (`NotYetTouched`), that
finalisation has already installed the views it counts as done (`FinalizeInv`), that a rollback has
verified those it counts as restored (`RestoreInv`), and that cleanup only starts when either holds
(`CleanupInv`). For `OutcomeHonest` on a dataset that publishes an index, `HonestInv` adds that the receipt of an operation is
written only when every view is verified and the publication is done (`ReceiptInv`, `PublishInv`), that nothing rolls back after the receipt
(`DoneInv`), and what each end of the operation has left in place (`ResultInv`). It holds for any number of faults, while TLC's run has one.

**Commit protocol.** Who is past the lock holds it (`LockSound`), and a Full Sync that has rescanned and rebuilt still holds what it
wrote (`RepairSound`). For publication: identities are drawn once (`IdsSound`), an intent in the file belongs to an operation
that is published at most by whoever resolves it (`IntentSound`), and `OnceSound` says at each step which identities can still be
published. With a Full Sync and two faults `PublishedOnce` is false (section 6), and the theorem's hypothesis is exactly what the
proof, and TLC, need.

**Commit protocol without faults.** `Calm` says that no Full Sync was made and no step failed so far; no number of devices, groups, edits
or transactions is bounded. With one fault `NoProgressLost` is false (the run `CommitProtocol_lost`), so the hypothesis is
needed. `NoProgressLost` says that a version survives *somewhere*, which is not inductive: what matters is who may overwrite the
copy. `Own(d, g, v)` says that the save of device `d` contains `v`, and neither its baseline does nor what it is downloading.
`OwnSound` says that a version is one device's own at a time, and part of the payload as well only while that device is uploading it (or its
journal is stuck); `Held` that the payload or an owner has every version. To keep these, a transaction must replace only what it was
planned on: `PayloadSound` gives the payload of the groups an operation uploads at each of its steps, `LocalSound` what the save of each
group was made on top of (the side the transaction has put there, or a save written since, which is newer than both), `TxSound` relates the
plan to the baseline, and `CauseSound` says why and when something is rolled back. One thing goes wrong without a fault: a
save written into a download half done makes a third version, and the journal stays (`StrandedSound`; `Blocked` in
`Converges`). A version written while a rollback is about to restore its file is counted in `raced`, as in
`SaveTransaction`. `IndexSound` says that the index differs from the payload only where an upload is under way or such a journal was
left, and that an intent belongs to the operation that holds the lock.

**The refinement.** `CalmImplementsShared` takes every step to a step of `SharedSaves` or to none, by the same invariant. A promoted save is `Offer` because the
promoter holds the lock and the index still tells what it replaces (`IndexSound`), and because an upload was made on top of what was scanned
(`TxSound`); what is restored is what the index tells, hence `Withdraw`; and what is published is what the payload holds, by `PayloadSound` for an
operation's own publication and by the comparison of `Landed` for one that a later device finishes. A pending save that nobody will publish
(a stuck journal without an intent) stays pending: `Offer` is then refused to everybody, as the comparison of the index with the payload refuses it.

**Shared index.** `TypeOK`, `NothingOverlooked`, `FastPathHonest` and `DivergenceSeen` are what is wanted; that they are preserved needs what HEAD
points at and what a lost HEAD leaves behind (`HeadSound`), that operation numbers and generations are drawn upwards (`OpsSound`,
`NothingAhead`), what the one publication under way has written so far (`PubSound`), what a pass has compared
(`PassSound`, `CompareSound`), and that a watermark names a generation that was published and covers only what was compared
(`WatermarkSound`).

**Download queue.** `WorkerSound` ties the worker's place to the row it runs, `RowsSound` the rows to each other (it needs the unique index over
active rows of one game, which the schema has), and knows whether the thread still lives: after `Raise` it leaves its row in flight and never returns, and the
next manager takes it up. `StopSound` ties the stops to what was asked since the run began, and `SwitchSound` and
`ModeSound` follow every route of a mode switch, with its rollback and with a manager that restarted in between, to what the latch
may be when the switch has ended.

**Automatic SaveSync.** One process at a time plans and applies (`LockSound`); `FrontSound` says where the hook is when the
frontend is somewhere and which sessions are marked. A save that differs from its baseline is pending, in
conflict, or of a session that is still to be heard (`ChangeSound`). A plan can be stale for one reason only: the emulator wrote, and
then the session of that game is open and the drain of its stop will settle it (`StaleSound`, `FreshSound`, `DrainSound`).
For the prompts: a content is the number of a write, so of the two sides of a conflict the one that is given up never returns, and what a
hook meets for the first time is new to the queue (`ConfSound`, `PlanSound`, `BeforeSound`, `PromptSound`). `RaceSound` describes the one
window in which a pass may touch the save of a running game.

**Cache.** The asset locks carry it: a process that transfers, evicts or removes a game holds the lock of everything the game needs
(`LocksOf`). So what a transfer has dealt with is in place or about to be promoted (`ProgressOf`; staged files that are done are whole ones,
`FilesSound`), and the game it works for keeps its members unless bytes went uncounted (`EntryOf`). The proof of a step falls in two: what a process does
keeps its own part, and it spares the files others have locked and the members of the games they work for
(`FilesSpared`, `MembersSpared`), so theirs is kept as well, whoever they are (`SparedKeeps`). A file a cached game needs is then deleted only if
every owner is the game being removed, or if that game has no members. The last case is real: `_remove_files` deletes an entry
without members by its `cache_path` and does not count owners (`cache.py:1043`). `NoBareRemoval` leaves
exactly this case out, and where no game is launched by a file that another one needs, as in the run, it does not arise (`Unshared`).
Playlists whose discs are games of their own are outside `Unshared`; `FinishedAreCached` needs neither.

**The budget of the cache.** `BudgetKept` compares sums over processes and over assets, and no step sees more than one term of
each. The invariant therefore relates three amounts for each transfer (`LeftOf`): what it has still to write
(`ToCome`, of the assets it owes, `Owing`) is at most `left`, the figure `consume_growth` counts down, and that is at most its
row in the database, which follows it at a distance; before admission the amount asked for covers the same claims (`NeedOf`, from
`_needed_bytes`). `Peak` is what the files grow to if every admitted transfer writes all it owes. Copying moves bytes from what is to come to
what is there, a cut is reserved first, a promotion moves bytes from one directory to the other, and a step of one process leaves the claims of
the others alone, because the assets are locked (`SparedClaims`); so `Peak` can rise in one step only, `Admit`, and there `_fits` has compared the limit with what it has read and the new request. What it has read is older than the comparison, and the three figures are of three
moments. `Window` is what stays true from each read to the next whatever the other processes do: after `ReadFinal`, the finished bytes that no manifest covers
(`Bare`) are at most what was read; after `ReadStaging`, the peaks of the transfers that have not written since (`PeakOf`) are at most what was read plus the rows
of those that have (`unseen`); after `ReadReserved`, what is still to come is at most the rows that were read, and the whole `Peak` at most both together.
Other processes only move bytes from one term to another or give claims up (`ReachFalls`, `PendingStays`, `ComingFalls`, `BareFalls`), and
one that has written and left before its row was read is what `overlooked` records. So at `Admit` the sum is at least the new `Peak` (`AdmitPeak`).
Two halves of `_fits` make two bounds: the free space is read from the disk, while the quota goes by the accounts, and `Accounts` and
`PhysicalCounted` show that these see every byte on the disk as long as none went astray (`EveryByteCounted`, which needs that no file is larger
than its source and that a transfer works only on files with a manifest, `MediaSound`, `CopiedOf`). A sum is stated as the number of units of a set, so that the lemmas about sums (`TotalMono`,
`TotalSplit`, `TotalJoin`, `SumOfSums`) follow from maps between finite sets. A file another program damages under a running transfer is
not in any row; `unplanned` names that. It is a hypothesis of `WithinQuota` and of `ReserveKept`, `overlooked` one of the former only.

**Library server.** The instance lock leaves one server that may publish, so the file is taken from one that serves only by a stop that
had read an older file: the process a stop has waited for is gone and its pid is not given away before the stop ends, and what the file names
when it is unlinked is that pid or was published since (`StopSound`, `KnownSound`). While nothing but requests happens, the one server that is
alive is on its way with a request polling for it, or it is ready and the file names it (`CalmSound`).

**Updates.** Where the old and the new environment are is a function of the step (`AtStep`), how an update ended is remembered until the next
begins (`AtEnd`), and what an update finds is as honest as what it leaves (`FoundHonest`), which is what makes a chain of failures safe.
The interface is in its place or moved away for the length of the swap, unless the power went, the child was killed or the swap could not be
undone (`UiSound`). Which of the failures that nothing rolls back an update met is history (`faults`), and the statements name them.
`Manager` and `Update` state their assumptions on the constants as definitions, which are hypotheses of these two theorems and evaluated by `MCServices`.

Proving changed the model in three places where overlapping cases of a definition had left a value open (`Fail` in `Downloads`,
`State` in `Setup`, `Decision` in `AutoSync`); they are now written so that the order of the code decides.

## 5. What is only model-checked, and what is not modelled

Out of TLAPS's reach, and left to TLC: liveness under fairness (`StuckOnlyIfBlocked`, `Converges`, `SyncProceeds`, `EveryRequestEnds`,
`QueueMoves`, `WorkEnds`), `ENABLED`, and induction over data (`MemoryCard`'s chains of blocks).

Not proved: the parts of `Services` and `Saves` other than the library server and the updates.

Not modelled: diagnostics and the command line (they keep no state), the byte formats of saves and cards and the tables of save
paths (pure functions), parsing, validation of single fields and encryption, the first installation and the repair (each
file is written once), the pages of the web interface, the progress figures and the pruning of the download
history, the transfers of providers (steps that may fail in the modules that use them), and, of the Google account,
owned uploads and downloads, which nothing calls yet, and other devices of the same account.

## 6. Known limits

What the model shows and no passing run claims. Where a definition is named, it is in the module, and TLC finds it violated
on the instance of section 3.

**Saves on one device.** With two faults, a crash in the
middle of a rollback that began after the receipt leaves the mixture of old and new in place
(`AllOrNothing`), because recovery takes the receipt for completion; this too only on an unowned dataset
(`AlwaysHonest` proves the contrary for an owned one). On an unowned dataset a receipt is
written before the journal append that may fail and take it back (`ReceiptMeansKept`), and a crash
during cleanup after that leaves a receipt for an operation that was undone. What was published may be rolled back
by the device that published it (`PublishedKept`).

**Saves between devices.** A Full Sync that dies before it clears the intent, and a second fault, let one operation be
published twice (`PublishedOnce` without the hypothesis of its theorem). A shard name written by a failed publication is taken for ever, and
after HEAD is lost a rebuild meets names already taken (`FullSyncRebuilds`). In `JournalSync`, a device's own append moves its
cursor past entries it has not read (`saves.py:5356`), a batch of known and unknown groups or a narrow scope
misses files that only the remote has, active groups are filtered while the cursor advances, and a journal rebuilt after
corruption starts again (`NothingOverlooked`); and `_reconcile_once` clears the hints of layouts it did not compare
(`saves.py:5154`, against the comment at 5166). After a sync an open conflict may still name sides that are no longer there,
so that its answer is refused until a later sync (`SyncRefreshes`, `saves.py:1137`).

**Automatic SaveSync.** A popup that shows a conflict which a background pass has replaced cannot be answered and does not close
(`PopupEnds`, `savesync_conflict_popup.py:228`); a gameStop that fails before its detection leaves the change to
its marker alone (`PendingRetained`, `auto_savesync.py:882`); a pass may promote into the save of a game launched a moment
ago (`SessionUntouched`).

**Cards.** When a whole-file sync has made both sides equal, the logical baseline may still be that of an earlier state (`BaselineIsLast`,
`saves.py:4422`).

**Cache and downloads.** Protection of running launches is in the memory of the process that launched, and other processes evict
(`ProtectedNotEvicted`). An entry whose transfer failed before its members were recorded is removed by the file that launches it,
even when another cached game needs that file (`OthersKept` on an instance outside `Unshared`, `cache.py:1043`).
The requests of the download queue promise less than their answers suggest: a pause or cancel that arrives in
the last moments of a run is accepted and forgotten, a mode change or a shutdown overrides a cancel that was
accepted before it, and a discard that has been decided removes the staged bytes of an item that was resumed
meanwhile, unless it is transferring already. A failure to release the reservation after finalisation turns
a complete item into a failed one, whose retry finds the game cached. When the source is down and a run without recorded members is stopped, or fails while downloads are blocked, the
handler raises and the worker thread ends: the row stays in flight and the queue stands until the manager restarts (`download_manager.py:500`, 518).
`Downloads` has all of these steps. An admission adds up figures of different moments, so that a transfer that wrote and ended in between, or a
discard, may let the next one exceed the quota by what they left behind (`cache_coordination.py:323`; the trace of `Cache` without
`overlooked` in `WithinQuota`). A removal that is cut short between the discard of the manifests and the files leaves promoted bytes
that nobody counts (`cache.py:668`).

**Services.** Two mount workers can run, when both take a stale lock for theirs (`OneWorker`), and a worker asked to stop may mount
once more (`StopSticks`). A stop may leave a server that was not ready yet (`NoOrphan`). A refresh that crosses a mode switch shows
games that are not cached while Offline (`OfflineOnlyCached`). An update that fails may leave another
interface than it found (`FailedKeepsUi`), none, when the rollback of the swap failed (`install.py:311`), or no program at all, when the rename of the rollback failed
(`update.py:893`); and one that is installed and recorded is reported as failed, and its server stays down, when the server cannot be started
(`update.py:936`). A switch to Offline whose first call to the manager times out leaves downloads suspended in the mode that stays
(`game_access.py:850`). An outage may go unannounced, when its callback fails, when two workers rewrite the record (`mount_worker.py:691`). A removal that is repeated after the
data root went says nothing of the presentation and the media, and calls the links absent (`manage.py:1004`, 1149). A setup claims for deletion what was put
into its empty cache while it ran (`setup.py:1141`), and a cache inside the home whatever it holds (`setup.py:833`). A setup cut short between its writes leaves a configuration without
baseline, or with that of another dataset (`ConfiguredMeansComplete`, `BaselineFits`); its restoration writes in
place, though configuration is promised to be replaced atomically, and the check of a read-only mount does not compare the server. An
installation cut short between the service script and its mark is never announced; a change made while an older notice is pending may be cleared
on the boot it was made in (`ClearedLater`). In `DirectSaves`, an equal shadow stays behind when the local directory is not empty, and a remote newer than an equal
pair refuses every later run; at boot that refusal keeps the manager from starting.

**Wizard.** Confirming the last page while a setup runs starts a second one (`OneSetup`). Going back from the
review of a SaveSync-only form leads to a page whose choices setup refuses, an SMB or SFTP choice made after another one may keep that
one's path or index (`FormsFit`, `FieldHasPage`, `OwnMountPoint`), closing by touch leaves the keyboard open, and the fingerprint stays when the server
is changed (the backend's pinned check still refuses it).

**Google.** Two processes of one device hold no lock: they can create two folders, after which another device is refused, and a refresh begun
with an older token may overwrite, or on a refusal clear, a newer sign-in. After signing in with another account, the identity of a
folder of the first blocks every validation until the file is removed; a trashed folder is refused until the trash is emptied; a probe
whose upload takes effect late is reported as cleaned. Listings are assumed consistent.

## 7. Plan

All modules of the plan are written; what is left is proof.

1. `OperatingMode`, `Removal` and `Setup`: `ModeShown`, `RemovalSafe` and `SetupHonest`, as theorems of the parts.
2. The weaker register that a fault or a Full Sync still implements: the payload may then leave the index for an older version, or for one made on top of a pending save.
