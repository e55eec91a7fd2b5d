# A TLA+ model of Elysia Panel

Elysia Panel manages game servers: a NestJS Backend over PostgreSQL, a Go daemon (Elysia Node) on every
machine that runs game containers, and a Next.js Dashboard. This directory holds a specification of it, the
TLC configurations that check it on small instances, and proofs that TLAPS checks for every size.

To check: `tlc -config MCServerFleet.cfg MCServerFleet` and likewise for the other `.cfg` files
(`MCServerLifecycleDelete.cfg` goes with `MCServerLifecycle`); `tlapm X.tla` for each `XProofs` module.

## 1. The system

| Component | State it keeps | Operations that change it | Talks to | Module |
|---|---|---|---|---|
| `servers.service.ts`: placement | `servers`, `network_allocations`, counters of `nodes` | create, delete, addAllocation, removeAllocation | PostgreSQL; NodesService for the choice of a node | ServerFleet |
| `servers.service.ts`: life cycle | `servers.status`, `servers.suspended` | provisionOnNode (detached), powerAction, suspend, unsuspend, reinstall, delete | daemon, by gRPC | ServerLifecycle |
| `servers.service.ts`: settings | fields, ports and sub-users of a server | update, sub-users, allocations, reinstall | daemon; the settings page | ServerSettings |
| `nodes.service.ts` | `nodes` (status, maintenanceMode, capacities, counters) | create, setMaintenance, healthCheck, delete | daemon's Ping | ServerFleet |
| `node-client.service.ts` | gRPC clients by node id | call, streamCall, ping | daemon | as calls of its users |
| `console.gateway.ts` | per socket, the cancel functions of its streams | connect, subscribe, unsubscribe, command, disconnect | ServersService, streamCall | ConsoleGateway |
| `socket.ts`, console and statistics panels | one socket of the client, what is mounted | mount, unmount, send, reconnect | gateway | ConsolePanel |
| daemon `grpcserver`, `dockermgr` | containers and networks; the attached stdin of each container | Create, Start, Stop, Restart, Kill, Delete, ReinstallServer, SendCommand | Docker engine | ServerLifecycle, GameContainer |
| entry points of the images | the game in the data directory | install, launch | download sites | GameContainer |
| daemon `backupmgr` | archives on disk or in a bucket | Create, Restore, DeleteBackup | file system, S3 | Backups |
| daemon `filemgr`, `sftpserver` | a directory per server; SFTP sessions | write, mkdir, rename, delete; login | file system; Backend for SFTP logins | ServerFiles |
| `auth.service.ts` | `users`, `refresh_tokens`, recovery codes | register, login, OAuth, refresh, logout, change of password, 2FA | Dashboard | Sessions, Accounts |
| `users`, `roles`, `api-keys`, guards, `seed.ts` | rows of the same name | CRUD, suspend, ban, reset of a password, revocation | every route | Accounts, Sessions |
| `api-client.ts`, `auth-context.tsx` | the pair of tokens in the browser | request, refresh after a 401, refreshUser, logout | Backend | Sessions |
| `backups.service.ts` | `backups`, and the status of the server | create (detached runBackup), restore, delete | daemon | Backups, ServerLifecycle |
| `scheduled-tasks.service.ts` | `scheduled_tasks` | create, setEnabled, delete; runDueTasks every minute | ServersService, BackupsService | ScheduledTasks |
| `billing`, `stripe` | products, plans, subscriptions, invoices | checkout, webhooks, refund | Stripe | Billing |
| `mods`, `files`, `sftp-auth` | `installed_mods` | install, uninstall, packs, files page | daemon, Modrinth, CurseForge | ServerFiles |
| marketplace, support, templates, audit, monitoring | rows, or none | single statements | - | - |
| other pages, installer, CLI, SDKs | none | - | - | - |

What is hard in it:

* **Every handler is interleaved at its awaits.** A request reads a row, awaits the daemon or another
  statement, and writes. Only the transactions of `create`, `delete` and `addAllocation` group statements, at READ
  COMMITTED, and only the UPDATE of a node row serialises anything.
* **Two stores without a common transaction**: PostgreSQL says what a server is, Docker and the file system hold what
  it is. The daemon keeps no lock per server, so calls of two requests interleave inside it.
* **Detached work**: `provisionOnNode`, `runBackup` and the ticks of the scheduler outlive what started them and are kept nowhere.
* **Three ways to answer**: success, `Success:false` without a gRPC error, or a gRPC error. Most callers look only
  at the last, and no call has a deadline.
* **Crashes** of the Backend (open transactions roll back, calls are canceled), of the daemon (containers
  go on, calls end in errors) and of the game's process (Docker starts it again).
* **Deliveries** that are repeated, late or out of order: Stripe's webhook, the messages of a socket that reconnects, answers a browser no longer waits for.
* **Stale copies**: what a guard read, a form was filled with, an SFTP session was opened with, a container was created with.

`PROJECT.json` lists the hazards of the code with their lines and the properties that cover them.

## 2. The modules

| Module | Models | Composed of |
|---|---|---|
| `PlacementLedger` | abstract: what placement promises | |
| `ServerFleet` | placement, ports, node accounting | implements `PlacementLedger` |
| `ServerLifecycle` | one server, its requests, its container | |
| `ConsoleGateway` | sockets, subscriptions, streams | |
| `ConsolePanel` | the page and its sockets | extends `ConsoleGateway`: each of its steps is one of the gateway or leaves it alone |
| `BackupVault` | abstract: what the panel promises of backups | |
| `Backups` | rows, runBackup, archives | implements `BackupVault` |
| `GameContainer` | entry point, data directory, stdin map | |
| `SessionLines` | abstract: what the rotation of tokens promises | |
| `Sessions` | refresh tokens and browsers | implements `SessionLines` |
| `Accounts` | accounts, roles, keys, second factor | |
| `ServerFiles` | directories, mods, packs, SFTP | |
| `ServerSettings` | settings page, row, container's configuration | |
| `ScheduledTasks` | tasks and ticks | |
| `Billing` | Stripe's events, subscriptions, invoices | |

`MCX` instantiates `X`, `XProofs` proves about it. Three proof modules treat several components each: `ServerProofs` ServerLifecycle and ServerSettings, `PanelProofs` ConsoleGateway, ConsolePanel and ServerFiles,
`BackgroundProofs` Billing and ScheduledTasks; the names of ServerSettings, ServerFiles and ScheduledTasks (`SettingsNext`, `FilesNext`, `TasksNext`, ...) are kept apart from their companions' for that. Operators that a page or controller sends (`ServersPage`, `DangerZone`, `BackupsPanel`,
`AuthController`, ...) group the actions by who triggers them; the next-state relation reaches the actions through them.

### ServerFleet, PlacementLedger

State: one variable per column that matters (`present`, `status`, `maint`, `alloc` for a node; `host` for a
server; `rows` for `network_allocations`), the row lock of each node (`lock`), and per concurrent request what it
has read and where it stands (`req`).

| Action | Code |
|---|---|
| `CreateNode`, `SetMaintenance`, `HealthCheck` | the methods of NodesService, one statement each |
| `DeleteNodeCount`, `DeleteNodeRow` | `nodes.delete`: the count, then DELETE, which the foreign key of `servers` can refuse |
| `CreatePlace` | `servers.create` up to `findEligibleNode` |
| `CreateLock`, `CreatePort`, `CreateCommit` | its transaction: INSERT and UPDATE of the node (which locks its row), `allocatePort`, INSERT of the allocation and COMMIT |
| `DeleteRead`, `DeleteCommit` | `servers.delete`: the read, and after the daemon's answer the batch transaction |
| `AddRead`, `AddPort`, `AddCommit` | `addAllocation` |
| `RemoveRead`, `RemoveCommit` | `removeAllocation` |
| `Abort`, `Crash` | a statement or transaction that fails; a stop of the Backend |

PostgreSQL is modelled from the schema: unique index on (node, ip, port), `servers.nodeId` RESTRICT,
`network_allocations.serverId` SET NULL and `.nodeId` CASCADE. Ids are uuids: a node or server id is used once.
An allocation's uuid is its place plus a generation, the first that no request in flight refers to; this is enough to tell a row from the one a pending
removal read, and keeps the state finite. The status of a node whose row is gone is reset, a normal form without
meaning. What the daemon answers does not matter here: `delete` goes on whatever it says.

`PlacementLedger` is the abstract specification: servers appear with their address and their share of a node's counters in one step,
keep the address, and disappear in one step; a node leaves only when it is empty. The refinement maps `nodes` to `present`, `load` to `alloc` and
`place` to the host and primary port of each server (`Placement`).

### ServerLifecycle

State: `status`, `suspended`; per request its operation and step (`req`), the Docker calls its daemon call still has
to make (`todo`) and how it ended (`answer`); the `container` and its `network`; `faults`, the failures so far; `cut`,
whether a stop of the Backend or a database error cut a request short.

`Provision`/`Provisioned` are `provisionOnNode`; `Power`, `WriteStatus`, `Answered` are `powerAction`;
`Order` starts `reinstall` and `delete`, `Settled` and `Deleted` end them; `Restore`, `WriteStatus`, `RestoreInterrupted`,
`Settled` are the server's side of `backups.restore`; `Suspend` and `Unsuspend` are one UPDATE each. On the node,
`Plan` lists the Docker calls each gRPC method makes, `DockerStep` makes the next, `DockerRefuses` is the error
path (`Success:false`, except where `DeleteServer` ignores it). `Lost`, `DatabaseFails`, `BackendRestart` and
`DaemonRestart` fail; a canceled goroutine may still finish the Docker call it is in. "start" stands for restart: both write
STARTING and end with the container running. The image pull is part of "create".

### ConsoleGateway, ConsolePanel

State of the gateway: `conn` per socket, `cancels` (the map `socket.data.cancelStreams`), `owner` (which socket and key a
running stream emits to), `pending` (subscriptions in their access check). A subscription is two steps around the await: `Subscribe`,
then `Denied` or `OpenStream`. `Unsubscribe`, `Disconnect` and `StreamEnds` complete it. Keys stand for
`console:<server>` and `stats:<server>`, which share their code.

The page adds `current` (the module variable of `lib/socket.ts`), per client socket whether it tries, was refused and which connection it has (`phase`, `link`) and the
messages it has emitted that are not handled yet (`out`), and per key the socket its mounted panel listens on (`panel`). A socket that drops is connected again as a new
socket of the gateway; the panels subscribe on mounting only. `excused` and `raced` are histories of the reasons the properties name: a stream that ended or a
socket that was cut (`excused`), and an unsubscription or the end of a socket that passed while a subscription awaited its check (`raced`).

### Backups

State: `status` of each row, `remote` (its driver is a bucket); per process what it does (`req`), the next file operation of
its call (`work`) and how the call ended (`answer`); the archive on the daemon's `disk` and in the `bucket` (none, partial, whole);
`faults` and `cut` as above; `spoiled`, a history of the backups that were asked to be deleted, or restored before they were COMPLETED.

| Action | Code |
|---|---|
| `Create`, `BeginBackup`, `BackedUp` | `create`, and `runBackup` before and after its call; its two catch paths are in `BackedUp` and `DatabaseFails` |
| `Restore`, `BeginRestore`, `Restored` | `restore` at its three awaits; the daemon's success flag is not read |
| `Delete`, `Deleted` | `delete` |
| `OpenArchive`, `CloseArchive` | `Manager.Create`: a failed walk removes the file, a failed close leaves a part |
| `PutObject`, `DropCopy` | the rest of `CreateRemote`; `DropCopy` is also the deferred remove of `RestoreRemote` |
| `GetObject`, `Extract` | `RestoreRemote` and `Restore` |
| `RemoveFile`, `RemoveObject` | `Delete`, `DeleteRemote` |
| `ServerDeleted` | ON DELETE CASCADE of `backups.serverId` |
| `Lost`, `DatabaseFails`, `BackendRestart`, `DaemonRestart` | failures |

Local file operations do not look at the context of the call, so a call nobody waits for goes on; those on the bucket do, and may be
refused once it is canceled. A bucket that cannot be configured is one that refuses. SFTP and FTP are stored locally by
`isRemoteDriver`, so they are LOCAL here.

`BackupVault` is the abstract specification: a backup shows as kept only when its archive is whole, stays shown and whole until somebody releases it, goes when it was released or its server is deleted, and never
comes back. The refinement maps `shown` to the status (PENDING and IN_PROGRESS are busy, COMPLETED and RESTORING kept), `whole` to the archives that are whole where their driver keeps them, `released` to `spoiled`. Calls, files and
copies have no counterpart: a restoration, whatever becomes of it, is no step of the vault.

### GameContainer

State: the environment of the container (`config`: TYPE, FORCE_REDOWNLOAD, EULA), whether Docker restarts the process (`wanted`), where the entry point stands
(`proc`), the launchable files of the data directory with the type they belong to and whether they are whole (`files`), the daemon's map entry (`stdin`) and its calls. `Boot`, `Fetch`, `Install`,
`Launch`, `Refuses` follow `entrypoint.sh` line by line where a file appears: curl writes `server.jar` in place (`InstallDirect`), the Fabric and Quilt installers are moved in place
(`InstallLauncher`), Forge and NeoForge make `run.sh` (`InstallScripted`), Bedrock unpacks an archive (`InstallArchived`). `Exits` and `AutoRestart` are the
process ending by itself and the restart policy. `Attach` and `Store` are the two halves of `attachStdin` around the mutex.

### Sessions

State: the account (its password by number, its status), `refresh_tokens` in the order of insertion with the token each came from, the pair in each browser's localStorage, and per request its kind and
phase. `Compare`, `Check`, `Revoke`, `Insert`, `Write`, `Sweep` are the statements of login, refresh, changeOwnPassword, resetPassword, suspend and ban; `RefreshExpires` is the end of a token's seven days, and
`RevokeSession` the logout. On the browser's side `Unauthorized` is the 401
that makes `tryRefresh` read the token in the store, `Reply` and `Refuse` its end, `Throws` the error that makes `refreshUser` clear the pair. `AnswerLost` and `BackendStops` fail.

`SessionLines` is the abstract specification: a login opens a line of tokens with one that is good, a refresh hands the line on in one step, a revocation ends good tokens, and nothing makes one good again. It maps `issued` to the
number of rows, `good` to the live tokens and those that a request past its check is about to replace, `forked` to the history `raced`. The step of a refresh is then its last statement, `Insert`; `Revoke` and `Sweep`
are none for a token that a request still holds, which is how a refresh survives the revocation that passes between its statements.

### Accounts

State: the role of each user, the roles an administrator edits, API keys, the second factor of one user, and per request what it has read. `Count`/`Create` are the two statements of `register`;
`OAuthLogin` creates without counting; `SessionRequest` and `KeyRequest` are the guards, whose list of permissions a handler uses and nobody reads again; `EnableCheck`/`EnableWrite`,
`DisableCheck`/`DisableWrite`, `LoginCheck`/`LoginWrite` are the handlers of the factor around their awaits; `SeedDelete`/`SeedCreate` the statements of the seed. `SetPermissionsTogether` is two replacements of a role's
permissions at once, which at READ COMMITTED may leave the union of both lists. A key may hold the wildcard, if an administrator gives it. users.* and roles.* are one permission, "manage".

### ServerFiles

State: the tree below the data directory of one node (`files`, `dirs`), rows of InstalledMod, requests of ModsService, the permissions of one sub-user and his SFTP session. `Resolve` is `filemgr.resolve`:
paths are sequences of names, `..` included, cleaned before they are joined; `Clean` (external, Go's `filepath.Clean`) walks the names from the first to the last. `WriteJar`, `UpsertRow`, `DeleteJar`, `DeleteRow` split installation and removal at their awaits; `WritePackFile` writes the next file of a
pack and `ReportPack` answers; a Modrinth pack stops at the first failure, a CurseForge pack skips a mod it cannot download. `Uninstall` takes any row and any directory, as the API does: it finds the row by its id alone and does not
compare its server with the one of the request.
The history variable `loose` collects the paths whose absence the code does not promise to notice: a file the daemon refused, and what the page, SFTP, or an uninstall on behalf of another row removed (with all below it, when a
directory has the jar's name). `resolve` works on names only. Symbolic links, which the operating system follows when the daemon opens a path and which a game can make in its directory, are not modelled, so nothing is claimed here about
what the files page or SFTP may reach through one.

### ServerSettings

State: the row, its ports and sub-users, per page what it last fetched (`cache`) and what its form holds (`form`, filled when it is mounted), the configuration of the container, and reinstallations between their
read and their effects. An environment is a set of lines or variables, each with the way it is written. `TextToEnvironment` is what the form makes of its text: it drops the lines without "=" (`bare`) and those whose key comes again
below (`repeated`), and changes those it has to trim or to cut (`blanks`, and from the API a "=" in the key or a value of several `lines`) into what is left of them (`cut`). `Sent` is what the PATCH carries, where an empty description is left out.

### ScheduledTasks

State: the rows (exists, enabled, minutes left to `nextRunAt`), whether the minute's tick has come (`cron`), and per tick the tasks it listed and the one it executes. `Begin` lists the due tasks, `Execute` starts one, `Reschedule`
is the end of the loop body: it writes the row, or throws out of the loop when the row is gone. `ListFails` and `RescheduleFails` are the database's errors: the tick throws with no list, or with a next run that it did not write, or wrote and
does not know of. `Minute`, `ProcessStops`, `ProcessStarts` are the environment.

### Billing

State: users, plans, where Stripe is with each event (queued, sent, done), one request per event and try, subscriptions and invoices. `Pay`, `Deliver`, `Timeout` are Stripe (external); `OnCheckoutCompleted`, `FindSubscription`,
`CreateInvoiceNumber`, `CreateInvoice` are the statements of the handlers, `Answer` the reply after which Stripe stops delivering.

### How they compose

ServerFleet owns the row of a server from placement to DELETE; ServerLifecycle starts where
`CreateCommit` ends and its `Deleted` is the place of `DeleteCommit`. They touch disjoint columns (`host` and the
counters; `status` and `suspended`), and DELETE is in both. GameContainer looks inside the container that ServerLifecycle calls running; ServerSettings at the configuration it was created with.
Backups writes the rows of backups, and ServerLifecycle the server's status around the same restore;
its `ServerDeleted` is the DELETE of the server. ConsolePanel is a composition proper: it extends ConsoleGateway and its `StreamEnds` is what
a stop of the container looks like to the gateway. ScheduledTasks calls what ServerLifecycle and Backups model as requests. Sessions and Accounts split the user's row: password and status here, role and second factor there.

## 3. What the runs check

| Run | Instance | Properties |
|---|---|---|
| `fleet` | 2 nodes, 2 servers, 2 requests, 2 ports | `SafetyInv` (counters exact, overcommitment bounded, allocations and hosts exist, ports lost only to addAllocation, one primary allocation per server), `KeepsLedger` (the refinement), `MaintenanceDrains`, `RequestCompletes` |
| `lifecycle` | provisioning and 2 requests, 1 failure | `LifecycleInv`, `SuspensionHolds`, `ProvisioningSettles`, `DeletionEnds` |
| `lifecycle_delete` | provisioning and 1 request, no failure | `DeletionComplete` is violated |
| `console` | 1 key, 2 client sockets, 2 connections, 2 subscriptions in flight | `PanelTypeOK`, `StreamsReachable`, `SilenceExplained`, `IdleExplained` |
| `backups` | 1 backup of either driver, 2 requests, 3 failures | `BusyOK`, `CompletedBacked`, `KeepsVault` (the refinement), `BackupSettles` |
| `container` | 1 TYPE of each kind, 2 calls at once of 3, 2 failures | `ContainerInv`, `ServesWhatIsAsked`, `InstallationKept`, `ConsoleFollows`, `ComesUp` |
| `sessions` | 1 browser, 2 requests at once of 3, 3 tokens, 1 new password, 1 failure | `SessionsInv` (old sessions end with their password, one successor per token), `StoredTokenUsable`, `KeepsLines` (the refinement), `CallsEnd` |
| `files` | 2 servers, 2 requests at once of 3, 1 failure | `FilesInv`, `PackComplete`, `ReadOnlyKept` |
| `accounts` | 2 users, 2 requests at once of 5, 1 key, 2 secrets, 2 lists of codes | `AccountsInv`, `NoExcessRights`, `FactorConfirmed`, `CodeOnce` |
| `scheduler` | 2 tasks, 2 ticks, 4 edits, 2 failures | `SchedulerInv`, `NoneSkipped`, `DueServed` |
| `billing` | 2 checkouts, 2 payments, 2 deliveries of an event at a time, 1 failure | `BillingInv`, `BilledOnce`, `PaidHonoured` |
| `settings` | 2 pages, 1 more port, 4 texts and 1 environment of the API, 2 edits, 2 reinstallations | `SavedValuesKept`, `ReinstallApplies` |

Every invariant named `XInv` is the type invariant with the safety properties that belong to it; the module states each part with its own comment.

The one violation is a place where the code does not do what its text says: `lifecycle_delete` shows that a deletion that overtakes the
provisioning leaves a container and a network behind, where the daemon's README promises both are removed.

**Exceptions.** Many properties hold but for a case that the code leaves open. Each such case is a history variable, set only by the step that is the exception, and named in the property
(`spoiled`, `excused`, `raced`, `repeated`, `late`, `shared`, ...), so the run shows that there is no other. Together they are the deviations a reader should know of:

* concurrent creates overcommit a node, because `findEligibleNode` reads outside the transaction that increments; `OvershootBounded` (part of `SafetyInv`) says by how much at most;
* the allocation of a deleted server keeps its port for ever, and a port that is removed stays published until the next reinstallation;
* `Success:false` of CreateServer is taken for success, and the server shows OFFLINE;
* a socket that closes, or a panel that unsubscribes, during the access check gets a stream nobody cancels (`raced`); a panel whose stream ended or whose socket was cut stays silent until it is mounted again (`excused`);
* a restoration of a backup that was not COMPLETED makes it so, and a deletion forgets an archive that could not be deleted (`spoiled`);
* two requests with one refresh token, both past the check, get two successors (`raced`); a login that has passed its check survives a change of password (`late`);
* a fresh instance whose first account came by OAuth has no administrator (`guest`), two registrations at once may both be (`late`);
* the session that changes the password ends with the others, though the comment of `changeOwnPassword` (auth.service.ts:170-171) and the account page (account/page.tsx:43, 55) speak of the others only: `OldPasswordEndsSessions` states
  what the code does, so it is no exception of that property but a disagreement of the text;
* 2fa/generate on a factor that is enabled replaces the secret that logins check at once, though no code of it was shown (`replaced`); an enabling whose secret was replaced or cleared since its check enables what it finds, and
  without a secret no login succeeds any more (`overtaken`); two logins at once may use one recovery code (`raced`);
* a task runs twice if two ticks overlap or the Backend stops while it runs (`shared`), or the database refuses to write its next run (`unsaved`); of two ticks that overlap the slower may also write the next run of a task that fell
  due again in between, and so pass an occurrence over (`shared` in `NoneSkipped`);
* a `server.jar` whose download was cut is launched again and again unless a download is forced (`ComesUp`);
* `invoice.paid` before the checkout's own event is acknowledged and dropped (the premise of `PaidHonoured`), and a handled event that is delivered again is handled again (`repeated`);
* a form that was filled before overwrites what others saved since, a description cannot be emptied, and saving a form alters or drops the lines of its environment that textToEnvironment does not hold, those that nobody touched
  included (`excused` of ServerSettings).

**Bounds.** Two requests are enough for a race of two; every property of the fleet relates one or two requests, and the proofs
below cover any number. Two ports make a port contended and let it run out; two nodes let the choice and the deletion of a node
matter; the nodes have room for one and a half servers, so capacity is contended. One failure anywhere in the life cycle reaches every error path; what a second failure adds is covered by the proof,
which bounds neither failures nor requests. One backup is enough for the archives, which do not share files; its runBackup and two
requests are the three actors of every race on it, and three failures let a call be lost, a restart follow and the retry fail. Panels meet in `getSocket` only, so one panel and `SendCommand` are its two callers, and three
streams leave a fresh one beside the entries of two connections. Types of the images matter by the kind of their installation, of which there are four. Three refresh tokens are a parent, its successor and a rival; one new password makes an old one. The requests
of `files` and `accounts` may be one after another as well as at once, so five of them reach a 2FA that is enabled, used and disabled again, and an account that is promoted, makes a key and is demoted. A period of two minutes tells a due task from one that waits; four edits
create two tasks and change both, and two failures let a stop meet an error of the database. Two payments collide on a number. Two edits change a field behind a form, or a field and a port. Symmetry is used in `console` only, which has no liveness property.

**Deadlock** is checked in `scheduler`, where time never stops. Elsewhere it is not: ids are used once, a deleted server or account takes no more requests and bounds run out, so each bounded instance really
stops. That nobody waits for ever is stated as liveness instead.

**Fairness.** `ServerFleet!FairSpec` assumes strong fairness of the next step of each request: a statement that waits
for a row lock is enabled again and again while others take the row, and PostgreSQL queues waiters first come first served.
It assumes nothing of new requests, node events, aborts or crashes. `ServerLifecycle!FairSpec` assumes weak fairness of each continuation (the event loop runs it) and of each Docker call (it
returns). The second is an assumption about Docker: the Backend sets no deadline, and a daemon that hangs would keep its caller.
`Backups!FairSpec` assumes weak
fairness of the two continuations of runBackup and of each file operation, with the same remark: a disk or bucket that hangs keeps its caller.
`GameContainer!FairSpec`: a script that runs goes on, and Docker applies the restart policy. `Sessions!FairSpec`: a handler or script goes on once it has its answer. `ScheduledTasks!FairTasksSpec`: minutes
pass, systemd starts a Backend that stopped (`Restart=on-failure` in its unit), and what a task calls answers in the end. `Billing!FairSpec`: Stripe, as documented, delivers an event until it is acknowledged, and queries answer.
Failures and requests of people are never fair.

## 4. What is proved

All theorems hold for every value of the constants that satisfies the ASSUMEs of the module.

**ServerFleetProofs.** `SafetyInvariant` proves `SafetyInv`, and from it follow `TypeCorrect`, `AccountingCorrect`, `OvershootCorrect`,
`PrimaryCorrect`, `AllocationsCorrect`, `HostsCorrect`, `PortLossCorrect` and `MaintenanceCorrect`. None of the properties
is inductive alone. `SafetyInv` adds what makes them so: `RequestsOK` (what a request in flight remembers is still about the same
server and node; two creates never carry the same server), `LockOK` (a request in its transaction holds the lock of a node that exists),
`RowsUnique` (the unique index), `RemovalsOK` (no pending removal refers to a primary row, not even one inserted later) and
`PendingBounded`. The last is the argument for overcommitment: the load of the placed servers plus that of the
servers being created is at most the capacity plus one largest demand for each other request. A create adds to it only in
`CreatePlace`, where the new server fits what is allocated and at most all other requests have something pending.
Sums over servers are written as the cardinality of a set of units (`Load`), so that they can be reasoned about with the library's facts on
finite sets. Assumptions: finite sets of nodes, servers and requests, natural capacities, demands up to `MaxDemand`, and a `None` that is none of the others.

`LedgerCorrect` proves the refinement, `Spec => KeepsLedger`. Its core is that a server's primary row neither moves nor changes while the server lives (`PrimaryKept`), that only `CreateCommit` makes one
(`OnlyCreatePlaces`, `PrimaryBorn`), and so that `Placement` changes at one server at a time; `PrimaryStep` gives the three cases of every step, `LedgerPlacementStep` and `NodesStep` map those
that change something to a step of the ledger, and `SafetyInv` supplies what the ledger's guards ask: the unique index for a fresh address, `LockOK` for an existing node, the foreign key for an empty one.

**ServerProofs.** *Life cycle.* `LifecycleInvariant` proves `TypeOK /\ ProcessesOK /\ InstallingExplained`; `LifecycleTypeCorrect`, `InstallingCorrect` and
`SuspensionCorrect` follow. `ProcessesOK` is needed to know which operations write a status: only the provisioning could write INSTALLING's
successor, and only a power action or a restore writes before its call. The argument for the suspension is that
nothing puts "start" into any `todo` while the server is suspended and no start is admitted: `Power` is disabled, and no other plan
contains "start". *Settings.* `SettingsCorrect` and `ReinstallCorrect` prove `SavedValuesKept` and `ReinstallApplies`. What a page has in flight must be what its form was sent as (`Settings`), for an answer that arrives
after the form changed again; `FaithfulHeld` is what textToEnvironment gives back of a text of which it alters and drops no line; and a reinstallation that nothing crossed is alone and remembers the present configuration (`Reinstallations`).

**PanelProofs.** *Console.* `GatewayCorrect` proves that every running stream has its entry in the map and that no entry's stream is taken for a fresh one. `PanelCorrect` carries it to the composition: every step of the page is a step of the gateway
or leaves its variables alone (so the gateway's lemma applies), and an open connection belongs to one client socket. `SilenceCorrect` and `IdleCorrect` say that a panel without stream and a stream without panel are only the excused ones.
Neither is inductive: messages are on their way. `LastWord` says that of the messages a socket still has to deliver about a key the last one is what the page did last, so a mounted panel's subscription is never followed by an
"unsubscribe" and an unmounted panel's is always followed by one; `UniqueEntries`, that a stream is in one entry only, so that canceling one leaves the others; `AllAttended`, that a subscription or stream nobody raced belongs
to a panel, or its connection is open and still has its "unsubscribe" before it. The lemmas about appending to and taking from a sequence of messages are what these steps need.

*Files.* `FilesCorrect`, `PackCompleteCorrect` and `ReadOnlyCorrect` prove `FilesInv`, `PackComplete` and `ReadOnlyKept`, for paths of any length. They rest on lemmas about paths: "is a prefix of" is an
order (`UnderOrder`), the parents of a path are what it is strictly under (`ParentsIff`), renaming keeps the order (`MovedKeepsOrder`), and what `Clean` makes of a client's path is a sequence of names (`CleanType`).
`Clean` is a recursive function and there is no induction over data here; `WalkExists` and `CleanIsWalk` take the least length for which the walk would fail, by the well-foundedness of < on the naturals.
The inductive invariant is `FilesIInv`. `Rooted`: the paths form trees under the servers' directories; for every operation a lemma says that it keeps this and takes no file away but into `loose`
(`Traced`); the exception, `JarGone`, is an uninstall that removes exactly the file it names, which no other row of any server, no finished download and no pack claims. `Recorded`: the types and one row per project. `Present`: what a request has delivered so
far stays (`Delivered`), as does what a reported pack delivered (`Reports`), and a row without its jar has an uninstall of its own that is about to delete it (`Removing`). `Permitted`: a session that may write was opened by one who was allowed to at that time.
`CallStep` reduces a step to what it does to the requests, rows and reports, so that each part is proved over eight cases instead of over all actions. `FilesAssumption` says that paths are sequences of strings.

**GameContainerProofs.** `ContainerCorrect`, `ServedCorrect`, `InstallationCorrect` and `ConsoleCorrect`. For what is served, the installation is followed through the entry point: `Emptied` (while it installs, nothing whole is left where it installs to),
`Chosen` (what it is about to launch under FORCE_REDOWNLOAD is of the container's TYPE). For the console, `StaleStores`: a connection to a process that ended is stored behind a new one only by the interleaving that `excused` names.

**SessionsProofs.** `SessionsCorrect`, `RotationCorrect`, `StoredTokenCorrect` and `LinesCorrect`. A token belongs to one browser (`Owned`), one on its way to it is known to the request that brings it alone (`Undelivered`), so whoever
presents a token is a request of its browser. `Presented` is the rotation: unless two requests raced past the check, at most one holds the token, and none once it has a successor. `Rotating` tells a stored token that was
just rotated, and whose successor is under way, from one that was lost. `CurrentPasswords` and `PasswordBound` carry the revocation through changes of password. `LinesCorrect` proves `Spec => KeepsLines` from the same
invariant, over the kinds of step (`TokenStep`) instead of the actions: `LinesNone` says that what issues no token and lets no call present a new one only ends tokens, `LinesPass` is the check, which forks a token at most, and `LinesIssue` the
insertion, where `Presented` supplies what the refinement asks: a token with a successor on its way is no longer live, and if another request still presents it, the two raced. Assumed: there is a browser, and finitely many requests at a time.

**AccountsProofs.** `AccountsCorrect`, `RightsCorrect`, `FactorCorrect` and `CodeCorrect`. `Rights`: what a request was granted is what its user's role grants now, but for what was withdrawn while it was served; `Rows`: a
role or account that something refers to exists; `Founding`: no account without an administrator, who comes first or raced, but for the guest; `SecondFactor`: a code in
the list was not used but in a race, and a new list has no code of an old one. `SettleBase` and `WithdrawStep` carry `Rights` over every change of accounts and roles, by one request or by two. Assumed: two users at least, one secret and one
list of codes, and that no permission is called like the wildcard.

**BackgroundProofs.** *Billing.* `BillingCorrect` and `BilledCorrect`. `Sending`: an event is with the Backend exactly when one try waits for the answer; `Once`: an effect of a payment is there only if it is handled or delivered again;
`Counting`: while the year lasts, the numbers of the invoices are an interval from 1, so the count of a request that is about to write is one more than all or a number another took (which the unique index refuses). *Tasks.* `SchedulerCorrect`: `Occurrences` says
that two ticks hold a task only if they overlapped, and a task that is due, was served and still has its row is being executed, or the database refused its next run. `SkippedCorrect` proves `NoneSkipped` from `Pending`: a task that one
tick alone holds is due since it was listed, and was executed when it is given its next run.

**BackupsProofs.** `BackupInvariant` proves `BackupInv`; `CompletedIsBacked` and `BusyIsExplained` follow. `CompletedBacked` is far from
inductive: what matters is that whoever works on an unspoiled backup came after its runBackup ended (`Unspoiled`, with `Done`), so no second writer meets the
upload, and that only the call of a deletion takes from the store (`RequestOK`). `Progress` follows the archive through runBackup: whole before it is
put, in the bucket before the copy is dropped with success, in its store before the answer. `CallKeeps` reduces a step of the daemon to the process and the
archive it touches, `FinishKeeps` the end of a request to what it writes to its row; each action is then a few lines. `faults` is bounded by any natural number.
`VaultCorrect` proves `Spec => KeepsVault`. The vault asks for more than `BackupInv`: that an archive is not whole before its walk is over, that a FAILED backup has no runBackup left, and that who restores a backup does so of one that is
kept or gone with its server, all for unspoiled backups (`Orderly`; with `BackupInv` it is `VaultInv`). `RowStepShows` maps what an operation writes to a row, `WorkStores` what a file operation does to an archive.

**Only model-checked**: the liveness properties (`RequestCompletes`, `ProvisioningSettles`, `DeletionEnds`, `BackupSettles`, `ComesUp`, `CallsEnd`, `DueServed`, `PaidHonoured`), since
liveness under fairness and ENABLED are beyond the prover, as is induction over data; and the violation.

## 5. What is not modelled, and the plan

Left out of the modelled parts: audit rows (written last, nobody waits for them), the cache of gRPC clients (no operation changes a node's address), mutual TLS (no caller passes certificates), contents of files
and what a restore overwrites in them, statistics, versions and URLs of downloads, coupons (nothing redeems them).

Not modelled: pages that only show, the components under `ui/`, the installer, the CLI and the SDKs (no state of their own, or pure input and output), the start-up of the daemon, and the
services that are one statement per operation (support, marketplace, templates, audit, monitoring).

Seen while reading, and not covered by a property, because nothing in the repository says what should happen: the status of a server is optimistic and no event of the daemon corrects it; no gRPC call has a deadline; the mods page removes from `mods` what the marketplace
may have installed into `plugins`; an update of a CurseForge mod keeps the old jar; `RoleCard` keeps the selection it loaded first and `setPermissions` replaces all; a user with a second factor cannot finish a login by OAuth;
`setEnabled` does not compute `nextRunAt` again; HOURLY and QUARTERLY plans are both billed by Stripe per month; permissions of a sub-user are read by SFTP only.

Every safety invariant, action property and refinement of the runs has its theorem. Of the plan of the abstract specifications worth stating, `PlacementLedger`, `BackupVault` and `SessionLines` are there; what would come next is one
for the console (a mounted panel receives what its server prints, but for the excused gaps), for which messages would have to carry their position in the log.
