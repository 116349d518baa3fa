# Miniverse-Backend: models, checks and proofs

Miniverse-Backend is the API of a self-hosted manager of Minecraft servers. A
*miniverse* is one managed server: a row in MySQL, a data directory, a Docker
container, a controller object in the API process and, for recent versions of
Minecraft, a task that keeps a websocket to the server's management port. The
API is one asyncio process; everything hard about it comes from these five
places being changed one after the other by handlers that await in between.

## The system

| Part | State it keeps | Operations | Talks to |
|---|---|---|---|
| Lifecycle (`services/miniverse_service.py`, `api/v1/miniverses.py`) | table `miniverses` (`started`, `container_id`, `mc_version`, ...), data directories | create, start, stop, restart, update, delete | Docker, controllers, proxy routes, mods, events |
| Container control (`services/docker_service.py`) | none; Docker's containers | look up by name, create, start, stop, remove, logs, console | Docker daemon |
| Controllers (`managers/ServerStatusManager.py`, `services/connexion/`) | `_miniverse_control_services`, the `task` of each | `add_miniverse`, `remove_miniverse`, `start`, `stop`, player operations, webhook | status cache, RPC |
| RPC connection (`services/rpc_service.py`) | `server` | connect loop with reconnection, calls, notifications | the server's management port |
| Status cache (`connexion/server_status_store.py`, `BaseMiniverseService.py`) | Redis: players, operators, bans, seen players | get, set (publishes), refresh | Redis, events |
| Startup hooks (`main.py`) | none | write routes, register controllers, start the proxy and every started miniverse | all of the above |
| Updates websocket (`api/v1/websockets.py`, `events/`) | the user and role the socket remembers | first message, delivery of events | Redis channels, controllers |
| Proxy routes (`services/proxy_service.py`) | `routes.json`, the router container | rewrite from the table, SIGHUP | Docker |
| Users (`services/user_service.py`, `auth_service.py`, `api/v1/users.py`) | table `users` | first login, accept, reject, role, delete | Keycloak |
| Mods (`services/mods_service.py`) | table `mods`, files in `mods/` | install, update, uninstall | Modrinth |
| Files (`services/files_service.py`) | the data directories | list, copy, move, upload, extract, compress | nginx, tusd |
| Versions (`services/minecraft_service.py`) | none | parse, compare | Modrinth |

What is hard, per part:

* **Lifecycle** - a handler is five to ten awaits long; it works on a copy of
  the row it read first; the API may die between any two steps while Docker
  runs on (`on_shutdown=[]`); every call may fail; Docker removes exited
  containers by itself a little later; nothing orders two requests on one
  miniverse. Correct means: no server runs that the database does not know of;
  when nothing is in flight row, container, controller and loop agree; a start
  of the API repairs whatever a crash left.
* **Controllers** - taken from a dictionary after awaits. Correct means: a loop
  always has a registered owner, a row always has a controller.
* **Versions** - five formats and three ways to compare them. Correct means: a
  sign that is never wrong, refusals where no answer exists.
* **Status cache, RPC, events** - refreshes and events in any order, a window
  between the first message and the subscription. Correct means: at rest the
  store says what the source says and open pages show it, and nothing but an
  overtaken or failed refresh is in the way of that.
* **Users** - "the last administrator stays" is checked, then acted on.
* **Routes, mods, files** - a snapshot or a name read before an await and used
  after it, a file and a row that have to change together.

`PROJECT.json` lists these under `hazards`, each at its line, with the property
that catches it, or with the reason why none does: several are things the code does
do, which the models contain and the properties name as exceptions.

## Modules

| Module | What it is |
|---|---|
| `MiniverseLifecycle` | the lifecycle: handlers, controllers, startup hooks, Docker, faults; properties and mutants |
| `MCLifecycle` | the lifecycle and its refinement, instantiated for TLC (symmetry) |
| `MiniversePromise` | abstract specification: a server runs only while it is wanted |
| `LifecycleRefinement` | the lifecycle implements the promise |
| `InitSync` | `send_init_data` composed with the lifecycle |
| `MinecraftVersions` | `compare_versions` against the order versions are published in |
| `MCVersions` | its small sets of numbers |
| `MiniverseLifecycleProofs` | theorems about the lifecycle |
| `UserAdmin`, `MCUserAdmin` | the table `users` and the requests that change it |
| `UserAdminProofs` | theorems about it |
| `EventDelivery`, `MCEventDelivery` | roles, notices, news and the updates websocket |
| `EventDeliveryProofs` | theorems about it |
| `RpcConnection` | the connect loop of one controller, its task and its connection |
| `ManagementProtocolProofs` | theorems about it and about `MinecraftVersions` |
| `StatusCache` | the list of players in the store, the record of players seen and what pages are told |
| `StatusCacheProofs` | theorems about it |
| `ProxyRoutes` | `routes.json` against the table it is generated from |
| `ProxyRoutesProofs` | theorems about it |
| `ModsStore`, `MCModsStore` | rows of mods, their jars and the game version they have to fit |
| `ModsStoreProofs` | theorems about it |
| `FilesService`, `MCFilesService` | the tree of files of a miniverse, uploads and extractions |
| `FilesServiceProofs` | theorems about it |

`InitSync` EXTENDS the lifecycle and adds a websocket to its variables; the
other components meet the lifecycle only through the calls the actions name, and
stand alone.

### MiniverseLifecycle

The state: `api` (down, running its startup hooks, serving), `life`, `row` and
`volume` per miniverse (the database and the disk), `container` (Docker's
container of the name `miniverse-<id>`), `controller` and `loop` (the process's
memory), `bootQueue` (what `docker_startup` has still to start), and `req`: what
each request slot, and the startup task `Boot`, is executing. A request carries
the operation, the miniverse, its program counter, its own copy of the row (the
session's identity map; `expire_on_commit=False`, so it is renewed by
`db.refresh` only) and the container id it holds in a local variable.

One action is one awaited call with the synchronous code around it, which is
exactly what asyncio runs without interruption. The names of the program
counters follow the code:

| Code | Actions |
|---|---|
| `create_miniverse` | `CreateInsert`, `CreateRole` (role and directory), `CreateRegister` (`add_miniverse`), then start |
| `start_miniverse` | `StartCommit` (`init_data_path`, `started = True`), `Refresh`, `StartLookup`, then `RecordContainer`, `Refresh`, `RunFound`; or `CreateContainer`, `RecordContainer`, `Refresh`, `RunCreated`, `StartControl` |
| `stop_miniverse` | `StopContainer`, `StopGetControl`, `StopCancelLoop`, `StopCommit`, `StopRefresh` |
| `restart_miniverse` | stop, then start |
| `update_miniverse_game_version` | stop, `UpdateCommitVersion`, `Refresh`, then start |
| `delete_miniverse` | `DeletePopControl`, `DeleteCancelLoop`, `DeleteContainer`, `DeleteData`, `DeleteRow` |
| startup hooks | `BootRegister`, `BootStart` (then the steps of start), `BootDone` |

An UPDATE writes only the columns the handler changed in its copy (`Merged`),
which is why a stop that read an old row can leave another handler's
`container_id` alone. Exceptions the code runs into by itself are
`HandlerRaises`: a row that is gone, a refusal of Docker, a missing controller,
a missing data directory, a version that cannot be parsed. A request that
raises is answered with an error; a startup hook that raises takes the process
down (`Abort`). The environment adds `Crash`, `CallFails` (any awaited call
fails or its answer is lost), `StartLookupSwallowsError` (`get_container_by_name`
turns every exception into "no container"), `ContainerExits` and
`ContainerReaped` (`auto_remove=True`).

Abstracted: ids are model values and a container id may be drawn again once
nothing mentions it; the game version is what `compare_versions(version,
"1.21.9")` makes of it (`old`, `new`, `bad`); the columns without a part in the
life of a server, the update of mods before a version change, cache entries,
published events and `routes.json` are left out. New miniverses have
`is_on_lite_proxy=True`, so the mod installation in `init_data_path` is not
reached.

`troubled` is an observer, not state of the program: the miniverses one of whose
handlers raised, or whose server ended by itself, since the API last restarted
them. `Serial` restricts the clients, not the code: with `Serial = TRUE` no
request on a miniverse begins while another one on it is in flight. The code
does not enforce that; the properties that need it say so.

### InitSync, MinecraftVersions

`InitSync` adds the loop of `send_init_data` to the lifecycle: the rows are read
in one query and the controllers are looked up one at a time, with the
lifecycle's steps in between.

`MinecraftVersions` takes a version string as the record `parse_version` makes
of it, follows `compare_versions` branch by branch, waits for the list of
versions where the code does, and lets `update_miniverse_game_version` decide.
`Lower` is the order in which Mojang publishes versions, stated independently;
publication dates are any dates that follow it. Its specification is
`VersionsSpec`, so that one module of theorems can speak of it and of
`RpcConnection`, the connection to the servers whose version is new enough.

### UserAdmin

The state: the table `users` (`row`), and the requests in flight (`req`) with
what they read. One action is one transaction of a request, in the order of the
code:

| Code | Actions |
|---|---|
| `get_or_create_user`, `get_current_user` (`auth_service.py`, `user_service.py`) | `GetUser` (with the look whether the table is empty), `CreateUser`, `RefreshUser` |
| `RoleChecker`, the inactive user, the refusals at the top of a route | `Refused`, `FirstCall`, evaluated on the copy authentication read |
| `delete_me`, `delete_user`, `reject_user_request` | `CountAdmins` where the route counts, `DeleteUser` |
| `set_user_role`, `accept_user_request` | `CountAdmins` for one's own role, `GetTarget`, `Write` |

InnoDB answers all reads of a transaction from the snapshot its first read took,
so a transaction reads at one moment; an UPDATE writes only a column whose value
the handler changed, and one that finds its row gone raises. `Fails` is a call
to the database that fails, a client that leaves or a process that dies: in each
case nothing more of the request happens. Requests overlap as they like and
clients send what they like. Two observers let the properties say what that
costs: `trusted` is everybody who has been an active administrator so far, and
`outrun` the requests for which what they decided on has changed since: the
administrators after the guard (a handler works with what the guard saw and no
lock is held), or who has a row after `create_user` has looked whether the table
is empty. Abstracted: names, dates, and the change of a username at a login.

`AdminStays` names the three ways in which the last active administrator goes,
and `PrivilegeIsGranted` the two ways to rise and the two races beside them. Each
of these five exceptions is needed: without it TLC finds the run that uses it.

### EventDelivery

The state: one miniverse (`alive`), the roles on it (`role`), the handlers that
change them, the Redis channel (`wire`), and per user a socket with the role it
remembers and the events waiting for it. Roles on two miniverses are two rows
and an event names its miniverse, so one stands for all.

| Code | Actions |
|---|---|
| `set_user_role` of a miniverse (`api/v1/miniverses.py`) | `LoadRole`, `CommitRole` (`CommitLost`), `PublishNotice` |
| `delete_miniverse` | `LoadDelete`, `CommitDelete`, `PublishDeleted` |
| every event that names nobody | `PublishNews` |
| `core/channels.py` | `Dispatch`, in order, to the subscriptions there are |
| `websocket_miniverse_updates_handler` | `Connect`, `SendFirst`, `Subscribe`, `Handle` (`db.rollback`, `db.refresh` when the event names the user), `Disconnect` |

The commit and the notice are two steps, and so are the first message and the
subscription: what is published in that window reaches nobody. Observers:
`may` and `must` of an event, the users who may or have to be told, and
`unheard`, the users of whose last change no notice will come.

### RpcConnection

The state: the management server (`up`), `WebSocketMiniverseService.task`,
`RpcService.server`, and per task where its loop is, whether its link is up and
whether it is cancelled or already on its way out. `Connect`, `Greet`, `Poll`,
`Close` and `Wait` are the awaits of `async_connect_loop`; `CancelDelivered` is
`CancelledError` raised from any of them, which leads to the `finally` from
inside the `try` and out of the loop from inside the `finally` or the pause;
`BeginStop`, `StopAnswered` and `EndStop` are `stop()` with the refresh of the
players it awaits first, from the server and then into the store; `StopRaises`
and `StoreRaises` are the two ends of it that leave the task as it is. `Close` clears `server` whoever set it, as the code
does. The operations on players are calls through `server` and keep no state;
`server.close()` of aiohttp is taken not to raise.

### StatusCache

The state: the list of players of one miniverse where it comes from (`players`:
on the server, or in `_online_players` of the router service), the value in the
store (`stored`), the record of everybody seen (`seen`), the value published
last (`news`), the connection with its handlers (`up`, `listening`, `pending`),
and per refresh in flight what it has read. The kind of the controller is chosen
in `Init`, so one run checks both classes.

| Code | Actions |
|---|---|
| `_get_data_cached` of `BaseMiniverseService` | `Read` when nothing is stored, `Ask` |
| `ServerStatusStore.set` | `GetOld`, `Put` (an answer of `None` deletes the value), `Publish` |
| the record in `get_msmp_player_list` | `SeenGet`, `SeenPut` |
| `on_connect`, the handlers of notifications | `Connect`, `OnConnect`, `Change`, `Notify` |
| `stop` of `WebSocketMiniverseService` | `StopRefresh`, then `Disconnect` |
| `process_webhook` of the router service, its `stop` | `Webhook`, `Stop` |
| faults | `Fail` (one that `on_connect` awaits drops the connection), `Disconnect` (notifications on their way are lost), `Restart` |

The comparison in `set` is between bytes and a string, so it only ever stops the
step from one absent value to another; `GetOld` says that. Observers: `behind`
(a refresh was overtaken by a later one, failed, or the router's list was
emptied, and none has run alone since), `shown` (everybody in a value that was
ever stored; it is never reset) and `lost`: those the record may lack for good,
because their refresh failed before the record, or got or set it between
another one's get and set. `SeenComplete` is exact about the loss: whoever is
shown and not recorded at rest is one of these. Operators and bans take the same
path without a record and are not repeated.

### ProxyRoutes

The state: the table's subdomains (`table`), `routes.json` (`routes`, empty
while it is truncated), whether the API is down, in its startup hooks or serving
(`api`), and the requests that create, change or delete a miniverse.

| Code | Actions |
|---|---|
| `update_miniverse`, `create_miniverse`, `delete_miniverse` up to their commit | `Arrive`, `Check` (the row, and for an update its subdomain), `CommitCreate`, `CommitUpdate`, `CommitDelete` |
| `db.refresh`, or the next SELECT: the snapshot the routes are made from | `Refresh` |
| `update_proxy_config`, `generate_router_routes` | `Write` (of rows that share a subdomain either may win) |
| `proxy_startup` | `Startup` |
| the other two startup hooks | `Serve`, or `StartFails`, which ends the process |
| faults | `Fail`, `Crash` (maybe with half a file) |

Between `Refresh` and `Write` lie the awaits of Docker, which is where requests
overtake one another. An update that names no new subdomain (`Same`) is one that
changes `allow_bedrock`, after which the file is written as well. `behind` is an
observer as above; `alone` says of a request that none was in flight with it.
That an API that is down comes up is not promised here: the hooks after
`proxy_startup` may raise at every start (`LifecycleBoot` says for which rows they
do not).

### ModsStore

The state: the rows of one miniverse's mods (`row`), its jars (`jars`), its game
version, whether it still has its row, and the requests. The catalogue is drawn
in `Init`: which version of a mod supports which game.

| Code | Actions |
|---|---|
| `install_mod`, `automatic_mod_install` | `Begin` (it turns into an update when a row was read), `Download`, `Insert` |
| `update_mod` | `Remove`, `Download`, `Save` |
| `uninstall_mod` | `Begin`, `Remove`, `Drop` |
| `update_miniverse_game_version`, `list_possible_mod_updates` | `Begin`, `NextMod` with the steps of an update for each, `CommitGame` |
| `delete_miniverse` | `Begin`, `Rmtree`, `CommitDeletion` (the foreign key of a row inserted meanwhile refuses it) |
| the write of a jar, below a directory made before the jar was awaited | `DownloadRaises` |
| faults | `Fail` |

A version of a mod is a number ordered by `date_published`; a jar is the project
and the version its name holds. Jars that somebody deletes by hand through the
routes of `FilesService` are not modelled. `unclean` is an observer: the mods an operation
failed on after it had begun to change them, or two operations met on.

### FilesService

The state: the tree below `data` as a function from paths to contents, what tusd
keeps of each upload, the extractions in their threads (`thread`), whether the
client is moderator, the requests that have read the role and await the row of
their miniverse (`waiting`), and the name a handler has found free and is about to
use (`handler`).

| Code | Actions |
|---|---|
| the role check of a route and `await get_miniverse` | `Admit`, then what `Run` begins |
| `delete_miniverse_files`, `set_file_content` | `Delete`, `SetContent` |
| `copy_miniverse_files` | `LookCopy` (with `Free`), then `CopyDir` or `CopyFile` |
| `compress_miniverse_files` | `LookCompress`, then `Compress` |
| `rename_file` | `LookRename`, then `Rename` |
| what raises at once, or because something has come at the place | `Refuse`, `Raise` |
| `confirm_upload` | `PreCreate`; `Check` and, after `await get_miniverse`, `LookUpload` or `RefuseUpload`, then `PlaceUpload` or `LoseInfo` |
| `extract_miniverse_archive`, `_extract_zip` | `Open`, `Choose` (or `NoArchive`), `Mkdir`, `WriteMember` or `SkipMember` for each member, `EndEarly` |
| the role of the client changes | `SetRole` |
| tusd, kills of the API | `Sent`, `Crash` |

The handlers run on the event loop, so only one of them is between its look at a
name and the use of it, and nothing else of the loop happens then; an extraction
runs in a thread and takes its steps there as well. That is the window in which a
name that `change_path_name_if_exists` or `exists()` found free is taken, and
`rename(2)`, `open` and `copy2` then overwrite. The model has it, and the
properties say how far it goes: `FilesStay` allows a handler to overwrite a
*member of an archive* that was *not there* when the name was found free, and
nothing else. Dropping that clause, or the one for an extraction that overwrites
what came after it chose its directory, gives a property that TLC refutes.

`Free` is `change_path_name_if_exists`, and gives any number that is free where
the code gives the first. `had` (what was below the place when it was chosen)
and `granted` (the uploads whose client had the role at some moment since the
upload was whole) are observers. tusd is taken to call the hook again for an
upload that was refused for its destination or cut off before it was moved.

One step each are a deletion, which may stop half-way while an extraction
writes below (`Delete`), `copytree` once it has begun, and the writing of one
member or of an archive. Left out: paths that leave the directory, which every
route refuses; a copy, an archive or a new name of the directory `data` itself;
the copy of a directory to a place deeper inside itself, which never ends
(`files_service.py:159`).

## What the runs check

| Run | Instance | Properties | Shows |
|---|---|---|---|
| `LifecycleFaults` | 2 miniverses, 1 request slot, 3 faults, serial | `TypeOK`, `Recorded`, `Settled`, `KeepsPromise` | no unrecorded server, agreement at rest through any three faults, and the handlers implement `MiniversePromise` |
| `LifecycleRaces` | 1 miniverse, 2 slots, 1 fault, overlapping | `LoopOwned`, `ControllerCovers` | what survives when requests race |
| `LifecycleBoot` | 1 miniverse, 1 slot, 3 faults, fairness | `BootComesThrough`, `BootRestores` | a dead API comes back with its servers |
| `InitSyncAssert` | 1 miniverse, no fault | `AssertControllerIsNotNone` | violated: see findings |
| `Versions` | all pairs of 5 main numbers, 2 weeks, all formats | `NeverInverted`, `AcceptedMovesForward` | the order is never inverted |
| `UserAdmin` | 3 users, 2 requests, overlapping | `TypeOK`, `AdminStays`, `PrivilegeIsGranted`, `StrangersChangeNothing` | the three ways the last active administrator goes, the ways to rise, and whoever was never an active administrator changes nobody else's row |
| `EventDelivery` | 1 user, 2 handlers, 3 ranks, queues of 2, 1 lost commit | `TypeOK`, `RoleKnown`, `NewsStaysInside`, `NewsArrives` | a socket ends with the role in the database and judges news by it, but for the windows the properties name |
| `RpcConnection` | 3 tasks, 3 failures, fairness | `TypeOK`, `SingleLoop`, `CancelledEnds`, `Reconnects` | one loop at a time, cancelled ones end, and a loop left alone gets calls through again |
| `StatusCache` | 2 players, 2 refreshes, 3 changes, 2 faults, both kinds, fairness | `TypeOK`, `ListCurrent`, `NewsIsStored`, `SeenComplete`, `CatchesUp` | source, store and pages agree at rest unless a refresh was overtaken or failed, and who may be missing from the record |
| `ProxyRoutes` | 2 miniverses, 2 subdomains, 2 requests, 2 faults | `TypeOK`, `RoutesCurrent`, `OwnChangeRouted` | the routes follow the table when requests run alone and after each start, and a request's file contains its own change |
| `ModsStore` | 2 mods with 2 versions, 2 games, 2 requests, 1 fault | `TypeOK`, `JarsMatchRows`, `InstallDelivers`, `ModsMoveAlong` | a row and its jar stay together except on the mods something failed on or met on |
| `FilesService` | 2 uploads (a file, a zip of a file and a directory), 2 threads, 3 requests, 7 paths, depth 2 | `TypeOK`, `FilesStay`, `UploadLands` | what may take the place of a file that was not deleted, edited or renamed, and whose upload lands |

Bounds. Miniverses interact only through the API's death and the startup queue,
so two are enough to see one disturb another, and to let the startup hooks fail
between one row and the next; one is enough for the faults of a single life and
for two requests that race on it. Two slots give every overlap of two handlers. A container id is
mentioned by the row, by Docker and by at most two variables of each handler:
with one handler two ids always leave a fresh one to draw, with two handlers
four do; in a state without a fresh id only the creation has to wait.
`MaxFaults` counts crashes, failed calls and exits together: three of them allow
a failure, a failure of the recovery and one more. In `UserAdmin` three users are one who acts, one who is acted on and one who
watches or is the other administrator; two requests give every overlap of two
decisions, two first logins and two departures included. In `EventDelivery` sockets share nothing
but the channel and a notice for somebody else is like news that is dropped or
sent by the same rule, so one user has every case of its own socket; two handlers
race on its role, and queues of two let a notice and news pass each other if
anything could. Three tasks in `RpcConnection` let a loop that is ending meet its
successor and that one's. In `StatusCache` two refreshes are one that is overtaken and
one that overtakes; three changes fill the two slots and leave a notification
waiting; two faults let a lost connection meet a failed refresh or a restart. In
`ProxyRoutes` two requests give every overlap of two snapshots, two miniverses a
conflict over a subdomain, two faults a kill during the recovery from a failure.
In `ModsStore` one mod follows the game and one cannot, two ids make a second
row of one mod possible, and one fault at any step of two requests leaves every
mixture of row and jar to be mended by a third request. In `FilesService` seven
paths hold the tree of the server with a file, a zip and its extraction, or a copy of
a directory with what is in it; numbers are given to the one name that clashes,
which is that of a directory of the server, of a file in it, of the uploaded file and of
what the zip extracts to, so every kind of place has its collision; two threads choose
their directories beside each other and beside a handler; three requests are two
that race and a change of the role, uploads aside.
Deadlock is not checked where the system may stop: when all miniverses are
deleted, a comparison is finished, every task has ended, or a bound on changes
or requests is used up. Symmetry is used for runs without liveness only.

Fairness of the lifecycle (used by `LifecycleBoot` alone): an awaited call is answered
or fails, so a handler's next step is taken (`WF` of `HandlerStep`); the
supervisor restarts the API (`restart: unless-stopped` in `docker-compose.yml`)
and the event loop runs its hooks (`WF` of `BootStep`); Docker completes
automatic removals (`WF` of `ContainerReaped`). No request and no fault is ever
promised. `BootComesThrough` and `BootRestores` are stated for rows the hooks can
digest (`RowsDigestible`): a row with a version that cannot be parsed, or a
started row whose directory is gone, stops every start of the API for good, and
the hazards name the two ways to get there.

Fairness of `RpcConnection`: the loop's own steps (`WF` of `LoopStep`), because
an awaited call returns or raises, a sleep ends and asyncio delivers a
cancellation at the next await. Nothing makes `start`, `stop` or the server come
up; `Reconnects` speaks of a server that stays up. Its first premise, `[]Alone`,
is not one of fairness but of timing: `start()` never finds an earlier loop
alive. The code does not wait for the end of the task it cancels, and without
that premise the property fails: the earlier loop's `finally` sets
`self.server = None` after the new loop has set it, and from then on every call
answers `None` over a connection that is up.

Fairness of `StatusCache`: `WF` of each refresh's step, of `Notify` and of
`OnConnect`, because the event loop runs every task that is ready and an await
returns or raises, and of `Connect`, because the connect loop tries again for
ever (`RpcConnection` shows that it does). Changes and faults are not promised;
`CatchesUp` rests on the bound on faults, after which the connection stays, and
`WF` of `Connect` on a server that can be reached again after it was lost and a
controller that is started again after it was stopped.

Each property of a passing run is paired with a mutant, an operator in the same
module that changes one definition the way a plausible bug would; with it in
place the run finds the property violated.

### Findings

* `InitSyncAssert`: `send_init_data` asserts that every row has a controller
  (`websockets.py:59`); while a miniverse is being created or deleted it has not.

What follows has no run of its own. The models contain it as the code has it,
and where it limits what holds it is named in the premise of a property:

* `compare_versions` promises `None` for an invalid version; the test at
  `minecraft_service.py:177` looks at the second version twice, and an invalid
  first one raises. That makes a row with such a version fatal to every later
  start of the API.
* The number of a prerelease is never compared (`minecraft_service.py:196`), so
  a change from `pre2` back to `pre1` is not refused as a downgrade;
  `AcceptedMovesForward` names it as the one thing that may go back.
* "The only remaining admin" (`users.py:29` and `58`) is decided by a count in one
  statement and acted on in a later one: two administrators who leave together
  each count the other. A single request does it too: `reject_user_request`
  (`users.py:72`) deletes any user without looking, and `count_admins` counts
  administrators who are not active. `AdminStays` names all three.
* Two first logins that both find the table empty both become active
  administrators (`user_service.py:11`); `PrivilegeIsGranted` names it.
* A role that is taken away between the check of the hook and the move of the
  upload (`files.py:124` and `134`) comes too late; `UploadLands` says so.
* A copy, a rename, an archive or an upload overwrites the member that an
  extraction has put at the name found free for it (`files_service.py:238`);
  `FilesStay` and `UploadLands` say so.
* Two refreshes that overlap at the record, or one that fails before it, lose
  players from `seen_players` until they come back (`BaseMiniverseService.py:42`);
  `SeenComplete` says whom.
* `create_miniverse` does not look whether its subdomain is taken, an update
  looks and commits with awaits between (`miniverse_service.py:250`), and of two
  rows that share one either wins in `routes.json` (`proxy_service.py:14`).
* `should_restart` is computed after the attributes are set
  (`miniverse_service.py:265`), so a change of the Java version never restarts
  the server.
* The route of a single mod update lacks an `await` (`miniverses.py:136`) and
  raises before it does anything.
* A mod without any version for the new game counts as up to date
  (`mods_service.py:232`), so the refusal at `miniverse_service.py:310` never
  speaks of it; `ModsMoveAlong` is stated for the mods that have one.
* A deletion of a miniverse that overlaps an installation removes the data
  directory and then fails on the foreign key of the new row: the miniverse
  stays, with rows of mods and no jars. This one came out of `ModsStore`.
* `compress` walks the paths as the client sent them (`files_service.py:276`), so
  the archive is empty; `copytree` into a directory of its own does not end
  (`files_service.py:159`); deleting `/` removes the data directory itself.
* The `.info` of an upload is removed before the file is moved
  (`files_service.py:241`), so a kill in between strands the upload (`bare`).
* `lstrip('miniverse-')` (`ServerStatusManager.py:43`) strips characters rather
  than a prefix, so the webhooks of an id that begins with one of them, as in
  `e...`, find no controller.
* `delete_miniverse_cache` (`server_status_store.py:42`) scans without the
  namespace of the store and finds nothing; the comparison at line 27 is between
  bytes and a string and never stops an event.

## What is proved

`MiniverseLifecycleProofs`, for every set of miniverses, slots and container
ids, any number of faults and both values of `Serial`, from
`ConstantsAssumption` alone (the startup task is not a request slot, `None` is
neither a miniverse nor a container, `MaxFaults` is a natural number):

* `TypeCorrect`: `Spec => []TypeOK`. `TypeOK` is not inductive: a step indexes
  `row` and `container` with the miniverse of a request, which is `None` for an
  idle one. `TypeInv` adds `Targets`: a process is idle exactly when its request
  names no miniverse.
* `RecordedAlways`: `Spec => []Recorded`. Whether a container that is about to
  run is in the row depends on what the handler at work has read and committed,
  so `IInv` adds, for serial clients, `SerialInv`: no two handlers work on one
  miniverse (`Exclusive`); requests are served only after the hooks, and the
  hooks only start present rows (`BootInv`); a handler's copy of the row is the
  row, past `StartCommit` the row says started, past `RecordContainer` it names
  the handler's container, and past `StopContainer` or `DeleteContainer` the
  container rests (`HandlerInv`); a container has an id and a running one is
  recorded (`ContainerInv`). `OwnStep` carries the argument: a step of one
  handler can only disturb what is said of its own miniverse. One lemma per
  handler then follows its steps, `TakeOnSerial` the loading of a row,
  `DeathSerial` the death of the process.
* `KeepsPromiseAlways`: with `Serial`, `Spec => KeepsPromise`, the refinement of
  `MiniversePromise`. The initial states are those of the promise, and every step
  either leaves what is wanted and what runs as it was, or is one step of
  the promise; `IInv` supplies the guards, since only it says that a server that
  Docker starts, or that comes back with the API, is one whose row says started.
* `LoopOwnedAlways`, `ControllerCoversAlways`: for any overlap of requests, so
  beyond what `SerialInv` can be used for. Their invariant `RaceInv` adds
  `BootCovers`: while the API does not serve, the workers are idle and only the
  startup task starts miniverses, and while it starts every present row has its
  controller.
* `SettledAlways`: with `Serial`, `Spec => []Settled`. `Settled` speaks of the
  miniverses nothing is in flight on, so `SettledInv` adds what is true on the way
  there: the stage the row, the container, the controller and the loop have
  reached at each program counter (`Stage`), and the miniverses that wait in the
  queue of the startup hook (`Waiting`). A miniverse becomes `troubled` when a step
  on it fails, and a troubled one claims nothing but `Sane`.

`UserAdminProofs`, for every finite set of users, every set of requests and every
set of roles with `User` and `Admin` in it:

* `TypeCorrect`: `Spec => []TypeOK`.
* `AdminStaysAlways`: `Spec => AdminStays`. `IInv` says of every request what its
  user and its copy allow at its program counter (`Shape`), and, as long as it is
  not `outrun`, what still holds of the table (`Sound`): its user is an active
  administrator, or one who departs has left another (`Spared`). `Counted` is where
  the number matters: a finite set of more than one administrator has one left
  when any one goes, and it is active when all administrators are.
* `PrivilegeIsGrantedAlways`: `Spec => PrivilegeIsGranted`, from the same
  invariant and that of the next theorem, which gives `by \in trusted` for a
  request that was outrun.
* `StrangersChangeNothingAlways`: `Spec => StrangersChangeNothing`. Its
  invariant `SInv` adds to `TypeOK` that active administrators are in `trusted`
  and that a request past the guard removes its own user or comes from one of
  `trusted` (`Authorised`).

`ProxyRoutesProofs`, for every set of miniverses, subdomains and requests and any
number of faults, from the named assumptions of `ProxyRoutes`:

* `TypeCorrect`: `Spec => []TypeOK`.
* `RoutesCurrentAlways`: `Spec => []RoutesCurrent`. The file says what the table
  says only at rest, so `IInv` adds what holds on the way there: a miniverse has
  one creator (`OneCreator`); a request marked `alone` is the only one in flight,
  and one that is not makes `behind` true (`Company`); while the API does not serve nothing is in
  flight (`Downtime`); unless `behind`, the file follows the table up to what
  the one request in flight has committed (`RoutesFollow`); and what each request
  has read and may still assume at its program counter (`Informed`, made of
  `Known` and `Vouched`).
* `OwnChangeRoutedAlways`: `Spec => OwnChangeRouted`, for any overlap, from
  `Known`: past `Refresh` a request's snapshot contains its own change.

`ManagementProtocolProofs` on `RpcConnection`, for every set of tasks and any number of failures, with
`start` and `stop` at any time: `TypeCorrect` and `SingleLoopAlways`
(`Spec => []SingleLoop`). The conjunction of `TypeOK` and `SingleLoop` is
inductive: a cancelled task is marked in `cancelled` until `CancelledError`
reaches it and in `ending` until its `finally` is over.

`StatusCacheProofs`, for every set of players and of refreshes that interleave,
any number of changes and of faults, both kinds of controller:

* `TypeCorrect`: `Spec => []TypeOK`. `TypeInv` adds that a refresh that works on
  the record has an answer (`Answered`) and that notifications do not outnumber
  changes.
* `ListCurrentAlways`, `NewsIsStoredAlways`, `SeenCompleteAlways`. The run has two
  refreshes; with more of them the question is whether pairs that keep their
  order keep it as a whole. `IInv` says: of two refreshes that have asked one knows
  the other (`Linked`), and, as long as nobody is `behind`, none is ahead of one
  that asked before it (`Ordered`), of those between storing and publishing the
  youngest has what is stored (`Told`), and when nothing
  more is going to ask, the youngest has the list of the source (`Fresh`). A
  refresh marked `alone` is the only one that has asked and agrees with all it has
  passed (`Vouches`): that is why it may end `behind`. `SeenCompleteAlways` needs no
  order: whoever was shown is in the record, in the value of a refresh that has
  still to get there, or in `lost` (`Kept`); a copy of the record differs from it
  in lost ones only (`Copied`), and what two refreshes that hold copies together
  would add is lost (`Clashed`). One lemma per part follows the
  steps of a refresh, one per kind of step the others.

`EventDeliveryProofs`, for every set of users and of handlers and any bounds on
the queues, from `RanksAssumption` and `BoundsAssumption`:

* `TypeCorrect`: `Spec => []TypeOK`.
* `RoleKnownAlways`, `NewsStaysInsideAlways`, `NewsArrivesAlways`. None of them is
  inductive, because what a socket will do depends on what is queued for it and in
  which order. `EInv` says of every user: each queued event fits the role in the
  database (`AllFit`); a socket that is not closed, and that no change has escaped,
  remembers that role or a notice is on its way (`Remembers`); and the part of
  its backlog and of the wire that no notice for the user precedes fits the role
  the socket remembers (`Sees`, made of `Judged`). The lemmas in front say what
  appending to a queue and taking its head keep of these.

`ManagementProtocolProofs` on `MinecraftVersions`, for all numbers and dates of the four formats, from
`VersionsAssumption`: `NeverInvertedAlways` and `AcceptedMovesForwardAlways`.
`VInv` says what has been answered at each step of the change (`Compare`, or the
order of the two dates when it asks for them); `DatesFollowOrder` is the
condition `Init` puts on the catalogue.

`ModsStoreProofs`, for every catalogue, any number of rows and requests, which may
overlap, and any number of failures, from the named assumptions of `ModsStore`:

* `TypeCorrect`: `Spec => []TypeOK`.
* `JarsMatchRowsAlways`: `Spec => []JarsMatchRows`. At rest the jars are those of
  the rows, in between they are not, so `IInv` adds how the two differ while a
  request is at work on a mod: what a request in flight has chosen (`Sane`), that
  one that has met no other on a mod is the only one there (`Apart`), that what
  it read of the rows is still so (`Current`), and, for every mod that is not
  `unclean`, that there is one row at most and that jars and rows agree unless a
  request is between the two, halfway in a known manner (`Tidy`).
* `InstallDeliversAlways` and `ModsMoveAlongAlways`: from the same invariant, the
  second with `Moved`, that the mods a change of the game version has passed are
  at a version that fits the new game. That there is one to move to, when any fits,
  is `LatestExists`: a finite set of versions that is not empty has a last one.
  `OwnStep` carries the argument as in the lifecycle: a step of a request disturbs
  its own mods only.

`FilesServiceProofs`, for every set of names, of uploads and of zips, every number
of extractions and every tree that the server may start with, from the named
assumptions of `FilesService` (the bound on requests is a natural number; names of
uploads and of what is in zips are names; the server starts with a tree):

* `TypeCorrect`: `Spec => []TypeOK`. It follows from `IInv`, whose first part is
  that the tree is one (`IsTree`). That is the file system's doing and no result about
  the program; it is what the other two theorems need to know of paths. Each
  change of the tree has a lemma that says it leaves one: taking everything below
  a path away (`Pruned`), adding a file in a directory (`WithTree`), making a
  directory with those above it (`MadeIs`), and `GraftTree`, which puts what is below
  one path below another and is shared by copy and rename. The paths are sequences, so
  the first part of the module is about their prefixes.
* `FilesStayAlways`: `Spec => FilesStay`. The invariant `IInv` says of the handler
  that is about to use a name (`HandlerOK`) that nothing was below it when it was found
  free, and that what is there now has been put there by an extraction: a member
  of a zip, or a directory (`Found`); and of an extraction that nothing was
  below its directory when it chose it (`ThreadsOK`). The steps of threads are the only
  ones taken while a handler is in that window, and they keep it (`ExtractKeeps`,
  `ThreadKeeps`). The property is then shown action by action.
* `UploadLandsAlways`: `Spec => UploadLands`, from the same invariant: an upload that
  the hook has admitted is one of `granted` (`UploadsOK`), and `Found` says what can be
  at its place.

Only model-checked: the assertion of `InitSync`, which is violated, and, because
the prover has neither liveness under fairness nor ENABLED, `BootComesThrough`,
`BootRestores`, `CancelledEnds`, `Reconnects` and `CatchesUp`.
Every other property of every run is a theorem.

## What is not modelled

In the parts that are modelled: the columns without a part in any property, a
username that changes at a login, the wording of events and answers, the
contents of the first message beyond `InitSync`, and that the deletion of a user
takes their roles away without an event (`EventDelivery` has no users to delete).

Also left out: the container of the router, which watches `routes.json`; the
decoding of an id from a webhook (`StatusCache` begins where the controller has
been found); the lists of operators and bans, which take the path of the list of
players; searches, lists and downloads, which only read.

The parts marked `not_modelled` in `PROJECT.json` are configuration, schemas,
migrations, stubs that raise, or relays of input and output without state of
their own.

## Plan

In this order:

1. *done* - `MiniverseLifecycle` with faults, races, restarts and refinement;
   `InitSync`; `MinecraftVersions`; type correctness and `Recorded` proved.
2. *done* - `UserAdmin` and `RpcConnection` with their proofs; `EventDelivery`.
3. *done* - `StatusCache`: refreshes and notifications that overlap, players
   seen, the router's webhooks; its invariants proved.
4. *done* - `ProxyRoutes` with its proofs: snapshots of the table against the
   file, subdomains checked before they are written.
5. *done* - `ModsStore` and `FilesService`: files and rows that change together.
6. *done* - proofs: the refinement of `MiniversePromise` step by step,
   `ControllerCovers`, `LoopOwned` and `Settled`; `NeverInverted` and
   `AcceptedMovesForward`; the invariants and action properties of `EventDelivery`
   and `ModsStore`.
7. *done* - proofs about `FilesService`: `TypeOK`, `FilesStay` and `UploadLands`.
8. *done* - the windows between a check and its use: names found free beside
   extractions and the role beside an upload in `FilesService`, overlapping logins
   and departures in `UserAdmin`, the record of players in `StatusCache`; their
   properties restated with every exception named, and proved again.
9. Sockets of users who are deleted, in `EventDelivery`.
