# openhop_repeater: TLA+ models and proofs

openhop_repeater is a MeshCore repeater for LoRa: a Python daemon that receives
packets from a half-duplex radio, relays floods and routed packets under a duty
cycle, serves local identities (the repeater itself, room servers, companion
devices connected over TCP), stores and publishes telemetry, and hosts plugins.
These modules describe the parts of it whose correctness depends on the order
of events: what runs between two awaits, what a timeout overtakes, what a crash
leaves behind.

Paths below are relative to `src/repeater/`. `PROJECT.json` maps every
definition to the lines it stands for.

## 1. Inventory

### How the program runs

`main.py` builds one asyncio event loop. The dispatcher of openhop_core (outside
this repository) reads the radio and hands packets to `PacketRouter`, which
offers each to the helpers and companion bridges that may own it and passes it
to `RepeaterHandler` (`engine.py`). The engine decides about relaying and starts
one task per transmission. On the event loop a piece of code is atomic between
two awaits; every await lets the other tasks run. Beside the loop there are
threads: `asyncio.to_thread` calls into SQLite, the CherryPy request threads, the
storage writer, MQTT clients and their timers, the GPS reader. The plugin manager
is a process of its own, with IPC workers and a supervisor thread.

### Components

| component | state | operations | what is hard | what makes it correct |
|---|---|---|---|---|
| Transmit scheduler (`engine.py` 1558-1775, `__call__`) | `_tx_lock`, tasks, counters | `schedule_retransmit`, retries, deferral, `_await_radio_link` | tasks wake in any order; the radio fails; the link drops | one packet on air at a time; bounded attempts; every call returns; counters agree with the air |
| Airtime manager (`airtime.py`) | `tx_history` | `can_transmit`, `record_tx` | checked before, used after an await | no window over budget |
| Forwarding engine (`engine.py`) | `seen_packets`, `recent_packets` and its index, transport-key cache, mode | `process_packet`, `flood_forward`, `direct_forward`, `forward_routed_ack`, `forward_multipart_direct`, `mark_seen`, `cleanup_cache`, reload | bounded and expiring memory, stale caches, colliding one-byte hashes | relays once, paths bounded and true, floods cover, ACKs survive |
| Packet router (`packet_router.py`) | queue, `_in_flight`, `_route_tasks`, delivered marks, inject lock | `enqueue`, `inject_packet`, `_route_packet`, `stop` | many routes at once, owners that share a hash, bridges that raise, shutdown | counts exact, injections in order, each packet settles, marks tell the truth |
| Room server (`room_server.py`, with `login.py`, `text.py`, `acl.py`, `sqlite_handler.py`) | ACL, rows of `room_messages` and `room_client_sync`, `global_limiter` | login, post, sync loop, push, ACK or timeout, eviction, cleanup | the mesh repeats, reorders and loses; restart; rooms share a limiter | one push out at a time, no post skipped or stored twice, posts settle |
| Advert limiter (`handler_helpers/advert.py`) | hash cache, token buckets, violations, penalties, tier | `process_advert_packet` and its windows and clean-ups | limits that change under way; state thrown away at a limit | a bounded rate, no penalty for the polite, copies not charged |
| Plugin runtime and manager (`plugins/runtime.py`, `manager.py`, `__main__.py`) | handles, runtime states, exit times, venvs, `state.json` | enable, disable, start, stop, restart, update, install, boot, shutdown, supervise | three kinds of threads, a lock given up during a stop, a process that may die anywhere | at most one process per plugin, a stop that holds, bounded restarts, an environment never lost |
| Container supervisor (`plugins/container_supervisor.py`) | the two child processes | restart, forward signals | orphans | plugins run once |
| Plugin IPC (`plugins/ipc.py`) | worker pool, slow slot | one request per connection | deadlines, unknown outcome | a request is answered or refused |
| Plugin storage, catalogue, releases, manifest | files | download, verify, unpack | partial downloads | only verified content is installed |
| Companion frame server and bridge (`companion/`) | memory queue, `companion_messages`, contacts, channels | persist, sync, evict, restore, import | persists overlap syncs; pop precedes the write; an import beside the event loop | no message lost or repeated but where the code accepts it |
| Configuration (`config.py`, `config_manager.py`) | `config.yaml` and its backup, the shared dict | `update_and_save`, `save_to_file`, `save_config`, `live_update_daemon`, `load_config` | a failure or an end of the process between two steps; callers with and without the lock | a refused value is never in use, an acknowledged one stays, a whole file is on disk |
| Neighbour scopes and publisher (`neighbor_scopes.py`, `neighbors_publisher.py`) | one pending query, `_sweep_lock`, the schedule, rows of `neighbor_scopes` | tick, manual cycle, single query, discovery, sweep, answer, timeout, publish, restore | late and repeated answers, a query beside a cycle, restarts, a purge during a sweep | a row says what its neighbour said; cycles keep their distance and come to an end |
| Neighbour links (`neighbour_links.py`) | a locked table | update, expire, evict | its limit | keeps the freshest |
| Policy engine, region map, identity manager | rules, tables | evaluate, register | hash collisions | one identity per hash |
| Trace, discovery (`trace.py`, `discovery.py`) | pending pings, sessions | start, answer, time out, clean up | answers that race a timeout | an answer wakes its caller only |
| Path, protocol request, mesh CLI | none of their own | answer a request | | |
| MQTT (`mqtt_handler.py`) | per broker: client, `_running`, timers, flags | connect, callbacks, reconnect, refresh JWT, disconnect | the library's loop, timers and the refresh act at once | somebody always looks after the connection |
| Glass (`glass_handler.py`) | pending results, settings | inform, run commands, apply config | nothing beside its one task | each result is sent |
| Storage collector, SQLite, RRD, WebSocket | a write queue, tables | record, aggregate, broadcast | one writer thread | |
| GPS, sensors, hardware statistics | last readings | read, publish | reader threads | |
| Update service (`update_endpoints.py`) | `_UpdateState` under a lock, the channel file | check, install, set channel, restart | jobs that set the state as if alone | the state is true, one install at a time |
| CAD calibration (`web/`) | job state | calibrate | borrows the radio | gives it back |
| HTTP API, authentication, front end | sessions, tokens | requests to the components above | | |
| Daemon lifecycle, CLI, packaging | | start, stop, install | shutdown order | |

Calls and shared state between them: router -> helpers, bridges, engine (awaited);
engine -> dispatcher (awaited under `_tx_lock`), storage (queued); advert helper ->
engine by a mark on the packet; room server -> router by `inject_packet`, ->
SQLite in threads; HTTP threads -> the loop by `run_coroutine_threadsafe` and
-> the shared config dict; HTTP -> plugin manager by its socket.

The `hazards` of `PROJECT.json` list, line by line, what a test would hardly
reach, with the properties that cover it. Those no property covers:

- Clocks: the duty-cycle window (`airtime.py:90`) and the posts of a room
  (`room_server.py:304`) use wall-clock time, so a step back keeps airtime for longer
  or puts a post before every watermark. The clocks of the models only move forward.
- SQLite reads that fail: a sync row that cannot be read looks like a new client
  (`room_server.py:733`); a login whose upsert fails is in the ACL and not served
  (`login.py:145`). Reads succeed in the models.
- Seconds: a post in the same second as its client's login is taken for a retry
  (`text.py:86`). The model's clients number their messages.
- A login during a push gets the push's failure (`room_server.py:552`), and a client
  that posts often refreshes the time its back-off counts from (`room_server.py:374`).
- A client evicted while the text handler awaits leaves a post with a made-up author
  (`text.py:589`).
- Two adverts of a new key are both taken for new (`advert.py:617`); an overflow
  clean-up forgets penalties (`advert.py:198`).
- The first install of a plugin has no marker to protect it (`runtime.py:120`); a failed
  update leaves a plugin stopped (`manager.py:778`); one supervisor loop serves all
  plugins (`runtime.py:777`); a client's deadline leaves an outcome unknown
  (`ipc.py:242`).
- A companion's message is deleted before it is written to the client
  (`sqlite_handler.py:4295`): a client that goes at that moment loses it. The model has
  it as a loss the code accepts.
- An import of contacts (`companion_endpoints.py:422`) loads, trims, saves and publishes in
  an HTTP thread what the event loop goes on changing.
- A local packet deferred for the duty cycle may find the window full again and be
  dropped (`engine.py:1671`); two copies of a PATH may both be delivered to the
  companions (`packet_router.py:691`). Section 3 says what the comments promise.
- A manual neighbours cycle is created as a task and a query may take the sweep lock
  before it runs (`neighbors_publisher.py:344`): the cycle is then lost and retried.
- A query of a key that was purged writes its row again, and rows come back when
  adverts are purged during a sweep (`sqlite_handler.py:2835`).
- `disconnect` does not set `_shutdown_requested` (`mqtt_handler.py:517`), so a timer
  that has fired may bring a connection back after it. The model has no shutdown.
- In parts not modelled: answers that race a timeout (`trace.py:401`,
  `discovery.py:259`).

## 2. Modules

| module | models | checked through | proved in |
|---|---|---|---|
| `TxScheduler` | `delayed_send`, `__call__`'s accounting, `AirtimeManager` | `MCTxScheduler` | `TxScheduler_proofs` |
| `DutyRadio` | abstract: a radio with one carrier, a budget and one verdict per packet | refined by `TxScheduler` | the refinement: `TxScheduler_proofs` |
| `Forwarding` | `process_packet` and what it calls, as operators | `Mesh`, `Repeater` | with `Mesh` and `Repeater` |
| `Mesh` | several engines and stations over a lossy broadcast radio | `MCMesh` | `Forwarding_proofs` |
| `FloodSpread` | abstract: packets spread from neighbour to neighbour, each node relays once | refined by `Mesh` | the refinement: `Forwarding_proofs` |
| `Repeater` | one engine: overlapping calls, expiry, records, key cache, modes | `MCRepeater` | `Forwarding_proofs` |
| `PacketRouter` | the router, its tasks and its shutdown | `MCPacketRouter` | `PacketRouter_proofs` |
| `RoomServer` | rooms, clients, ACL, SQLite rows, sync loops | `MCRoomServer` | `RoomServer_proofs` |
| `AdvertLimiter` | the advert helper's decision | `MCRepeater` | `Services_proofs` |
| `CompanionQueue` | a companion's messages between the mesh, SQLite and the client | `MCServices` | `CompanionQueue_proofs` |
| `VenvRebuild` | `ensure_venv_compatible`, step by step, with interruptions | `MCPluginRuntime` | `PluginRuntime_proofs` |
| `EnvSwap` | abstract: an environment replaced at once | refined by `VenvRebuild` | the refinement: `PluginRuntime_proofs` |
| `PluginRuntime` | the plugin manager's threads and processes; extends `VenvRebuild` | `MCPluginRuntime` | `PluginRuntime_proofs` |
| `NeighborCycle` | the neighbours publisher, the scope helper under it, the rows they fill | `MCServices` | `Services_proofs` |
| `BrokerLink` | one MQTT connection with its timers and token refresh | `MCServices` | `Services_proofs` |
| `ConfigStore` | the shared dictionary, `config.yaml` and its backup, the three ways of saving | `MCServices` | `Services_proofs` |
| `UpdateJobs` | the update service's state, checks and installs | `MCServices` | `Services_proofs` |
| `Selection` | a list with some of its members taken out | those that use it | `Selection_proofs` |

`Selection` serves `Repeater`, `CompanionQueue`, `RoomServer`, `PluginRuntime` and
`AdvertLimiter`, which take keys, messages, clients, exits and hashes out of lists. Its `OutOf` is `SelectSeq`
written without recursion, so that it can be proved about; `MCServices` assumes, and TLC
checks, that the two agree on small lists.

`Forwarding` has no state: it takes the node and the keys it has seen, so the same
decision is used by `Mesh` (many nodes, each a bounded cache) and `Repeater` (one
node, with time and concurrent calls). `TxScheduler` models what `Mesh` and
`Repeater` abstract as "a held packet is sent in any order or given up".

Some modules take a set of *loads* or *worlds*: records with the traffic, limits or
topology considered. `Init` chooses one. It keeps related small cases in one run
where a single configuration with all of them would be too large.

### TxScheduler

`phase[k]` is the await at which task `k`'s `delayed_send` stands: its delay, the
wait for the link, the lock queue, `send_packet`, the retry pause. `owner` and
`waiters` are the asyncio lock, served in order. `history` and `age` are
`tx_history`; an entry's age saturates at the window, and airtime is counted in
units so that a sum of airtimes is the size of a set. `caller[c]` is the
`__call__` that waits for the packet and its multi-ack copies and then counts.
`radiated` and `sends` are histories no code reads. A call whose own send raises counts nothing
while its copies may still go out, so `Accounted` speaks of the calls that returned, in any
behaviour.
Not modelled: cancellation of a caller (shutdown), the airtime formula, steps of
the wall clock.

### Forwarding, Mesh, Repeater

A packet has a type, route, scope, hash size and path; its payload is an id. The
order of the conditions of `flood_forward` and `direct_forward` is that of the
code: validity, do-not-retransmit mark, seen, loop, hop limit, scope, room in the
path. Payloads are not empty. `Mesh` gives every frame the trail of transmissions
behind it, a history. It has no time: an entry of the cache leaves by the limit
only; expiry is in `Repeater`, whose `seenPackets` is ordered as the `OrderedDict` is.
Some names in `Repeater` are longer than in `Mesh` (`PacketKeys`, `EngineNext`) because one
module proves about both.
`Repeater`'s `recent` and `index` are the deque and the dict beside it that file
duplicates under their original. Three handlers write them: the end of `__call__`,
`record_packet_only` for what the router has consumed, and `record_duplicate` for what the
dispatcher shows before its own check. The last exists only with
`dispatcher_dedupe_enabled`, and does not observe `max_duplicates_per_packet`
(`engine.py:763`), so `RecordsFiled` states that limit for a node without it. `RecordOnly` is
also `log_trace_record`, which appends the record of a TRACE in the same way.

### PacketRouter

`at[p]` is where packet `p` stands: in the queue, at the bridge or helper it is being
offered to, with the engine, or ending; a route task is a packet in `Running`.
`todo[p]` orders its bridges as `_companion_bridges_for_packet` does. The
injection lock covers the engine call only: the echo to the companions (`EchoEnds`) and the
enqueueing come after it, so several injections may be `echoing` at once and end in any order,
which `InjectInOrder`, about the transmissions, says nothing of. The done-callback that releases the
in-flight slot is an action of its own because the loop runs it later. The
answer a companion may send to a request that reaches its last hop is left out.

### RoomServer

One action is what a loop or handler does between two awaits. Posts are numbered
in stored order; `rows` is `room_client_sync`; `lastTs` the ACL's replay guard.
A push is `Push` (the choice of client and post), `Begin` (after the limiter),
`Finish` (ACK or timeout). The parts of a tick that are independent (eviction,
cleanup of old posts) are actions of `Upkeep`. Writes may fail in the load
`Faulty`; reads succeed. Refusals (bad password, full ACL, no permission) are one
`refused` login. `MaxPosts` bounds the log: without it copies of old messages
could be stored again after each restart.

### AdvertLimiter

All times are ages that saturate. What the engine does with an advert it is handed is
left out, and so is `reload_config`, which replaces the limits and clears no bucket. In the
quiet tier adverts pass uncounted. The activity EWMAs are
abstracted to the tier they indicate, any tier at each close of the window. The
rate limiter, penalty box and adaptive tiers are on; off is the base limit. The share
of entries the overflow clean-up drops is `EvictShare` (10 in the code).
`meter` is a history: what a key was granted less what the fastest refill allows.

### CompanionQueue

`persist[m]` is where the task that stores a message stands: its thread has not
committed (`writing`), has (`stored`, `refused`), or the event loop has taken it up
(`over`). `sync` is the client's one command, its `SELECT` and `DELETE` apart because
a push may commit between them. The queue in memory belongs to openhop_core; it is
modelled with the policy `companion_push_message` names as MeshCore's. `Stop` lets threads
finish, `Crash` does not, and `Start` may find another `offline_queue_size` in the
settings. `excused` collects the losses the code accepts and nothing reads it.
Order is not a property: memory is served before older rows by design.

### PluginRuntime and VenvRebuild

Threads are workers (one request each), the main thread (boot, `stop_all`) and
the supervisor; `lock` is the runtime's `RLock`. `MayBegin` is the refusal with a
conflict of a second operation. `stop` marks the state under the lock, signals and
waits without it, then sweeps. `VenvRebuild` is the rebuild as steps of the
thread that holds the lock, with directories that are complete for a Python,
partial or absent; `Interrupt` stops it at any step, and inside a removal or
creation. Modelled: one installed service plugin. Installs write to a release
directory of their own. A worker is chosen by `CHOOSE`, they are alike. The write
of the disabled state and the memory it mirrors are one step.
Not modelled: install over an installed plugin, uninstall, UI-only plugins,
descendants of a plugin's leader, the pipes of its output.

### NeighborCycle

`due` is the time to go until the scheduled cycle, `since` the age of the last success,
which the database keeps. `cycle` and `sweep` are the publisher's `_active` with its
place and the holder of `_sweep_lock`; they differ because a single query holds the lock
without a cycle. `pending.at` says where the one request stands: being sent,
answered before the send returned, waiting, answered. A request's tag is its place
in `asked`, so a late answer is an answer to an earlier tag, and any request may be
answered at any time, any number of times. `Ends` cancels all tasks, `Boots` restores the
schedule with brokers that have no connection yet.
In the code the tag is the time in seconds and one request waits at a time; two requests to a
neighbour within one second would share a tag, which the model does not have.
Left out: the cap on neighbours, SQLite errors, deletion of single rows.

### BrokerLink

The three threads are the library's loop (`LoopRetries`, `LoopEnds` and the two
callbacks), the reconnect timers (an attempt is `Fires`, `Checks`, `StopsLoop`, then
`Reconnects` or `ReconnectFails`) and the refresh (`Expiry...`). A step is what a thread
does between two calls into the library or two locks: none of these methods holds a lock, so
more steps would be possible inside `_schedule_reconnect`, which is one step.
`crossed` and `expired` are histories of the two races that leave the connection alone.
Left out: `disconnect` at shutdown, credentials that cannot be built, publishing. A
first connect that raises is only logged by the code; `KeepsTrying` excepts it.

### ConfigStore

The value a call gives its key is the call, so every place shows whose change it has.
`staged`, `direct` and `synced` calls differ in what comes first: the private copy, the
shared dictionary with `save_to_file` after it, the shared dictionary with `save_config`.
`file` may be `gone` (between rename and open) or `torn` (opened, not yet
dumped). `replaced` tells a dump into the file that was opened from one that replaced it.
`applied` is what the handlers have read. A live update has them read the sections its caller
names (`SectionsOf`), which need not be those the caller changed, or none: radio parameters and
regions of the mesh CLI are saved for the restart, and `update_and_save` has
`live_update=False`. It may fail at any section, and the call reports success all the same
(`config_manager.py:482`); such a call ends as `stored` instead of `saved`, until a start of the
process has the handlers read everything. It is one step with the publication that precedes it
under the lock. Two `save_config` at once are left out, and `update_and_save` with nothing to update
after a direct change is a `direct` call.

### UpdateJobs

A version is known by the channel it was fetched for. Checks and installs are threads of
their own, each with the place between two points where it leaves the lock or the process;
`fresh` and `held` are the cache and the rate-limit hold, which end at any time. Whether a
version is newer is left out: an install may always be forced. An install ends by
`finish_install`, with an error (`InstallFails`) or without, or its thread raises
(`InstallRaises`) and the state stays. `switched` and `raised` are histories for the exceptions
of `StateTrue`. A thread that cannot be started is left out.

## 3. Runs

| run | shows | bounds, and why they are enough |
|---|---|---|
| `tx` | half-duplex, duty cycle, counters that agree, every call ends, refinement of `DutyRadio` | a relay with a copy and a local send: the three kinds of task; window 3 and budget 2 with airtimes 1, 1, 2, so each can be refused because of the others and fit exactly |
| `mesh` | paths true and bounded, relay once, coverage, ACKs, refinement of `FloodSpread` | a chain, a pair with a cache of one, a line for a routed ACK, a diamond with colliding hashes; limits of hops and path bytes that the chain reaches |
| `repeater` | records filed, no early relay, scopes obeyed; bounded grants of adverts, a key that keeps its spacing not refused, copies not charged | engine: cache of one, two recent records, one duplicate each, three copies of a packet, with the dispatcher's check and without, so that every limit is passed; advert limiter: two keys, one tracked and one hash kept at a time, every limit a few ticks |
| `router` | exact counts, ordered injection, owners and marks that tell the truth, settling, shutdown | four loads; queue and cap of one and two |
| `room` | one push, no skip, stored once, posts settle | five loads; two failures, two posts, two rooms, a restart |
| `room_race` | violation: a login's watermark overwritten | one client that logs in twice |
| `plugins` | owned processes, stops that hold, bounded crashes, ready environments, refinement of `EnvSwap`, operations end, exits are noticed | two workers, two operations, two exits, two boots, two Pythons; four pids: the handle's, the two that a worker and the main thread are killing, and a new one |
| `plugin_orphan` | violation: a plugin runs twice in the container | as `plugins`, without a control group |
| `services` | rows that are true, cycles spaced and ended; a broker never abandoned; a whole file, saved changes that stand, refused ones unseen; a state that is true; messages delivered once | see below |
| `update_twice` | violation: a second install beside the first | two channels, two threads of each kind, four requests; three suffice |
| `update_raised` | violation: an install "in progress" that is over | one thread of each kind, two requests; one install suffices |
| `update_switched` | violation: the other channel's version after a switch | one thread of each kind, two requests: a check and a switch |

`services` has five parts that share nothing, and `repeater` two; `part` chooses one and the
others stay as they begin, which spares runs and multiplies no state space. In `services`:

- Neighbours: two of them and two requests undisturbed; one with two events (a restart, a
  purge, a change of the brokers); one with three requests and one event, so that an answer
  may be late to a request of a query, of a cycle and across a restart. Interval 2, retry
  and grace 1: the retry is sooner than the interval, and a deadline is passed.
- Broker: three reconnect timers alive at once, three setbacks, two refreshes. Each race
  found needs two timers and a setback; the third leaves room for another.
- Configuration: four batches of three calls on two keys, of every kind and of the
  same key, two failures, two ends: a failure and an end in one save, and again after. Of the
  calls one names no section, two more than they change, and every live update may stop short.
- Updates: two channels, two threads of each kind, four requests: a check, a switch under it
  and two installs.
- Companion: two direct messages and one SQLite error; a message and its repeat with the same
  hash and one error; a direct message and two of a channel. Sizes one and two, one restart: both
  queues overflow, and the rows may exceed the size by one or two after a restart.

Runs that turn `CHECK_DEADLOCK` off are of systems that may really stop: all
traffic handled, router stopped, all bounded operations done.

### Fairness

- `tx`: weak fairness of each task's step, of the callers and of the clock. The
  event loop runs what is ready; asyncio's lock is first-in first-out; the
  dispatcher bounds a send. Nothing is assumed of arrivals or the link.
- `router`: weak fairness of the queue loop, of the shutdown and of done-callbacks.
  `EveryPacketSettles` has the premise `HandlersEnd`: handlers return or raise.
  `ShutdownEnds` does without it: the drain has a timeout.
- `room`: weak fairness of the loops and of time. The mesh need not deliver anything
  and a client need not answer.
- `plugins`: strong fairness of the threads, because each competes for a lock that is
  released again and again (the supervisor sleeps half a second between rounds),
  and weak fairness would allow one to find it taken for ever.

- `services`: only the neighbours cycle has a liveness property. Weak fairness of the
  discovery window's end, of the sweep's requests, of its budget and of its steps: the event
  loop runs a task that can run, and the window, the timeout of a request and the
  budget are bounded waits. No neighbour need answer, no broker need be up, and nobody need
  tick. `Ends` makes a cycle end too, but at most twice.

### Where code and its documentation differ

Five runs show it (`findings`): a watermark overwritten (`room_server.py:463`), plugins
that outlive a manager in the container (`container_supervisor.py:167`), two installs at
once (`update_endpoints.py:430`); an install thread that raises in an unguarded call and leaves
"installing" behind, so that every later install is refused because one "is already in
progress" (`update_endpoints.py:1039`, `1275`); and a check that puts the version of the channel it
began with into the cache that a switch has just invalidated (`388`, `790`).

Properties with an exception name it, and the exceptions say something of the code:

- `KeepsTrying` excepts two races that leave a broker with nobody to bring it back
  until the daemon restarts, or a token refresh where the broker uses tokens: the library's loop
  comes back between an attempt's check and its `loop_stop`, the attempt fails, and the timer of
  "Try again later" (`mqtt_handler.py:445`) finds `_running` set and does not try; and a token
  refresh schedules a reconnection which is over before the refresh disconnects. It says that there
  is no third.
- `SavedStands` says of the handlers, in every behaviour, that they differ from the dictionary only
  in changes that failed or that no live update has told them of, as several callers intend. Of
  the dictionary and the file it says nothing once a `save_config` broke off or overlapped a
  manager's save: an acknowledged change may then be lost (`main.py:942` takes no
  `_CONFIG_WRITE_LOCK`). `DiskWhole` excepts a second interrupted `save_config`, whose rename
  overwrites the good backup with the torn file of the first.
- `StateTrue` excepts the cases of `update_raised` and `update_switched`, and says that there is
  no third: whoever else sets the state or the version leaves them true.
- `TwiceOnlyOverlapped` excepts a message taken from memory while it is being stored.

Met while reading, without a run:

- `engine.py:414` "Defer local TX until duty cycle allows instead of dropping": a deferred
  packet that meets a full window again when it wakes is dropped (`engine.py:1671`).
- `packet_router.py:29` "Deliver PATH ... to companion at most once per logical packet":
  mark and check are apart in the fan-out (`packet_router.py:691`), and two copies may both
  be delivered.
- `mesh_cli.py:46` "Live update only runs after a successful save so a failed write never
  half-applies a change": the region commands (`mesh_cli.py:941`, `953`) and Glass
  (`glass_handler.py:688`) apply the live update all the same. `FailToReplace` has it.
- `neighbors_publisher.py:170` says a cycle must not start on top of a query: a manual cycle
  may be created, a query start before its task runs, and the cycle then find the lock
  held; it gives up and schedules a retry.
- A broker connection never sets its `_shutdown_requested`: `disconnect` clears it
  (`mqtt_handler.py:517`), so the guards that read it (354, 370, 397, 416) pass always.
- `_state.last_checked` is read again outside the lock (`update_endpoints.py:1237`) and may
  be None by then.
- `update_nested` and `update_unscoped_flood_policy` of `ConfigManager` have no caller.
- In the front end (`html/assets`, minified): each failed reconnect overwrites the time the
  connection was lost, so the packets of the gap are not fetched; after sixty seconds
  without a ping the socket is closed with its handler removed, and no reconnection follows
  until the tab is hidden and shown.
- An advert the limiter refuses is marked do-not-retransmit, and the engine drops it
  before `mark_seen`; its copies leave at `advert.py:575` before any mark, so the engine
  relays one of them, which the log line of `advert.py:580` ("Dropping advert") does not
  say.
- A packet that reaches a companion twice stays in memory when the row of the first
  refuses the second (`frame_server.py:134`), so the client gets both, though
  `companion_push_message` says it "Deduplicates".
- A reload takes `cache_ttl` without the constructor's floor (`engine.py:2011`); a local
  packet already in the cache keeps its place in the eviction order (`engine.py:968`),
  so `NoEarlyRelay` excepts it.
- `start` over a handle that exited but was not swept overwrites it (`runtime.py:621`);
  enable whose start raises leaves a plugin enabled on disk and stopped; the progress
  listener is swapped outside the operation lock (`manager.py:86`).
- `advert.py:457` `record_packet_seen`, documented as called by the router, is never
  called; `config.yaml.example` names tier thresholds that are not the keys the code
  reads.

## 4. Proofs

Eight modules of proofs, checked by TLAPS from nothing. Each follows the same way: a
type invariant and the conjuncts that make the properties inductive, checked by TLC on
the instances of section 3 before they were proved; one lemma per action, or per part and
action; the properties as consequences. `theorems` of `PROJECT.json` lists the results.
Theorems without a run's property (the `...Invariance` ones, `TypeCorrect`, `AttemptsBounded`,
`NeverResent`, `EnvironmentSurvives`, `EnvironmentKept`) are what the others rest on, or stronger
statements about the same state.

**`TxScheduler_proofs`**, for any set of tasks, finitely many copies of each packet, any
airtimes, window, budget and delays (`TaskAssumption`, `TimeAssumption`; a window of no
length would count nothing):

- `TypeCorrect`; `MutualExclusion` (`HalfDuplex`); `DutyCycleHolds` (`DutyCycle`);
  `AttemptsBounded`; `NeverResent`.
- `CountersTrue` (`Accounted`): the counters agree with what went out for the calls that returned.
- `RefinesRadio` (`ImplementsRadio`): the whole scheduler, with its delays, deferrals,
  retries and link waits, implements `DutyRadio`.

`QueueInv` says that a task is in the lock's queue exactly when its phase says so, once, and
not the owner; `AttemptInv` what the attempt index says of sends already made; `WindowInv`
that `history` holds all that was radiated within the window, save packets without
airtime, and that the airtime of the window *with the packet being sent* is within the
budget. The last is what makes the record after the await safe: the check is made under the
lock, and nobody else can record in between. `AccountInv` adds what a call has counted so
far, at each point of its loop over copies, since `Accounted` speaks only of calls that are over.
Airtime sums are cardinalities of sets of units, so `AirtimeMonotone`, `AirtimeAdd` and
`AirtimeIgnoresZero` follow from facts about finite sets, without induction over data.

**`Forwarding_proofs`**, of `Mesh`, for any finite traffic, any topology, cache size, limits and loss
(`MeshAssumption`: packets originated in a world have ids of their own, a flood starts with
an empty path; nothing is assumed of hashes, which may collide):

- `PathsTell` (`PathTells`), `RelayedOnce` (`RelayOnce`).
- `FloodsSpread` (`ImplementsSpread`): under the hypothesis that, where a repeater
  originates a flood, the cache holds the keys in circulation. Without it the repeater would
  relay its own packet when it has forgotten it; a flood of a station needs no
  hypothesis, because a frame only comes from a node that carried it.
- `FloodsCover`: `Coverage` wherever the flood is `Unhindered`, for finitely many repeaters. The
  hypothesis is a fact about the mesh and the configuration, not about the run: caches hold what is
  in circulation, the scope is let through, the longest route fits the hop limits and the bytes of a
  path, and no two repeaters in reach share a hash while loops are looked for. A cache that
  forgets lets a packet come round, and the path by which it first comes to a repeater grow past the
  limits; a hash that two repeaters share may look like a loop. `Chain` of `MCMesh` is such a mesh.
- `AcksSurvive`: `AckSurvives` wherever `multi_acks` is on and every ACK has a `Route`: from the
  station that sends it, through the repeaters its path names, each heard by the next, to a station
  beside the last; of arbitrary length. The hashes of the path differ among themselves (a repeater takes
  itself for the next hop where they do not) but may be those of repeaters off the route. Caches
  may be of any size. `Line` of `MCMesh` has such a route.

`FrameInv` is about every frame in a queue, on the air or received: which packet it is a copy
of (`Copies`), that a flood's path is its trail and a direct packet's path what is left of the
original (`Tells`), and that its sender carried it (`Carried`). `RelayOnce` needs `SeenInv`: in a
roomy cache, whose room for all keys is a fact about cardinalities, nothing carried is forgotten.

The last two theorems rest on `PastInv`, about what has happened: a frame came from the sender
of its packet through repeaters that have each relayed it, a flood never twice through one
(`WayInv`); a seen key is that of a packet the repeater sent or relayed (`KnownInv`); only
repeaters in reach have relayed a flood (`ReachInv`); losses are counted up to two (`LossType`). On these,
what must still be there is inductive. `PendingInv`: while nothing is lost, a node that carried a
flood holds it, or each repeater that hears the node carried it or has a copy coming. A
copy that comes is taken unless the key is known (`TakesIt`): the frame went through different repeaters
in reach, which bounds its path and rules out a loop. When the air is quiet, the nodes that
carried the flood are closed under hearing, so they hold `Reachable`, which is defined as the least
such set and not by recursion. `AckInv`: an ACK that is past one stop of its route is past the
next, or the stop lost two frames of it, or lost one and has one of the pair left, or has both left.
A loss costs one of the pair (`StaysSpared`), either of the two gets the next stop to send both
(`AckDoubles`), and at most one loss for each repeater leaves one that gets there (`AckArrives`).

The same module, of `Repeater`, for any traffic, cache and list sizes, ages and values a reload
may bring (`RepeaterAssumption`: `cache_ttl` and the ages of the key cache lie below the age at
which ages stop being told apart):

- `RecordsAlwaysFiled` (`RecordsFiled`), `NeverEarly` (`NoEarlyRelay`), `ScopesObeyed`
  (`ScopeObeyed`).

`CacheInv` says that a key that is to be remembered is in the cache, and that each key behind it
was inserted by a call since it was last marked. It is an invariant about places: the key could
only go as the oldest, and then a call would have come for each of the other places, as many as
the cache has; a clean-up takes out only what has expired and keeps the order (`OutOfOrder`).
`ScopeInv` says that a revoked key in the key cache was revoked after the cache was read; `FileInv`
that only calls that are over are recorded, so that none is recorded again.

**`PacketRouter_proofs`**, for any packets, bridges, queue size and cap (`RouterAssumption`):

- `CountExact` (`InFlightExact`), `InjectedInOrder` (`InjectInOrder`), `OwnersAlwaysDecide`
  (`OwnersDecide`).

`QueueInv` ties a packet's place to the queue and to the calls that wait for the injection
lock; `LockInv` says that those wait in the order of the calls, just after the one that holds
it, and `SentInv` that what went out is a subsequence of the calls that are over, which is the
form of the order that is inductive; `RelayInv` says at each place of a task what was decided
about its packet.

**`RoomServer_proofs`**, for any rooms, clients, traffic, failed writes and restarts
(`RoomAssumption`):

- `OnePushAlways` (`OnePush`), `NothingSkipped` (`NoSkip`), `EachStoredOnce` (`StoredOnce`).

`NoSkip` compares a watermark with the posts a client missed when nothing is under way.
`SkipInv` adds the watermark a push has read and will write back, since both must stay below
every post in `Missed`; `BoundInv` keeps all of them below what the log will get;
`StampInv` orders stored posts by the client's stamps, none past the last accepted.

**`CompanionQueue_proofs`**, for any messages, sizes, faults and restarts (`QueueAssumption`):

- `AlwaysDeliveredOnce` (`DeliveredOnce`).

`OnceInv` bounds what the client got together with what it may still get, out of memory, a
row, a reply under way or a task that stores; `HeldInv` says where a message is that nobody
got and whose loss is not accepted.

**`PluginRuntime_proofs`**, for any workers, process ids, limit and window of crashes, Python
versions and interruptions (`RuntimeAssumption`; `PythonAssumption`; `PidAssumption`: a new
process is not one that is still waited for):

- `AlwaysOwned` (`Owned`) and `StopsStand` (`StopHolds`), under the hypothesis `CgroupKill`, the
  one a run shows to be needed (`plugin_orphan`); `RestartsBounded` (`CrashBound`).
- `EnvironmentSurvives`, `StartsReady` (`ReadyToRun`), `Refinement` (`ImplementsSwap`): of the
  rebuild by itself, `VenvSpec`, interrupted without bound.
- `EnvironmentKept`, `StartsFromOwnPython`, `RuntimeSwaps`: the same of the rebuild inside the
  runtime, under the lock of a start and beside installs. The refinement maps to the environment
  the next start would use.

`AtStep` says what is at the path and in the backup at each step of the rebuild: that
the backup is whole when the marker goes depends on the step. `PlanInv` says which thread may
have which calls before it (`Plan`: a stop kills and then sweeps, a start comes last), `LockInv` who
touches the environment; `HandleInv` that what a stop read is kept until it has killed it, `StopInv`
that a plugin that is not to run is gone or being stopped. `CrashInv` counts, with the
`Occurs` of `Selection_proofs`, the restarts among the exits of every age.

**`Services_proofs`**: the services beside the packet path.

- `ConfigStore`, for any calls, keys, batches, failures and ends of the process
  (`ConfigAssumption`; `DocumentAssumption`: a document is not mistaken for an absent or torn
  file): `DiskStaysWhole` (`DiskWhole`), `RefusedStaysUnseen` (`RefusedUnseen`), `SavedChangeStands`
  (`SavedStands`). `DiskInv` says what `save_config` leaves at each of its steps; `StandInv`, as
  long as no `save_config` overlaps another save, which keys may differ between dictionary,
  private copy and file, and because of which calls; `ToldInv`, without that hypothesis, which
  calls the handlers have not been told of.
- `UpdateJobs`, for any channels, threads and requests (`JobsAssumption`): `StateStaysTrue`
  (`StateTrue`), with what each check found before it writes (`CheckCurrent`), and with the two
  exceptions the property names.
- `BrokerLink`, for any number of timers, setbacks and refreshes (`LinkAssumption`): `AlwaysTended`
  (`KeepsTrying`).
- `NeighborCycle`, for any neighbours, intervals and events (`CycleAssumption`): `CyclesSpaced`
  (`Spaced`), with `DueInv` (after a publish, what is left of the interval is still to go), and
  `RowsStayTrue` (`RowsTrue`), with `PendingInv` (an answer carries the tag of its request) and the
  same of the results of a sweep that are not yet written.
- `AdvertLimiter`, for any keys, adverts, rates, gaps, penalties, cache size and clean-up
  (`LimiterAssumption`; that the powers of the penalty factor are numbers is assumed, and checked
  by TLC, because the provers know nothing of `^`): `RateBounded` (`RateBound`), `KeysTreatedFairly`
  (`FairToKeys`). `MeterInv` adds what the bucket holds and has coming at the fastest rate to what
  was granted: `RateBound` alone is lost at the next refill. `PaceInv` says that a bucket has
  filled at least since its key last met the limits, and that a penalty ends before a key can have
  behaved for as long as the longest penalty, so what keeps the spacing is refused by neither gap,
  tokens nor box. `CacheInv` says that each advert that must still be known has a live entry that
  only adverts heard since then follow, which the eviction of the oldest and the clean-up from the
  front both keep.

**`Selection_proofs`**: `OutOfFacts` (what is left, each once), `OutOfOrder` (in the order it was),
`OutOfOccurs`, `OutOfLength`, and the same of `Append` and `Tail`; they rest on `NthFinds` (the
numbers of a finite set are each found once, in order), by the pigeonhole principle, and on
`Least`, by well-founded induction (`WFMin`).

Only model-checked:

- Liveness: fairness and `ENABLED` are outside the prover.
- What a recursive definition computes for every input: induction over data is out of reach.

## 5. Plan

The order is by how much of the node's behaviour depends on a part.

1. Done: the modules above.
2. Next modules: `CompanionContacts` (book, rows, import, capacity), `Probes` (trace and
   discovery), the plugin IPC and catalogue install, the policy engine and the identity
   manager as operators, CAD calibration, the daemon's start and stop.
3. Proofs: every safety property a passing run checks has its theorem; what stays with TLC is
   listed at the end of section 4.

Left out for good: parsing, formatting and rendering; hardware drivers; the
front end; packaging scripts. They are I/O or data without an order of events. Glass is one
task with nothing beside it; what it does to the configuration is in `ConfigStore`.

The daemon is Python, and the `map` of `PROJECT.json` names Python lines throughout. The
JavaScript of the repository is the built web interface (charts, maps, a terminal
emulator, minified views), third-party or generated, and holds no state of the daemon.
