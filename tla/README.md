# TLA+ models of the OpenSAND daemon control plane

This directory holds TLA+ models of the per-host OpenSAND daemon
(`src/opensand-daemon/`) and of the pieces that talk to it. It also holds the
TLC configurations that check them. Every definition is translated from the
Python source. `PROJECT.json` maps each definition to the lines it models.

## 1. Inventory

### Components

| Component | Source | State it keeps | Operations |
|---|---|---|---|
| Route manager `OpenSandRoutes` | `opensand_daemon/routes.py` | class-level and shared by all threads: `_routes_v4`, `_routes_v6` (host -> (prefix, gw)), `_started`, `_initialized`, `_unused`, `_is_ws`, `_name`, `_instance`, `_routes_lock`, `_route_hdl`. On disk: `<cache>/routes` (a pickle). In the kernel: the installed routes. | `load`, `set_unused`, `add_distant_host`, `remove_distant_host`, `setup_routes`, `remove_routes`, `add_route`, `remove_route`, `serialize`, `get_all_gw_by_tal`, `delete` |
| Command protocol handler `CommandHandler` | `opensand_daemon/command_handler.py` | per connection: `_data`, the socket files | `setup` (waits up to 5 s for the process list), `handle` (dispatch on DEPLOY / CONFIGURE / START / STOP / TEST), `handle_data_request`, `handle_start`, `start_binaries`, `handle_stop` |
| Test runner | `command_handler.py` `handle_test` | one child process; the class-wide stop event `MyTcpHandler._stop` | read `COMMAND`, chmod, spawn, poll every second, kill on stop, reply with the exit code |
| TCP handler base | `platine_daemon/tcp_server.py` (the daemon's copy is not under `src/`) | read/write files, `_data` | `read_data` (select with timeout, then `Timeout`; an empty line raises `EOFError`) |
| Process supervisor `ProcessList` | not under `src/` | `initialized`, `running` | `is_initialized`, `is_running`, `start`, `stop` |
| Collector service discovery | `opensand_collector/service_handler.py` | `_known_hosts` | Avahi `ItemNew` -> asynchronous `ResolveService` -> `_handle_resolve`; `ItemRemove` -> `_handle_remove` |
| Manager command server | `opensand_manager_core/controller/tcp_server.py` | none | one line `START [run]` or `STOP`, reply `OK` / `ERROR` |
| Manager GUI, env-plane dispatcher, global config, plugin descriptors, log levels | `opensand-manager/...`, `opensand-plugins/...` | GUI widgets, XML config | UI callbacks, XML I/O, constant tables |

### How they interact

The manager opens one TCP connection per command to the daemon's
`CommandHandler`. START calls `OpenSandRoutes.setup_routes` and then
`ProcessList.start`. STOP calls `ProcessList.stop` and then
`OpenSandRoutes.remove_routes`. The daemon's service discovery (an Avahi
browser like the collector's `ServiceHandler`) runs its callbacks in another
thread. Those callbacks call `add_distant_host` and `remove_distant_host`.
Every route-manager method takes the one class-level `_routes_lock`. DEPLOY
and CONFIGURE stream files, including `topology.conf`, which `setup_routes`
and `remove_routes` re-read on every call. The kernel routing table and the
route file outlive the daemon process.

### What is hard here

- **Two threads share the route table.** The lock makes each method body
  atomic, but only if every exit path releases it. Several paths do not: an
  `NlError` in `remove_routes`, and a `TypeError` from a `None` entry, because
  Python 2 reads `except KeyError, TypeError:` as `except KeyError as TypeError`.
- **Partial failure.** `add_route` installs IPv4, then IPv6, and rolls back
  only the family that failed.
- **Crash recovery.** `load()` trusts the route file. But `serialize()` does
  not write an empty table, and `setup_routes` writes the file before its loop
  changes the table.
- **Spot filtering.** START and STOP touch only hosts of the local gateway's
  spot, read from a topology file that DEPLOY can replace. `add_distant_host`
  does not filter at all.
- **Protocol.** Each command must get exactly one reply. The streaming DEPLOY
  sub-protocol can abort half-way. The test runner races a shutdown event
  against its child process.

### Properties that make each component correct

- Route manager:
  - every installed kernel route is recorded in the table (`KernelBackedByTable`);
  - a stopped platform has no daemon routes left (`StoppedMeansNoRoutes`);
  - a STOP that was answered OK stays in force, with no route in the kernel,
    until the next START, whatever discovery, a crash or `load()` do
    (`StopHolds`);
  - the table holds only hosts discovery currently announces (`TableOnlyKnown`);
  - no method returns holding the lock (`LockReleased`), and every call returns (`CallsReturn`).
- Command handler: exactly one reply per command. START replies OK only when
  the routes are set and the processes run. STOP replies only after the
  processes are stopped and the routes removed.
- Test runner: the child is always reaped. A reply is sent iff no shutdown was
  requested. A shutdown ends the handler within one poll.
- Collector discovery: once the signals are handled, the host manager holds
  exactly the daemons avahi publishes, whatever the order of resolve replies.
- Advanced dialog: the GTK main thread never blocks on `_host_lock`, which
  only it takes.

## 2. Plan

Done in sitting 1:

1. **`OpenSandRoutes`**: the route manager with both calling threads, the
   lock, the kernel, the route file, daemon restarts and topology changes.
2. **`CommandHandler`**: the daemon's connection state machine with the
   DEPLOY stream, START, STOP and TEST, composed with `OpenSandRoutes`
   through `INSTANCE`.
3. **`ServiceHandler`**: the collector's `ItemNew` / resolve / `ItemRemove`
   handling over the ordered D-Bus connection to avahi.
4. **`AdvancedDialog`**: the manager window's `_host_lock`, error popups
   with nested main loops, and the `update_trees` timer.

Done in sitting 2:

5. **`RouteTableAbstract`**: what the route manager promises (routes only
   toward announced peers and only while started, none after STOP, every
   peer eventually routed while started). `OpenSandRoutes` is shown to
   refine it (`INSTANCE ... WITH`, property `Implements`) in the fault-free
   configuration.
6. **`ServiceHandler`**: the `ext_port` test of `_handle_resolve`, the
   collector's `stop()` and `exit` (the main loop ends and the collector's
   own records are withdrawn).

Done in sitting 3:

7. **`OpenSandRoutes`**: the process before `load()`, `load` itself, the
   `_unused` return of every mutator, and a crash that restarts the
   process in that state (`EarlyCalls` for the unknown start-up order).

Done in sitting 4:

10. **`StopHolds`**: a history variable `stopAcked` records that a STOP's
    `remove_routes` returned normally (so `handle_stop` answered OK) and no
    START came since; the property relates that answer to the kernel and
    to `_started` at every later state, across a crash and `load()`.
11. **`StreamAcked`** (`CommandHandler`): the replies of a DEPLOY stream
    that fails half-way count exactly the units taken.

Done in sitting 5:

12. A topology with no gateway ids (`NoGwIds`: no `gw_table`, or no file
    yet): `RaiseNoGwIds` in `OpenSandRoutes` and `StopRaised` in
    `CommandHandler`. STOP then gets no reply, which `cmd_start` shows.
13. `StopAnsweredOnce` was removed: in `cmd_all`, `remove_routes` could
    never raise, so it only restated `StopReply`. The ways a STOP goes
    unanswered are now under `OneReplyPerCommand` in `cmd_start`.
14. `Publish` no longer gives the collector's own record an `ext_port`,
    which `service_handler.py:84` never publishes. With that, the
    collector filter of `_handle_new` (line 134) changes nothing
    observable, and the discovery run no longer checks `TypeOK`.

Left for later sittings:

8. `delete()` and the workstation role (`IsWs = TRUE`), and `set_unused`.
9. **`CommandServer`**: the manager's START [run] / STOP server, with the
   controller it drives (the controller is not under `src/`).

## 3. Modules

### `OpenSandRoutes.tla` / `MCOpenSandRoutes.tla`

State:

| Variable | Code |
|---|---|
| `table[f][h]` | `_routes_v4` / `_routes_v6`. The value is `NoEntry` (key absent), `NoneEntry` (key mapped to `None`, which `load()` produces) or `Route`. |
| `started` | `_started` |
| `lock` | `_routes_lock`: `Free` or the thread that holds it |
| `kernel[f]` | hosts whose prefix is routed through `NlRoute` |
| `snapshot` | the route file: whether it exists, and the table it holds |
| `topo` | `topology.conf` as `get_all_gw_by_tal` parses it: terminal id -> gateway id, plus the default `"*"` |
| `known` | the hosts service discovery currently announces |
| `call[t]` | the call that thread `t` (`disco` or `cmd`) has made and not yet run |
| `restarts` | how many daemon crashes have happened |
| `unused` | `_unused`: `True` in a new process until `load()` clears it |
| `stopAcked` | history, read only by `StopHolds`: a STOP's `remove_routes` returned without an exception (after its loop, or at the `_unused` test) and no START (`setup_routes` call) came since; it survives a crash, as the manager's view of the platform does |

Actions:

- `HostAppears` and `HostDisappears`: the discovery events.
- `add_distant_host` and `remove_distant_host`.
- `CallRoutes`: the topology read that happens before the lock is taken.
- `setup_routes` and `remove_routes`. Their loops over `set(keys)` run in
  every order, through the recursive `SetupLoop` and `RemoveLoop`, because a
  Python set has no fixed iteration order.
- `Reconfigure`: DEPLOY replaces the topology file.
- `load`: the daemon main's `load()`: the route file fills the empty
  table and makes the platform presumed started; `_unused` is cleared.
- `ReturnUnused(t)`: the `if OpenSandRoutes._unused: return` that opens
  all four mutators. It is read outside the lock, but only `load()`
  changes it, so reading it in the same step as the return is exact.
- `RaiseNoGwIds`: `setup_routes` or `remove_routes` read a topology with
  no gateway ids (`NoGwIds`, a member of `TOPOLOGIES` where a run allows
  it). `get_all_gw_by_tal` returns `[]`, or `etree.parse` raises on a
  missing file. Indexing the list raises `TypeError`, which the
  `except KeyError` does not catch, so the method ends before the lock
  with nothing changed. The locked bodies are guarded against `NoGwIds`.
- `Restart`: a crash. The new process has the class attributes' initial
  values (empty table, not started, `_unused` true); the kernel and the
  route file survive; calls in progress are lost. `load` follows.

`Init` is a fresh install before `load()`. The daemon main, which decides
whether discovery and the command server start before or after `load()`,
is not in the repository, so the constant `EarlyCalls` chooses: with
`TRUE`, discovery events and START/STOP may reach the route manager
before `load()` and are dropped by `ReturnUnused`.

Each method body is one step, because it runs under the lock. A body that
raises an exception the method does not catch returns with `lock` still held
by its thread (`Return(t, TRUE)`). `AddRoute` and `RemoveRoute` return the set
of possible outcomes of `add_route` and `remove_route`:

- `NlExists` (route already there) on add is a success.
- `NlMissing` (route not there) on delete is a success.
- `NlError` happens only when `KernelAddMayFail` or `KernelDelMayFail` allows it.

Abstraction: a host has one fixed prefix per family. The gateway address of
a route is dropped, because it changes no control flow. Host names, terminal
ids and gateway ids are strings of the MC module. The MC module has:

- the local gateway `gw0` (instance `0`);
- terminals `st1` and `st2`;
- the topologies `OneSpot`, `TwoSpots` (terminal 2 behind gateway 3) and
  `ByDefault` (terminal 2 dropped from the table, so it falls back to the
  default gateway of the same spot; `routes_addfail` lets DEPLOY switch
  between it and `OneSpot`).

Fairness: `load` is weakly fair (the daemon main calls it), and so is
each method body and `ReturnUnused`. The lock is free in every state
unless a body leaked it, because bodies are atomic. So a pending call stays
enabled, and weak fairness is exactly what a Python thread that is scheduled
gets. Discovery events, commands, DEPLOY and crashes have no fairness. Nobody
has to call.

Refinement: `Announced` is the set of hosts discovery has announced and
not withdrawn, counting a host whose `remove_distant_host` call is still
pending (its routes are still owed a removal). The mapping is
`routes <- kernel, announced <- Announced`; `started` maps to itself.
Under it, every step of `OpenSandRoutes` is a step of
`RouteTableAbstract` or a stutter, and the weak fairness of the method
bodies gives the abstract `WF(RouteTo(h))`. This holds only where the
kernel accepts every change, there is no crash and there is one spot;
each of those faults has a violation run below.

### `RouteTableAbstract.tla`

| Variable | Meaning |
|---|---|
| `routes[f]` | the peers routed in family `f` (the kernel of the implementation) |
| `announced` | the peers announced and not withdrawn |
| `started` | the platform is started |

Actions: `Announce`, `Withdraw` (the peer loses its routes at once),
`RouteTo` (while started, a peer gains routes in some families), `Start`
and `Stop` (no route is left). Its `Spec` has weak fairness on `RouteTo`,
so a started platform routes every announced peer.

### `CommandHandler.tla` / `MCCommandHandler.tla`

The module declares the route manager's variables and its own, and takes
the route actions from `R == INSTANCE OpenSandRoutes`. It adds:

| Variable | Code |
|---|---|
| `procInit`, `running` | `ProcessList.is_initialized()`, `is_running()` (not under `src/`, modelled from the spec) |
| `phase` | where the connection's handler is: `setup`, `handle`, `stream`, `stop_routes`, `test_read`, `test_poll`, `test_reap`, or `closed` |
| `polls` | `nbr`, the count of one-second waits in `setup()` |
| `cmd` | `self._data`, the command line |
| `replies` | the lines written on this connection, as `OK`, `ERROR` or `CODE` tokens |
| `units` | content units read by `handle_data_request` |
| `child` | the TEST child process |
| `stopEv` | the class-wide `MyTcpHandler._stop` event |

Actions:

- `Accept`, `SetupWait` and `SetupDone`: `setup()`.
- `NotInitialized` and `ReadCommand`: `handle()`. `ReadCommand` dispatches
  to `handle_data_request`, `handle_start`, `handle_stop`, `handle_test` or
  `UnknownCommand`.
- `StreamUnit`: one `receive_content()` of the DEPLOY loop, with its
  outcomes. A unit may replace the topology.
- `RemoveRoutesBody` and `StopReply`: the locked `remove_routes` body, and
  the reply, which is skipped when the body raised.
- `StopRaised`: `remove_routes` raised before the lock (`RaiseNoGwIds`);
  handle's catch-all logs it and the connection closes with no reply.
- `TestRead`, `TestKill` and `TestReply`: `handle_test`. The stop event is
  read at the loop exit and read again before the reply.
- Environment: `LoadProcessList`, `LoadRoutes` (the route manager's
  `load`), `Shutdown`, `ChildExits`, and `Discovery` (the discovery
  thread's route calls, including their return before `load()`).

START never reaches the route manager. `handle_start` calls
`setup_routes()` without its argument and raises `TypeError`. So in this
composition `setup_routes` never runs, and the platform is never started.
The restart of the route manager is left out here; `OpenSandRoutes` checks
it.

Fairness: each handler step is weakly fair. The handler is its own thread,
and every read it makes has a timeout. The manager, the test program,
discovery events and the daemon's shutdown get no fairness.

### `ServiceHandler.tla` / `MCServiceHandler.tla`

| Variable | Code |
|---|---|
| `pub` | the (name, interface, has `ext_port`) services avahi-daemon publishes |
| `bus` | the D-Bus messages avahi has sent the collector and it has not handled: `ItemNew`, `ItemRemove`, resolve replies (with the `ext_port` flag) and errors, in order |
| `req` | the `ResolveService` calls the collector sent and avahi has not answered, in order |
| `known` | `_known_hosts` |
| `hm` | the hosts given to the host manager by `add_host` and not removed by `remove_host` |
| `flaps` | publications so far (bounded by `MaxFlaps`) |
| `loop` | the collector's GLib main loop: `running` or `stopped` |

Actions: `Publish` and `Unpublish` (avahi's side, from its documented
behaviour), `AvahiResolve` (the reply or error for the oldest request),
and the collector's `handle_new`, `handle_resolve`, `error_handler` and
`handle_remove`, each the whole callback; `stop` (the main loop quits)
and `exit` (the collector's own records are withdrawn after the loop).
The collector's own record carries `transfer_port` and no `ext_port`
(`service_handler.py:84`), so `Publish` gives it none. A reply without `ext_port` makes `_handle_resolve` raise `ValueError`,
which it catches: the host stays unknown. So `Live`, the hosts the
collector should know, counts only records with the port. Addresses and
port numbers are left out: `add_host_addr` on a known host changes no
property. Fairness: while the main loop runs, the GLib main loop
dispatches every message and avahi answers every request, so those steps
are weakly fair; publications and `stop` are not.

### `AdvancedDialog.tla` / `MCAdvancedDialog.tla`

| Variable | Code |
|---|---|
| `hosts` | the names of `model.get_hosts_list()` |
| `hostsName`, `modTree` | `_hosts_name`, and the keys of `_modules_tree` |
| `current`, `allModules` | `_current_host` (its name), `_all_modules` |
| `lock` | `_host_lock`, a non-reentrant `threading.Lock` |
| `timer` | whether the `update_trees` timeout is installed |
| `pc`, `caller`, `todo` | where the main thread is, which callback started the loop, and the loop items left |
| `changes` | hosts joined or left so far (bounded by `MaxChanges`) |

Every callback runs in the GTK main thread. The only re-entrance is the
nested main loop of a modal `error_popup`, where the timer still fires. So
`pc` has popup phases, and "the main thread acquires a lock it holds" is
the phase `frozen`. Actions: `HostJoins` / `HostLeaves` (the model's
host list), `update_trees`, `ResetBegin` (load and undo), `ApplyBegin`
(apply and OK), `LoopItem`, `PopupDone`, `ResetEnd`, `ApplyEnd`,
`on_host_selected`, `on_plugins_checkbutton_toggled` and `close`. PyGTK
drops a timeout whose callback raised; `update_trees` models that.
No fairness: a GUI waits for its user.

## 4. Runs

| Run | Config | Expect | What it shows |
|---|---|---|---|
| `routes_onespot` | one spot, and a DEPLOY of a topology with no `gw_table`; no kernel errors, ≤1 restart, no call before `load()` | pass | `TypeOK`, `KernelBackedByTable`, `StoppedMeansNoRoutes`, `StopHolds`, `CallsReturn`: in this setting the route table, the kernel and the file stay coherent across a crash, and a STOP answered OK stays in force: `remove_routes` deletes the route file, so `load()` after a crash does not restart the platform. A START or STOP that raised on the topology with no `gw_table` changes nothing. |
| `routes_addfail` | one spot, kernel add errors, DEPLOY switching `OneSpot`/`ByDefault` | pass | the per-family rollback keeps every installed route recorded, STOP removes them all, and the lock is always released. |
| `routes_refines` | one spot, no kernel errors, no restart, DEPLOY switching topologies, no calls before `load()` | pass | `Implements`: the route manager refines `RouteTableAbstract` under the mapping `routes <- kernel, announced <- Announced`. |
| `routes_resurrect` | one spot, kernel add errors, ≤1 restart, early calls | violation | `TableOnlyKnown`: hosts come back from the route file after a restart. TLC prints a `remove_distant_host` lost in the crash; the same run reaches a remove dropped by the `_unused` test between the restart and `load()` (`routes.py:172`) and a stale file left by `serialize()` skipping an empty table (`routes.py:396`). With `MaxRestarts = 0`, an IPv6 entry kept after a failed IPv4 add makes `remove_distant_host` raise at `routes.py:203`, and the vanished host is routed at the next START. |
| `routes_lock_leak` | kernel add and delete errors, ≤1 restart | violation | `LockReleased`: `remove_routes` leaks the lock on `NlError` (`routes.py:308`); with `KernelDelMayFail = FALSE`, the chain partial rollback -> `None` persisted -> restart -> `TypeError` under the lock (`routes.py:185`) does the same. |
| `routes_other_spot` | two gateways, ≤1 restart, early calls | violation | `StopHolds`: TLC prints a host of the other spot, discovered while started, keeping its route after STOP (`routes.py:160` vs `:291`). With `TOPOLOGIES <- MCOneSpot` the same run prints the crash case: START writes the route file, the daemon restarts, a STOP reaches it before `load()` and returns at the `_unused` test (`routes.py:268`) so the manager gets OK, and `load()` then restores the routes and presumes the platform started. |
| `cmd_all` | every command, an unknown line, kernel add errors, shutdown, a topology with no `gw_table` | pass | `TypeOK`, `ChildReaped`, `CodeOnlyAfterExit`, `StreamAcked`, `ShutdownEndsHandler`: a test child is always reaped, an exit code is sent only for a child that ended by itself (the stop event is read twice, at `command_handler.py:217` and `:229`), a DEPLOY or CONFIGURE stream that fails half-way (`command_handler.py:131`) has written one OK per unit taken, the last included, and at most one ERROR after them, so the manager knows how far the unrolled-back transfer got, and a shutdown ends the connection in progress. |
| `cmd_start` | START, STOP and an unknown line; a topology with no `gw_table` | violation | `OneReplyPerCommand`: TLC prints START getting no reply (`command_handler.py:150`). The same run reaches an unknown command (`:117`) with no reply. With `LINES = {"STOP"}` it prints a STOP with no reply: on a topology with no `gw_table`, `remove_routes` raises `TypeError` at `routes.py:273`. Spec section 4.3 says STOP always replies OK. |
| `disco_oneiface` | 3 names, one interface, ≤4 publications, records with and without `ext_port` | pass | `HostsMatchWhenQuiet`, `EventuallyConsistent`: late resolve replies never leave the host manager wrong once the bus is quiet, and while the collector runs it ends up agreeing with avahi (about 490 000 states). |
| `disco_twoifaces` | two interfaces; the collector may stop, so deadlock is not checked | violation | `HostsMatchWhenQuiet`: `_handle_remove` ignores the interface (`service_handler.py:180`). |
| `gui_popups` | 2 hosts, ≤2 host changes | pass | `TypeOK`, `HangOnlyAfterTimerFailed`: the releases around `error_popup` keep the nested timer from blocking the main thread. |
| `gui_host_leaves` | same | violation | `GuiNeverHangs`: a host that leaves before it was selected makes `update_trees` raise `KeyError` with the lock held (`advanced_dialog.py:178`); the next undo, apply or OK hangs. |

Observed while modelling, without a run of its own:

- With `EarlyCalls = TRUE` in `routes_refines.cfg`, `Implements` fails:
  a peer announced before `load()` is dropped at `routes.py:145` and is
  never routed, however long the platform stays started. Whether this
  happens depends on the daemon main's start-up order.

- START with no known peer writes no route file (`routes.py:396`), so a
  restarted daemon's `load()` presumes the platform stopped while it runs.
- In the manager's `tcp_server.py:125`, a bare START calls `set_run('')`,
  because `''.isspace()` is False; the default-run branch is dead.

Bounds for the command handler: at most 2 stream units per DEPLOY, which
is enough for a unit, then the last unit or an error. One connection is
open at a time, because the manager sends its commands one after the other.

Bounds: the bounds are 3 hosts (the local one and two peers, enough for one
peer in each spot), 2 address families and at most 1 restart. One restart is
enough to exercise `load()` from every file content a run can reach. Every
violation above appears within 10 steps. The passing runs explore all orders
of both threads' calls over those hosts.

A violation run shows one counterexample, the shortest. Where a run
stands for two findings, the config change named in the table shows the
second.

The passing runs hold only under the settings their configs name. Each
setting they leave out has a violation run that shows the failure.

## 5. Not modelled

- The manager's `CommandServer` and controller (planned, see section 2).
  The server is a thin dispatcher; the controller it drives is not under
  `src/`.
- The GUI views and dialogs other than `AdvancedDialog`, the env-plane dispatcher, the global
  configuration model, the plugin descriptors and the log-level table. They
  are UI or static data, with no concurrency or failure handling of their own.
- `nl_utils.NlRoute`, the netlink wrapper, is not under `src/`. Its behaviour
  is the `NlExists` / `NlMissing` / `NlError` outcomes above.
- A crash in the middle of a locked body, for example between `add_route` and
  `serialize`. Bodies are atomic in this model.
- A host whose address changes between two announcements.
- The second way `update_trees` can raise under `_host_lock`:
  `on_host_selected` sets `_current_host` (`advanced_dialog.py:280`) before
  it checks the host's configuration (282-289), and the next timer tick
  dereferences the missing configuration at line 238. It ends the same way
  as the `KeyError` at line 178 that `gui_host_leaves` shows (the lock held,
  the timeout dropped), so it adds no result of its own.
- A STOP that blocks forever on a route lock an earlier call leaked
  (`command_handler.py:186`). In `CommandHandler` the kernel never holds a
  route, because START always raises before `setup_routes`, so no route
  call there can leak the lock. The leak itself is what `routes_lock_leak`
  shows.
- `set_unused` (the satellite role): every method then returns at its
  first test, so there is nothing for a property to tell apart.
- The workstation role and `delete()`: they need runs with `IsWs = TRUE`
  (a workstation is started by `load()`, never persists its routes, and
  a crash leaves its kernel routes with an empty table). The project's
  runs are spent on the gateway and terminal roles, where the findings
  are.
