# TLA+ models of garden-linux

This directory holds TLA+ specifications of the stateful parts of garden-linux
(the Linux backend of the Garden container server), the TLC configurations
that check them, and `PROJECT.json`, which records for every definition the
source lines it models, for every run what it checks, and for every property
a seeded fault that it detects.

Run a check with `tlc -workers 2 -config <file>.cfg <MC module>`, for example
`tlc -workers 2 -config MCServerMain.cfg MCServerMain`.

## 1. The system

garden-linux creates and manages Linux containers on one host. The code in
this repository falls into these parts.

| Part | Source | State it owns | Operations |
|------|--------|---------------|------------|
| Subnet allocator (`subnets`) | not in the repository; behaviour in `spec.md`, expectations in `src/net_fence/subnets/subnets_test.go` | the allocation table: live subnet -> held IPs, behind one mutex | `Allocate(subnetSelector, ipSelector)`, `Release`, `Recover`, `Capacity` |
| Network fence (`network`) | `src/old/system_info/system_info_test.go` lines 28-91 (`Config`) and 422-663 (`f`, `Allocation`) | per container an `Allocation` (subnet, container IP, interface names, shareable, bridge); on the host: veth pairs and bridges | `Config.Main`, `f.Build`, `f.Rebuild`, `Allocation.Erect`, `Dismantle`, `Info`, `MarshalJSON`, `ConfigureProcess` |
| Container (`linux_backend.LinuxContainer`) | `src/unnamed/part_000` | state (born, active, stopped), events, the four recorded limits, the out-of-memory notifier, port mappings, NetOut rules, properties, each under its own mutex | `Start`, `Stop`, `Cleanup`, `Limit*`, `Current*Limits`, `NetIn`, `NetOut`, `Snapshot`, `Restore`, `Info`, `Run`, `Attach`, `StreamIn/Out`, property accessors |
| Server process (`main`) | `src/main.go` | the command line, the pools and lists made of it, the server (started, stopped), the signal channel and the goroutine that reads it | `main`, `getMountPoint`, `missing`, the goroutine of lines 275-279 |
| `FakeContainer` | `src/old/linux_backend/container_pool/fake_container_pool/fake_container.go` | what the double records: started, MTU, cleaned up, the saved snapshot writers (under `snapshotMutex`), the errors to return | `NewFakeContainer`, `ID`, `Handle`, `Properties`, `GraceTime`, `Start`, `Cleanup`, `Snapshot` |
| `transport.WriteMessage` | `src/Godeps/.../garden/transport/message_writer.go` | the byte stream of a connection | `WriteMessage` |
| Vendored tests | `pool_test.go`, `envelope_extensions_test.go` | - | - |

How they interact:

* The container pool (not in the repository) calls `f.Build` when a container
  is created. `Build` parses the network spec into a pair of selectors and
  calls the allocator's `Allocate`; the result becomes the container's
  `Allocation`.
* `LinuxContainer.Start` runs `start.sh`, reads the pid of `wshd` and calls
  `Allocation.Erect`, which configures the host (veth pair, bridge) and the
  container's end of the link.
* Destroying a container calls `Allocation.Dismantle`: `Release` in the
  allocator, then `deconfigureHost`, which removes the bridge only when
  `Release` reported that the subnet is not held any more.
* When the server is stopped it writes a snapshot of every container
  (`LinuxContainer.Snapshot`, which embeds `Allocation.MarshalJSON`). The next
  process starts with an empty allocator (`Config.Main`), and replays the
  snapshots: `f.Rebuild` calls `Recover`, `LinuxContainer.Restore` re-applies
  the memory limit and the network rules.
* `main` builds the pools, the quota manager, the graph and the backend,
  each step ending the process with `logger.Fatal` when it fails, starts the
  server, spawns a goroutine that waits on a channel of capacity one, and
  only then asks for SIGINT, SIGTERM and SIGHUP to be sent to that channel.
  The goroutine stops the server (which saves the snapshots) and exits.
* Clients and server exchange messages with `transport.WriteMessage`: one
  JSON value and a newline per message, several goroutines per connection.
* `StreamOut` starts `nstar` in the container with a pipe as its output and
  hands the other end to the client; a goroutine waits for `nstar`.
* `LimitMemory` starts an out-of-memory notifier process and a goroutine
  (`watchForOom`) that waits for it; when the notifier exits normally the
  goroutine registers the event and calls `Stop` itself, concurrently with
  whatever the clients are doing.

What makes it hard:

* requests of several clients run concurrently on one container and on one
  allocator; the container uses a separate mutex per field, and several
  operations change the host *outside* the mutex and record the change
  *inside* it;
* `watchForOom` is a fourth actor on the container, racing `Stop`, `Cleanup`
  and `LimitMemory`;
* `Dismantle` has an unlocked gap between `Release` and `deconfigureHost`;
* every call of a script or manager can fail halfway through an operation;
* signals arrive at any moment of the start-up and of the shutdown, before
  the process asked for them, before the goroutine waits, and while it is
  busy stopping the server;
* a restart throws away all state in memory; the host (cgroups, interfaces,
  bridges, traffic shaping) keeps what it had.

What must hold: no two containers share network space; the allocator's table
is exactly what the live fences hold; a bridge is removed only by its last
user; ports of the pool are never lost or handed out twice; an out-of-memory
condition stops the container and is reported once; a restart brings back
what the snapshot saved.

## 2. Modules

| Module | Models | Checked through |
|--------|--------|-----------------|
| `Subnets` | CIDR arithmetic, selectors, the allocation table, `Allocate`, `Release`, `Recover`, `Capacity` | `MCNetworkFence` / `MCNetworkFence.cfg`; alone in `MCSubnets` / `MCSubnets.cfg` |
| `NetworkFence` (extends `Subnets`) | the fence builder and `Allocation`, the names of a container's interfaces, the host as the fence sees it, restart and replay | `MCNetworkFence` / `MCNetworkFence.cfg`, `MCFenceDismantleRace.cfg` (and `MCFenceGateway.cfg`, `MCFenceStaticGateway.cfg`) |
| `LinuxContainer` | one container: lifecycle, limits, notifier and watcher, port mappings, properties, Snapshot, restart, Restore | `MCLinuxContainer` / `MCContainerNet.cfg`, `MCContainerOom.cfg`, `MCContainerNotifier.cfg`, `MCContainerCPURace.cfg` (and `MCContainerBandwidth.cfg`, `MCContainerStalePort.cfg`, `MCContainerOomRestart.cfg`) |
| `ContainerRun` | `Run` with `dedup` and `setRLimitsEnv`: the command that starts a process; `Attach`, `StreamIn`, `StreamOut` with its pipe, `nstar` and the goroutine that waits for it | `MCContainerRun` / `MCContainerRun.cfg` (and `MCContainerStreamLeak.cfg`) |
| `ContainerStats` | `Info` with `parseMemoryStat` and `parseCPUStat` | `MCContainerStats` / `MCContainerStats.cfg` |
| `ServerMain` | `main`: the start-up step by step, the pools and lists made of the flags, the signal channel, the goroutine that stops the server and exits | `MCServerMain` / `MCServerMain.cfg`, `MCServerSignalWindow.cfg` (and `MCServerMissingFlag.cfg`) |
| `ServerLifecycle` | the abstract lifecycle of a server process: starting, serving, draining, exited | as the property `LifecycleSpec` of `ServerMain` |
| `FakeContainer` | the test double of a container, called by two goroutines | `MCFakeContainer` / `MCFakeContainer.cfg` |
| `MessageWriter` | `WriteMessage` called by two goroutines on one connection | `MCMessageWriter` / `MCMessageWriter.cfg` |

`PROJECT.json` lists twelve runs. The eight configurations in parentheses are
kept beside them; section 3 says what each shows.

`NetworkFence` composes the fence with the allocator: its actions contain the
allocator's actions as conjuncts (`Build` is `Allocate` plus the fence made of
`result'`), so that a fence operation and the allocator call inside it are one
step exactly where the code holds the allocator's mutex, and two steps where
it does not (`DismantleRelease`, `DismantleDeconfigure`).

### Subnets

The allocator's source is not in the repository. The module follows the
written specification (data model, allocation rules, error conditions), with
one exception: `GatewayIP` is the last usable address of the subnet, which is
what the fence's tests expect of `subnets.GatewayIP` (see the findings).

| Code | Model |
|------|-------|
| IPv4 address, 32 bits | a number in `0 .. 2^Bits - 1` (`Bits` = 4 in the runs); the "/30" is the subnet with two host bits, `Slash30 == Bits - 2` |
| allocation table behind the mutex | `allocated`, a function from live subnets to non-empty sets of IPs |
| return values | `result`, a record with the operation, the error, and the subnet and IP |
| `Allocate` | `Allocate(sn, is)`: `SelectSubnet` (walk of the /30 grid or the static checks), `SelectIP`, `Hold` |
| `Release` | `Release(s, a)`: `Drop` removes the entry with its last IP; `released` says whether the subnet left the table |
| `Recover` | `Recover(s, a)`: the overlap check and the static IP check, without the rule that keeps static subnets out of the pool |
| the walk over the pool, `Capacity` | `Slash30s(pool)`: no subnet for a pool smaller than a /30; `Capacity` is the number of /30 subnets of `DynamicRange` |

Every operation is one atomic action: the manager takes its mutex on entry
and releases it on return. This is what the specification says of the
allocator, not something the model shows: no property is stated on
concurrent calls of the allocator itself.

A dynamic IP is the lowest usable address that nobody holds and that is not
the host's end. The specification names network+2 for a new /30, next to a
gateway at network+1; with the gateway where the fence's tests put it
(network+2 of a /30) the container is given network+1. The specification
names no error for a shareable subnet whose addresses are all held: the model
returns `ErrAlreadyAllocated`, one of the two failures the specification
allows for this step.

### NetworkFence

| Code | Model |
|------|-------|
| network spec string | `Empty`, `Invalid`, `Address(a)` (no "/"), `CIDR(a, n)`; `suffixIfNeeded` appends the /30, `ParseCIDR` zeroes the host bits |
| `Allocation` | `fence[c]`: subnet, containerIP, subnetShareable, bridgeIfcName (the subnet's address, as `hexIP(subnet.IP)`) |
| `FlatFence` JSON | `snapshots[c]`, or `Garbled` for a file that does not parse |
| veth pair and bridge on the host | `hostIfc[c]` (the bridge the host end is attached to), `bridges` |
| `f.Build` | `BuildInvalid`, `Build` |
| the interface names `Build` makes (487-498) | `ifaceName`, `containerIfcName`, `hostIfcName`: sequences of characters computed from `ContainerID[c]`, `NetworkInterfacePrefix` and `MaxIfcNameLen` (14 in the code); they are not stored in `fence[c]`, which they would not change |
| `Allocation.Erect` | `Erect`: `ConfigureHost` fails, or succeeds and a later step fails, or all succeed. `ConfigureHost` is not in the repository: when it fails the host is as before, and the failures of the later steps (559-621) are one outcome, since none of them changes what the fence knows |
| `Allocation.Dismantle` | `DismantleRelease` (under the allocator's mutex), then `DismantleDeconfigure` (unlocked); `dismantle[c]` holds what `Release` returned in between |
| stop of the server, `Config.Main` | `Restart`: every fence saved with `MarshalJSON`, allocator emptied, host unchanged |
| `f.Rebuild` | `RebuildGarbled`, `Rebuild` |

### LinuxContainer

| Code | Model |
|------|-------|
| `c.state`, `c.events` | `state`, `events` |
| `c.oomNotifier` and its process | `oomNotifier`: nil, unstarted (assigned, `runner.Start` failed), running, exited, killed, failed |
| goroutine `watchForOom` | `watcher`: none, waiting (in `Wait`), stop (before `stop.sh`), finish (after it), done, stopFailed |
| `c.current*Limits` | `current[k]` for k in bandwidth, cpu, disk, memory |
| cgroup, quota and traffic-shaping settings on the host | `enforced[k]` |
| port pool, `c.resources.Ports` | `portPool` (free ports), `ports` |
| `c.netIns`, `c.netOuts` | `netIns`, `netOuts` |
| `c.properties` | `properties`, a function from the keys that are set to their values; `NoProperties` is the empty map |
| the call a request thread is in | `call[t]`: idle, or the frame of a call between two of its steps |
| snapshot file, server process | `snapshot`, `server` (serving, stopping, restoring), `restarts` |

An operation that touches the host between two critical sections is split
where another actor can run:

* `LimitBandwidth`, `LimitCPU`, `LimitDisk`: `LimitSet` (the manager sets the
  limit, or fails) then `LimitRecord` (under the mutex);
* `LimitMemory`: `LimitMemory` (`startOomNotifier`), `LimitMemorySet` (the
  three cgroup writes; the errors of the first two are dropped, so a failure
  may leave either limit in force), `LimitRecord`;
* `Stop`: `Stop` (`stop.sh`), `StopFinish` (`stopOomNotifier`, `setState`);
* `NetIn`: `NetIn` (port from the pool, `AddPort`), `NetInRun` (`net.sh`, the
  mapping appended);
* `watchForOom`: `WatchWait`, `WatchStop`, `WatchStopFinish`;
* `Restore`: `RestoreBegin` (state, events, `startOomNotifier`), the memory
  steps of `LimitMemory`, `RestoreNet`.

`Start`, `Cleanup` and `NetOut` have one effect each and are one action.
Lines that follow each other without a step of another actor between them
that could tell them apart are one action too:

* `NetIn` lines 770 and 775: the goroutine takes no lock and makes no call
  between `Acquire` and `AddPort`, and `c.resources` is read by `Snapshot`
  only, after the server drained its requests;
* `StopFinish`, lines 416 and 418: no action reads `state` between
  `stopOomNotifier` and `setState`;
* `RestoreNet`, lines 325-347: no client calls a container that is being
  restored, and after the first failure the pool drops the container, so
  that the lists half rebuilt are seen by nobody;
* `Snapshot`: taken when every request thread is idle, as the server saves
  its containers after its requests ended.

`MaxNetIns` and `MaxNetOuts` are bounds of the model in the guards of `NetIn`
and `NetOut`; the code has no such limit.
`GetProperty`, `SetProperty` and `RemoveProperty` are one critical section
under `propertiesMutex` each (`PropertyCall` for the two that write);
`GetProperty` returns the value, or `UndefinedProperty` as `RemoveProperty`
does for a key that is not set. `Snapshot` saves the map.
The kernel is the actions `Oom` (the notifier exits normally) and
`NotifierFails`. The operator is `Snapshot` followed by `Restart`.

The container pool is not in the repository. Two of its behaviours are
needed and are modelled from their effect: it creates the container object
(`Create`, from `NewLinuxContainer`, whose arguments are the resources and
the properties; after a restart they are those of the snapshot) and it
drops a container whose `Restore` failed (`Recreate`, after which the model
goes on with a new container without properties).

### ContainerRun

| Code (`unnamed/part_000`) | Model |
|---------------------------|-------|
| `c.envvars` | `envvars` |
| the `exec.Cmd` given to `processTracker.Run` | `ret.wsh`: the spec, the user, the `--env` arguments (`env`) and the command's environment (`Env`) |
| `Run` (728-762) | `Run(spec)`, with `User(spec)` for lines 732-739 |
| `Attach` (764-766) | `Attach`: the answer of the process tracker |
| `wshdPid` (521-536) | `wshdPid`, its three outcomes |
| `StreamIn` (538-562) | `StreamIn`: an error of `wshdPid` or the result of running `nstar` |
| `StreamOut` (564-604) | `StreamOutFailed` (an error of `wshdPid`, of `os.Pipe`, or of `Background`, which leaves both ends of the pipe open: `leaked`), `StreamOut` (`nstar` started, `tarWrite` closed, the goroutine spawned, `tarRead` returned) |
| the pipe, `nstar`, `go c.runner.Wait(tar)` | `pipe` (the ends the server holds), `tar` (none, running, exited), `TarExit`, `Wait`, `EOF`, `CloseStream` |
| `dedup` (1074-1087) | `dedup`, a fold from the right; `SplitN` is `strings.SplitN(_, "=", 2)` |
| `setRLimitsEnv` (1012-1072) | `setRLimitsEnv`: the given limits in the order of `RLimitNames` |

An environment variable is a record: `[key, value]` for `key=value`, `[key]`
for a string without `=`. `RunEnvIsLastAssignment` compares `dedup` with
`LastAssignments`, which is defined by position and not by a walk.

`ret` is the last call with its error and, for a `Run`, the command it
built. One stream out of the container is followed at a time, and a `Run`
is taken only between two streams (`NoStream`): `Run` and `StreamOut` share
no state, so their interleavings add nothing. The client of a stream reads
to the end before it closes.

### ContainerStats

| Code (`unnamed/part_000`) | Model |
|---------------------------|-------|
| the three cgroup files | `memoryStat`, `cpuUsage`, `cpuStat`: sequences of words, chosen by `Init` |
| `Info` (458-519) | `InfoFailed(source)` for each of the five reads, `Info(diskStat, bandwidthStat)` |
| the loop of both parsers (902-972, 987-1007) | `scan(words, fields, stat)`, recursive |
| `parseMemoryStat`, `parseCPUStat` | the operators of these names |
| `strconv.ParseUint`, `strings.Trim` | the constants `ParseUint` and `Trim`, functions on words |

`Info` changes nothing; the files are what the kernel wrote. The fields of
the answer that `Info` copies from the container (state, events, properties,
mapped ports, processes) belong to `LinuxContainer` and are not repeated.

### ServerMain and ServerLifecycle

| Code (`main.go`) | Model |
|------------------|-------|
| the flags `main` tests or converts (56-132) | `flags`: a path flag is TRUE when given, `networkPool` parses or not, the four pool flags are numbers of `Uints`, the deny and allow lists are sequences of `NetworkLists` |
| the position of the main goroutine | `pc` |
| `missing` (303-307) | `missing`, the set of required flags that are empty; `usage` holds what was printed |
| `flag.Parse` to the last test (153-171) | `ParseFlags` |
| pools, `ParseCIDR`, runner (173-187) | `BuildPools`: `pools.uid` is built before the network pool is parsed, `pools.port` after; `Pool` takes `uint32` of start and size |
| `quota_manager.New(.., getMountPoint(..), ..)`, `Disable` (189-193) | `BuildQuotaManager`; `getMountPoint` is the outcome of `df` |
| graph directory, the two `Stat`, the device test (195-212) | `PrepareGraph` |
| graph driver, graph, registry, providers (214-233) | `BuildGraph` |
| container pool, backend, `Setup` (235-257) | `SetupBackend`; the pool is given `Split` of the deny and allow lists |
| `server.New`, `Start` (259-271) | `StartServer`; `server` becomes started |
| `make(chan os.Signal, 1)`, the `go` statement (273-279) | `SpawnHandler`, `ChanCap` |
| `signal.Notify`, `select {}` (281-283) | `Notify` sets `notified` |
| `<-signals`, `Stop()`, `os.Exit(0)` (276-278) | `HandlerWait`, `HandlerReceive`, `HandlerStop`, `HandlerExit` |
| a signal sent by the host | `Signal(sig)`: before `Notify` the default action ends the process; after it `Deliver` is the runtime's non-blocking send |
| `logger.Fatal`, `os.Exit`, death by signal | `exit`: a record of the code (fatal, ok, signal) and the message |

A failing step is a disjunct of its action (`Attempt`): the host decides. `df`
and `Stat` cannot succeed on an empty path, so a process without `-depot`
or `-rootfs` cannot pass `BuildQuotaManager` or `PrepareGraph`.

`uint32(n)` is `n % 2^Uint32Bits`: a flag of type `uint` that does not fit
is cut to its low bits, without an error. `Split` is `strings.Split(_, ",")`
on a list given as the sequence of its networks: the empty flag gives a list
of one empty network.

`ServerLifecycle` has two variables, `phase` and `code`, and five actions:
`Fail` and `Serve` leave starting, `Drain` and `Exit` are the orderly end,
`Kill` is the death by a signal and is possible only before the stop began.
`ServerMain` implements it under the mapping

    phase <- exited    when exit # Nil
             draining  when server = "stopped"
             serving   when server = "started"
             starting  otherwise
    code  <- exit.code, Nil while the process runs

Steps of `main` that build objects, the spawn, `Notify`, a caught signal and
the goroutine's receive are stuttering steps of the lifecycle.

### FakeContainer

| Code (`fake_container.go`) | Model |
|----------------------------|-------|
| the fields of the struct (12-26) | variables of the same names |
| `NewFakeContainer` (28-36) | `Init` |
| `ID`, `Handle`, `Properties`, `GraceTime` | operators of these names, returned by `Get` |
| `Start` (50-54) | `Start(t, mtu)`: started and the MTU recorded, then the injected error returned |
| `Cleanup` (56-58) | `Cleanup(t)` |
| `Snapshot` (64-75) | `Snapshot` (the test of `SnapshotError`, before the mutex), `SnapshotLock` (`Lock` and the read of the slice), `SnapshotAppend` (the write, the deferred `Unlock`, the return) |
| a test assigning `StartError`, `SnapshotError` | `Inject` |

`append` is a read and a write of the slice; the model separates them so
that the mutex is what keeps two appends apart. The callers of the double
are tests that are not in the repository. The model assumes what
`snapshotMutex` is there for, several goroutines calling one container, and
lets a test set the two errors between calls, not during one.

### MessageWriter

| Code (`message_writer.go`) | Model |
|----------------------------|-------|
| `json.NewEncoder(writer).Encode(req)` | `Encodes(req)` (the value can be encoded) and `Encode(req)`, the sequence of Writes the encoder makes: one, of the value and the newline |
| `writer.Write` | `Write(t)` appends to `stream`; `WriteFails(t, n)` appends the first `n` parts and fails |
| `WriteMessage` (10-12) | `WriteMessage(t, req)` up to the first Write, then `Write` or `WriteFails` |

The encoding of a message is the message itself; the property is about the
framing of the stream, not about JSON. The callers of `WriteMessage` are
not in the repository: two goroutines writing to one connection are an
assumption of the model, and so is what `encoding/json` and the connection
do (one Write for a message and its newline; a Write that fails after a
part of its bytes).

### Steps of the environment

Some actions are not code of the repository but what meets it. They are
named in `PROJECT.json` at the line where the code meets them:

| Action | Who takes the step | Where the code meets it |
|--------|--------------------|-------------------------|
| `Oom`, `NotifierFails` (`LinuxContainer`) | the kernel ends the notifier process | `runner.Wait` in `watchForOom` |
| `Snapshot`, `Restart` (`LinuxContainer`), `Restart` (`NetworkFence`) | the operator stops the server and starts it again; the new process has an empty allocator and objects made by the container pool | `Snapshot`, `MarshalJSON`; the goroutine of `main` that calls `Stop` |
| `GarbleSnapshot` | the file system | `Rebuild` |
| `Signal`, `Deliver` (`ServerMain`) | the host sends a signal; the Go runtime forwards it without blocking | the channel of line 273, `signal.Notify` of line 281 |
| `TarExit`, `EOF`, `CloseStream` (`ContainerRun`) | `nstar` exits; the kernel ends the stream when no writer is left; the client closes `tarRead` | `Background` (593), `tarWrite.Close()` (599), the returned reader (603) |
| `Inject` (`FakeContainer`) | a test | the exported fields |
| `Write`, `WriteFails` (`MessageWriter`) | the connection | the call of line 11 |

## 3. Runs

### Passing runs

| Run | Configuration | Properties | States |
|-----|---------------|------------|--------|
| `fence` | `MCNetworkFence.cfg` | `FenceTypeOK`, `TableMatchesFences`, `FencesDisjoint`, `IfcNamesTellContainersApart`, `BridgeRemovedByLastHolder`, `RebuildSucceeds`, and of the allocator `TypeOK`, `NoOverlap`, `HeldIPsUsable`, `SingleHolderUnlessShareable`, `DynamicTakesLowestFree` | 162,859 |
| `container_net` | `MCContainerNet.cfg` | `TypeOK`, `PortsTracked`, `RestoreReproducesNet` | 1,929,297 |
| `container_oom` | `MCContainerOom.cfg` | `OneOomEventPerRun`, `OomStopsContainer`, `RestoreReproducesMemory` | 1,428,210 |
| `container_run` | `MCContainerRun.cfg` | `TypeOK`, `RunEnvIsLastAssignment`, `StreamEndsWithTar` | 15,750 |
| `container_stats` | `MCContainerStats.cfg` | `MemoryStatIsLastValues`, `CPUStatWholeOrZero` | 508,431 |
| `server_main` | `MCServerMain.cfg` | `TypeOK`, `ServingProcessIsConfigured`, `LifecycleSpec`, `CaughtSignalEndsProcess` | 82,944 |
| `fake_container` | `MCFakeContainer.cfg` | `TypeOK`, `SnapshotsOnlyAppended` | 7,060 |
| `message_writer` | `MCMessageWriter.cfg` | `TypeOK`, `StreamIsFramed` | 1,386 |

* **fence.** Two containers, concurrently, over the allocator. The
  allocator's properties are checked on the requests the fence makes of it:
  `NoOverlap` and `SingleHolderUnlessShareable` are its promise that no two
  containers share network space; `HeldIPsUsable` covers selected and
  recovered IPs; `DynamicTakesLowestFree` is an action property on the
  tie-breaking rule of dynamic allocation. `MCSubnets.cfg` checks the same
  five properties on the allocator alone, with every selector and with
  releases and recoveries the fence never issues (9,219 states). `TableMatchesFences` relates the
  two components: the allocator's table is exactly what the fences that are
  built and not yet released hold, across failed builds, restarts and
  damaged snapshots. `BridgeRemovedByLastHolder` says what a `Dismantle` may
  do to the host. `RebuildSucceeds` says that replay never fails for an
  intact snapshot, in any order of the snapshots. `FenceTypeOK` is about the
  fence's own variables and includes that the subnet of an `Allocation` has
  its host bits zero, which is `ParseCIDR`'s doing. `IfcNamesTellContainersApart`: two containers that hold
  a fence have four different interface names of at most
  `MaxIfcNameLen + 2` characters, with container IDs that are longer than a
  name has room for and differ in their last character only.
* **container_net.** `PortsTracked`: every port of the pool is free or,
  exactly once, among the container's resources, through failures of
  `net.sh`, exhaustion of the pool, concurrent `NetIn` calls, host ports
  named by the client inside and outside the pool, and a restart. It holds
  of a port named by the client only because such a port never meets the
  pool (finding 10). The property calls run beside the network calls and
  leave the ports alone.
  `RestoreReproducesNet`: a successful `Restore` brings back the mappings
  and rules in their order.
* **container_oom.** `OneOomEventPerRun`: LimitMemory calls after the
  notifier fired start no second watcher. `OomStopsContainer` (liveness):
  once the notifier has exited, the container ends up stopped, unless
  `stop.sh` fails in the watcher or a restart replaces the container object.
  `RestoreReproducesMemory`: a successful `Restore` has the saved events
  first in the event list and the saved memory limit recorded, in force and
  watched.

* **container_run.** `RunEnvIsLastAssignment`: the process is given, for
  every key, the assignment made last in the container's variables followed
  by the spec's, at the place it had, and no string without `=`. `TypeOK`
  includes that only limits that were set reach the command's environment.
  `StreamEndsWithTar` (liveness): a stream out of the container comes to its
  end, with the pipe closed and `nstar` waited for. It depends on the
  `tarWrite.Close()` of line 599: while the server holds the pipe for
  writing, the client's read never returns `io.EOF`.
* **container_stats.** `MemoryStatIsLastValues`: every field of the answer
  is the number of the last pair of the file that names it, whatever unknown
  fields, values that are no numbers or missing values the file has.
  `CPUStatWholeOrZero`: the usage is parsed without its newline, and a usage
  that is no number leaves all three CPU statistics at zero.

* **server_main.** `LifecycleSpec` is the refinement: every step of `main`,
  of the goroutine and of a signal is a step of `ServerLifecycle` or leaves
  `phase` and `code` alone. It fails when `os.Exit(0)` can come without
  `Stop`, when `logger.Fatal` can strike a serving process, or when a signal
  ends the process after the stop began. `CaughtSignalEndsProcess`
  (liveness): a signal that arrives after `signal.Notify` leads to exit 0;
  it depends on the buffer of the channel, because the signal may arrive
  before the goroutine has reached its receive, and an unbuffered channel
  would drop it. `TypeOK` includes that the numbers of a pool fit a uint32,
  whatever the flags were. `ServingProcessIsConfigured`: a process that serves was given
  a depot, a rootfs and a network pool and has its pools, its lists and its
  quota manager. `missing` returns to `main`, so this rests on `df` and
  `Stat` failing on the empty path several steps later; for `-bin` and
  `-overlays` nothing of the kind exists (finding 8).
* **fake_container.** `SnapshotsOnlyAppended` (action property): no step
  shortens or rewrites `SavedSnapshots`; without the mutex around the read
  and the write of `append`, the second of two concurrent calls overwrites
  the first. `TypeOK` includes that a started container has an
  MTU.
* **message_writer.** `StreamIsFramed`: as long as no Write has failed, the
  stream is messages each followed by its newline, for every interleaving
  of the two writers. It holds because the encoder hands the value and the
  newline to the connection in one Write. After a failed Write the stream
  may end in a truncated message, which is why the property stops there.

Between them the eight runs take every action and every disjunct of their
next-state relations.

### Runs that end in a violation

Each checks one property that the written specification, a comment, a flag
description or a test states or implies, and that the code does not keep.

| Run | Property | Kind | What the trace shows |
|-----|----------|------|----------------------|
| `fence_dismantle_race` | `HostIfcOnLiveBridge` | defect | c1 is dismantled: `Release` frees the subnet; c2 is built on the same subnet and erected; c1's `deconfigureHost` deletes the bridge c2 is attached to |
| `container_notifier` | `LimitMemoryStartsNotifier` | defect | `startOomNotifier` assigns `c.oomNotifier` before `runner.Start`; after a failed start the next `LimitMemory` finds it non-nil and succeeds with no notifier and no watcher |
| `container_cpu_race` | `RecordedCPULimitIsEnforced` | defect | two `LimitCPU` calls write the cgroup in one order and record in the other |
| `server_signal_window` | `ServerStoppedBeforeExit` | defect | the server is started, the goroutine spawned; a SIGTERM arrives before `signal.Notify` and ends the process by its default action: `Stop` never runs |

### Configurations kept beside the run list

| Configuration | Property | Result |
|---------------|----------|--------|
| `MCSubnets.cfg` (module `MCSubnets`) | the five allocator properties | hold, 9,219 states |
| `MCFenceGateway.cfg` | `HostIPIsNetworkPlusOne` | violated: the specification defines the gateway as network + 1; `Info` reports `subnets.GatewayIP`, for which the tests expect the last usable address (1.2.0.2 for 1.2.0.0/30, 1.2.0.14 for a /28) |
| `MCFenceStaticGateway.cfg` | `ContainerIPIsNotHostIP` | violated: a spec naming the gateway address as static IP is accepted (only network and broadcast are refused); `Erect` gives the same address to both ends of the link |
| `MCContainerBandwidth.cfg` | `ReportedBandwidthIsEnforced` | violated: `Snapshot` saves four limits, `Restore` applies the memory limit only; after a restart the container reports no bandwidth limit while the host enforces one |
| `MCServerMissingFlag.cfg` | `MissingFlagEndsStartup` | violated: `missing` prints the usage and returns, and `main` goes on with the empty path |
| `MCContainerStalePort.cfg` | `MappedPoolPortsAreHeld` | violated: `NetIn` with host port 1, a port of the pool, maps it while the pool still has it to give; the next `NetIn` without a host port can be given the same port |
| `MCContainerOomRestart.cfg` | `OomEventMeansStopped` | violated: the notifier exits, `watchForOom` registers the event, and the server stops before the watcher's `Stop` ran; the snapshot holds the event and a state that is not stopped, `Restore` registers the event again, and nothing stops the restored container |
| `MCContainerStreamLeak.cfg` (module `MCContainerRun`) | `FailedStreamOutLeavesNothingOpen` | violated: `StreamOut` returns the error of `Background` without closing the two ends of the pipe it made |

## 4. Bounds

| Constant | Value | Why it is enough |
|----------|-------|------------------|
| `Bits` | 4 | 16 addresses hold a pool of two /30 slots, a static area outside the pool, and shareable subnets of 8 addresses: every rule of the allocator (pool walk, exhaustion, overlap by containment in both directions, share or refuse) has room to apply |
| `DynamicRange` | `0/1` (addresses 0-7) | two slots: the second request takes the second slot, the third fails |
| `StaticSubnets`, `StaticIPs` (`MCSubnets.cfg`) | a /30 and a /29 outside the pool, a /30 inside it, the whole space; network, broadcast, gateway and inner addresses | static requests that succeed, overlap a live subnet, lie in the pool, and IPs of every kind |
| `Containers` | 2 | every property relates at most two fences; a third container multiplies states (4.9 million) without a new case |
| `ContainerID`, `NetworkInterfacePrefix`, `MaxIfcNameLen` | `ida` and `idb`; `w`; 3 | a name has room for two characters of a three-character ID: the IDs are cut, and they differ only in the part that is kept. An ID shorter than that room is used whole (line 491) and is not among the IDs of the run. A prefix longer than `MaxIfcNameLen` is excluded by an assumption: with it `Build` panics on the slice of the ID |
| `Specs` (`fence`) | empty, invalid, a /30 by its network address and by its last usable address, two specs on one shareable /29 with and without a static IP, an address inside the pool | each branch of `Build` and each error of `Allocate`; two specs on one /30 are what a second holder would need |
| `Threads` | 2 | races need two calls in flight; the watcher is an actor of its own |
| `LimitValues` | 1 in the passing runs, 2 in `container_cpu_race` | the passing properties do not compare limit values; the race needs two |
| `PoolPorts` | {1, 2} | exhaustion is reached after two acquisitions |
| `HostPorts` | {0, 1, 8} | 0 asks the pool for a port; 1 is a port of the pool and 8 one outside it, both named by the client |
| `PropertyKeys`, `PropertyValues` | one key; two values | a key set, set again to another value, removed, and asked for when it is not set; the accessors treat every key alike |
| `MaxNetIns`, `MaxNetOuts` | 2, 1 (0 in the limit runs) | caps the unbounded lists `netIns` and `netOuts`; two mappings show order |
| `EnvVar`, `MaxEnv` | `A=1`, `A=2`, `B=1`, `A`; 2 | four variables in a row show a key assigned on both sides, twice on one side, and a string without `=` before and after an assignment of its key |
| `ResourceLimits` | none; `As` and `Stack` | the first and the last test of `setRLimitsEnv`, and no limit at all |
| `Words`, `MaxMemoryWords`, `MaxCPUWords` | two memory fields, one CPU field, two numbers; 4; 2 | two pairs show a field given twice, a pair skipped before a good one, and a trailing word; one pair is all the second file needs |
| `Usages` | a number with a newline, a number, a word | each outcome of `Trim` and `ParseUint` |
| `Signals`, `MaxSignals` | SIGINT, SIGTERM, SIGHUP; 2 | caps `arrived`; two signals show one in the channel or in the goroutine's hands and one more arriving: dropped, or taken by the buffer after the receive |
| `Flags` | all 4,096 command lines over twelve flags | every branch of the start-up that reads a flag, with every conversion on both sides of its edge |
| `Uints`, `Uint32Bits` | {1, 4}; 2 | a `uint32` of two bits holds 0 to 3: 1 fits, 4 is the first number that does not and becomes 0. TLC's integers are 32 bits wide, so the width is scaled |
| `NetworkLists` | the empty list and a list of one network | the two cases of `strings.Split` |
| `MaxLeaked` | 2 | caps `leaked`: one failed `Background` leaves two descriptors, and a second changes nothing the properties see |
| `Threads` (`fake_container`, `message_writer`) | 2 | two calls in flight are what an unprotected append or a split message needs |
| `MaxSnapshots` | 3 | caps `SavedSnapshots`, counting the calls in flight; a lost append shows with two |
| `Messages`, `Unencodable`, `MaxStream` | two messages and one that cannot be encoded; 6 | caps `stream` at three messages, counting those being written; two show an interleaving |
| `MaxRestarts` | 1 | caps `restarts`; one restart shows every effect of Snapshot and Restore, and the state after it is again a serving container |

`Calls` selects the API calls the clients make in a run, so that the network
calls and the limit calls are explored in separate runs: they share no state
except through Snapshot and Restore, which both runs include.

Symmetry is used where the properties do not name individuals: containers in
the fence runs and threads in `container_net`. `container_oom` checks a
liveness property and uses no symmetry.

## 5. Fairness

Three runs check liveness. `Spec` of `LinuxContainer` has
`WF_vars(Watch)`: a step of the goroutine `watchForOom` that stays possible
is eventually taken. The Go scheduler runs a runnable goroutine, and each
step of the watcher, once enabled, stays enabled until it is taken or the
process ends (the restart, which the property excuses). Nothing is assumed of
the clients, the kernel or the operator: they may stop at any point, and the
safety runs use `INIT`/`NEXT` without fairness.

`Spec` of `ServerMain` has `WF_vars(Handler)`, for the same reason: the
goroutine of lines 275-279, once it can receive, stop or exit, does so. This
assumes that `wardenServer.Stop()` returns; the server is not in the
repository. Nothing is assumed of `main` (the liveness property starts from
a signal that was caught, which is after `main` reached `Notify`) or of the
host, which may send no signal at all.

`Spec` of `ContainerRun` has `WF_vars(TarExit)`, `WF_vars(Wait)` and
`WF_vars(CloseStream)`. `Wait` is a goroutine, as above. `TarExit` and
`CloseStream` are assumptions on the two ends of the pipe: `nstar` writes
its archive and exits as long as its output is read, and the client reads
its stream to the end and closes it. Without them no stream has to end,
whatever the server does; with them the property is about the server's own
end of the pipe. Nothing is assumed of `Run`, `Attach`, `StreamIn` or of the
start of a `StreamOut`.

Deadlock is checked in every run except those of `ServerMain`, where the
process really ends: a state with `exit` set has no successor. In the other
runs an idle client can always make another call, and the runs of
`FakeContainer` and `MessageWriter` apply their bounds to the start of a
call only, so that a call in flight can always finish.

## 6. Findings

1. **`Dismantle` can delete the bridge of another container** (defect,
   `system_info_test.go:626-634`). The bridge is removed after `Release`
   returned, outside the allocator's mutex; the subnet can be allocated and
   erected again in between.
2. **Gateway address** (specification and code differ, `spec.md` lines 63 and
   221 against `system_info_test.go:637` and the tests at 280-297).
3. **A static IP may equal the gateway** (gap in the specification,
   `system_info_test.go:552` and `613`).
4. **`startOomNotifier` keeps a notifier that never started** (defect,
   `part_000:866-871`).
5. **`Restore` drops the bandwidth, CPU and disk limits** (defect,
   `part_000:291-352` against `240-245`).
6. **`LimitCPU`, `LimitBandwidth`, `LimitDisk` record outside the step that
   sets** (defect, `part_000:701-709`, `609-617`, `636-644`).
7. **A signal before `signal.Notify` ends a serving process without `Stop`**
   (defect, `main.go:263-281`). `Notify` is the last statement before
   `select {}`; the server listens from line 263 on. Calling `Notify` before
   `Start` closes the window.
8. **`missing` does not end the process** (defect, `main.go:161-171`,
   `303-307`). With `-depot` missing the process dies in `getMountPoint`;
   with only `-bin` or `-overlays` missing it comes to serve on an empty
   path.

9. **A failed `StreamOut` leaves its pipe open** (defect,
   `part_000:586-596`). `os.Pipe` succeeded, `Background` fails, and the
   function returns without closing `tarRead` and `tarWrite`: two
   descriptors of the server for every failed call.

10. **A host port named by the client is not taken from the pool** (defect,
   `part_000:769-778`). `NetIn` asks the pool only when the host port is 0.
   A client that names a port of the pool's range gets its mapping, and the
   pool hands the same port to a later `NetIn`, of this container or of
   another: two mappings on one host port.

11. **An out-of-memory event can outlive the stop it announces** (defect,
   `part_000:887-895` with `197-289`). `watchForOom` registers the event
   and then calls `Stop`; a server that stops in between saves the event
   with the state the container had. The restored container reports "out
   of memory" and keeps running.

Findings 1, 4, 6 and 7 are runs of `PROJECT.json`; 2, 3, 5, 8, 9, 10 and 11
are shown by the configurations kept beside the run list.

Two conversions in `main` are modelled as they are and have no property,
because what follows from them is decided by code that is not in the
repository: a pool flag of 2^32 or more is cut to its low bits (lines 173
and 183), and an empty `-denyNetworks` or `-allowNetworks` reaches the
container pool as a list of one empty network (lines 244-245).

## 7. Not modelled

* `Config.Init`, `ConfigureProcess`, `hexIP`: flag declarations and string
  formatting.
* The name of a bridge (`Build` line 499, `hexIP`): a bridge is identified
  by the network address it is named after. The effect of two equal
  interface names on `ConfigureHost`: the configurer is not in the
  repository, and the model identifies a host interface by its container.
* `Current*Limits`: read-only.
* The paths, the arguments of `nstar` and the bytes of a stream in
  `StreamIn` and `StreamOut`; a client that abandons its stream before the
  end; several streams at a time.
* The `--dir`, path and argument part of the command `Run` builds: copied
  from the spec without a decision.
* The unlocked `Properties()` (line 171): `Snapshot` calls it after the
  server has drained its requests, so no writer is left; the map `Info`
  returns is read by its caller, outside the repository, and a concurrent
  `SetProperty` makes that read a data race whose outcome (a torn read, or
  the runtime ending the process) no state of the container depends on.
* In `main`: the flags that are handed to constructors as they are (listen
  address, snapshots, graph root, tag, registry, grace time),
  `cf_debug_server.Run`, `GOMAXPROCS`, the logger, and the text of
  the output of `df` that `getMountPoint` splits.
* The JSON encoding itself in `WriteMessage`, and the reader of the stream.
* The embedded `fakes.FakeContainer` of the test double: generated code
  that is not in the repository.
* The mutexes themselves: an action is the critical section, and the steps
  between critical sections are separate actions. The allocator's mutex is
  not a variable of `Subnets`.
* A stop of the server in the middle of a request.

## 8. Plan

In the order of what they add:

1. `Garden`: one module composing `LinuxContainer` with `NetworkFence`
   (`Start` calls `Erect`, `Snapshot` embeds `MarshalJSON`, the restore of
   the pool calls `Rebuild` then `Restore`), to check that a container that
   is active has an erected fence and that a failed `Start` or `Restore`
   gives the allocation back.
2. `SubnetsLocked`: the allocator with its mutex as a variable and each
   operation as lock / read / write / unlock steps, shown to implement
   `Subnets` by refinement (`INSTANCE Subnets WITH ...`, `Spec` as a
   property).
3. The host keyed by interface name instead of by container, so that two
   containers whose IDs agree in their last characters meet on one veth
   pair.
4. Several streams out of a container at a time, and a client that closes
   its stream early.
5. `ServerMain` composed with the container: `HandlerStop` as the `Snapshot`
   of `LinuxContainer`, so that a signal in the window of finding 7 is seen
   to lose the limits and mappings set since the last stop.
