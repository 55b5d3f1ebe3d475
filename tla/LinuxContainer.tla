--------------------------- MODULE LinuxContainer ---------------------------
(***************************************************************************)
(* One container of the Linux backend (package linux_backend, type         *)
(* LinuxContainer): its lifecycle (born, active, stopped), the resource    *)
(* limits it records next to the ones the host enforces, the out-of-memory *)
(* notifier and the goroutine that watches it, its port mappings, its      *)
(* properties, and its Snapshot and Restore around a restart of the        *)
(* server.                                                                 *)
(*                                                                         *)
(* Actors: the API requests of the clients, each on a thread of Threads;   *)
(* the goroutine watchForOom; the kernel, which reports an out-of-memory   *)
(* condition to the notifier; the operator, who stops the server.          *)
(*                                                                         *)
(* A call that touches the host between two critical sections is split    *)
(* where another actor can run: after the host was changed and before the  *)
(* change is recorded under the container's mutex.                         *)
(*                                                                         *)
(* Model simplifications:                                                  *)
(*  - a limit is a value of LimitValues, not a record of numbers;          *)
(*  - Start is called by the container pool before a client can reach the  *)
(*    container: it is one step, taken only by a born container;           *)
(*  - the server stops between requests (the Garden server drains them);   *)
(*  - a container whose Snapshot or Restore fails is dropped by the pool,  *)
(*    and the model goes on with a newly created container.                *)
(***************************************************************************)
EXTENDS Naturals, Sequences, FiniteSets, SequencesExt

CONSTANTS
  Threads,        \* the threads that serve API requests
  Calls,          \* the API calls the clients make
  LimitValues,    \* the limits the clients ask for
  PoolPorts,      \* the host ports of the port pool
  HostPorts,      \* the host ports named in NetIn (0: take one from the pool)
  ContainerPorts, \* the container ports named in NetIn (0: same as the host port)
  NetOutSpecs,    \* the (network, port) pairs named in NetOut
  PropertyKeys,   \* the keys of the properties the clients name
  PropertyValues, \* the values they give them
  MaxNetIns,      \* bound on the recorded port mappings
  MaxNetOuts,     \* bound on the recorded NetOut rules
  MaxRestarts,    \* bound on the restarts of the server
  Nil             \* a nil pointer

VARIABLES
  state,          \* c.state
  events,         \* c.events
  oomNotifier,    \* c.oomNotifier and the process behind it
  watcher,        \* the goroutine watchForOom
  enforced,       \* enforced[k]: the limit of kind k in force on the host
  current,        \* current[k]: c.current<K>Limits
  portPool,       \* the free ports of the port pool
  ports,          \* c.resources.Ports
  netIns,         \* c.netIns
  netOuts,        \* c.netOuts
  properties,     \* c.properties
  call,           \* call[t]: the API call thread t is in the middle of
  server,         \* serving, stopping (snapshot taken) or restoring
  snapshot,       \* the ContainerSnapshot on disk, or Nil
  restarts,       \* the number of restarts so far
  ret             \* the last return of a call

vars == <<state, events, oomNotifier, watcher, enforced, current, portPool,
          ports, netIns, netOuts, properties, call, server, snapshot, restarts, ret>>

netVars == <<portPool, ports, netIns, netOuts>>
oomVars == <<oomNotifier, watcher>>
lifeVars == <<server, snapshot, restarts>>

-----------------------------------------------------------------------------
(* Values *)

StateBorn == "born"
StateActive == "active"
StateStopped == "stopped"
State == {StateBorn, StateActive, StateStopped}

OutOfMemory == "out of memory"

Kinds == {"bandwidth", "cpu", "disk", "memory"}

OK == "ok"

Idle == [op |-> "idle"]

\* api.Properties{}: a map without keys.
NoProperties == [key \in {} |-> Nil]

NetInSpec(h, p) == [HostPort |-> h, ContainerPort |-> p]

\* c.oomNotifier: nil; a command that failed to start; a running process;
\* a process that exited normally (the kernel reported out of memory), was
\* killed, or ended with an error.
NotifierState == {"nil", "unstarted", "running", "exited", "killed", "failed"}

\* watchForOom: not spawned; in runner.Wait; about to call Stop; in Stop
\* after stop.sh; returned; returned because stop.sh failed.
WatcherState == {"none", "waiting", "stop", "finish", "done", "stopFailed"}

ASSUME /\ Calls \subseteq {"Stop", "Cleanup", "LimitBandwidth", "LimitCPU",
                           "LimitDisk", "LimitMemory", "NetIn", "NetOut",
                           "GetProperty", "SetProperty", "RemoveProperty"}
       /\ 0 \notin PoolPorts
       /\ {MaxNetIns, MaxNetOuts, MaxRestarts} \subseteq Nat

-----------------------------------------------------------------------------
(* Helpers of the operations *)

Serving(t) == server = "serving" /\ call[t] = Idle

Return(t, op, err) ==
  /\ call' = [call EXCEPT ![t] = Idle]
  /\ ret' = [op |-> op, err |-> err]

Goto(t, frame) ==
  /\ call' = [call EXCEPT ![t] = frame]
  /\ UNCHANGED ret

\* c.setState(state)
setState(s) == state' = s

\* c.registerEvent(event)
registerEvent(ev) == events' = Append(events, ev)

\* runner.Kill(c.oomNotifier): only a running process is affected.
Kill(n) == IF n = "running" THEN "killed" ELSE n

\* c.stopOomNotifier()
stopOomNotifier == oomNotifier' = IF oomNotifier # "nil" THEN Kill(oomNotifier) ELSE oomNotifier

\* Seeded fault: the notifier is started again although the container has one.
startOomNotifierAgain(err) ==
  /\ err = OK
  /\ oomNotifier' = "running"
  /\ watcher' = "waiting"

\* c.startOomNotifier(), returning err.  c.oomNotifier is assigned before
\* runner.Start is tried, and stays assigned when Start fails.
startOomNotifier(err) ==
  \/ /\ oomNotifier # "nil"
     /\ err = OK
     /\ UNCHANGED oomVars
  \/ /\ oomNotifier = "nil"
     /\ err = "StartFailed"
     /\ oomNotifier' = "unstarted"
     /\ UNCHANGED watcher
  \/ /\ oomNotifier = "nil"
     /\ err = OK
     /\ oomNotifier' = "running"
     /\ watcher' = "waiting"

\* NewLinuxContainer: the fields of a container that was just created.
New ==
  [state |-> StateBorn, events |-> <<>>, oomNotifier |-> "nil", watcher |-> "none",
   current |-> [k \in Kinds |-> Nil], netIns |-> <<>>, netOuts |-> <<>>]

\* The pool makes a new container object.
Create ==
  /\ state' = New.state
  /\ events' = New.events
  /\ oomNotifier' = New.oomNotifier
  /\ watcher' = New.watcher
  /\ current' = New.current
  /\ netIns' = New.netIns
  /\ netOuts' = New.netOuts

\* The pool drops the container and a client creates another one: a new
\* object, a new cgroup, and every port back in the pool.
Recreate(op, err) ==
  /\ Create
  /\ enforced' = [k \in Kinds |-> Nil]
  /\ portPool' = PoolPorts
  /\ ports' = <<>>
  /\ properties' = NoProperties
  /\ call' = [t \in Threads |-> Idle]
  /\ server' = "serving"
  /\ snapshot' = Nil
  /\ ret' = [op |-> op, err |-> err]

Init ==
  /\ state = New.state
  /\ events = New.events
  /\ oomNotifier = New.oomNotifier
  /\ watcher = New.watcher
  /\ current = New.current
  /\ netIns = New.netIns
  /\ netOuts = New.netOuts
  /\ enforced = [k \in Kinds |-> Nil]
  /\ portPool = PoolPorts
  /\ ports = <<>>
  /\ properties = NoProperties
  /\ call = [t \in Threads |-> Idle]
  /\ server = "serving"
  /\ snapshot = Nil
  /\ restarts = 0
  /\ ret = [op |-> "New", err |-> OK]

-----------------------------------------------------------------------------
(* Lifecycle *)

\* c.Start(): start.sh, the pid of wshd and the erection of the network
\* fence can each fail; only after all three is the container active.
Start(t) ==
  /\ Serving(t)
  /\ state = StateBorn
  /\ \/ /\ \E err \in {"StartFailed", "PidFailed", "ErectFailed"} : Return(t, "Start", err)
        /\ UNCHANGED state
     \/ /\ setState(StateActive)
        /\ Return(t, "Start", OK)
  /\ UNCHANGED <<properties, events, oomVars, enforced, current, netVars, lifeVars>>

\* c.Stop(kill), up to stop.sh.
Stop(t) ==
  /\ Serving(t)
  /\ "Stop" \in Calls
  /\ \/ Return(t, "Stop", "StopFailed")
     \/ Goto(t, [op |-> "Stop"])
  /\ UNCHANGED <<properties, state, events, oomVars, enforced, current, netVars, lifeVars>>

\* c.Stop(kill), after stop.sh: the notifier is killed and the state set.
StopFinish(t) ==
  /\ call[t].op = "Stop"
  /\ stopOomNotifier
  /\ setState(StateStopped)
  /\ Return(t, "Stop", OK)
  /\ UNCHANGED <<properties, events, watcher, enforced, current, netVars, lifeVars>>

\* c.Cleanup()
Cleanup(t) ==
  /\ Serving(t)
  /\ "Cleanup" \in Calls
  /\ stopOomNotifier
  /\ Return(t, "Cleanup", OK)
  /\ UNCHANGED <<properties, state, events, watcher, enforced, current, netVars, lifeVars>>

-----------------------------------------------------------------------------
(* Limits *)

\* The first half of LimitBandwidth, LimitCPU and LimitDisk: the manager of
\* the resource sets the limit on the host, or fails.
LimitSet(t, k, l) ==
  /\ Serving(t)
  /\ \/ /\ Return(t, "Limit", "SetFailed")
        /\ UNCHANGED enforced
     \/ /\ enforced' = [enforced EXCEPT ![k] = l]
        /\ Goto(t, [op |-> "Limit", pc |-> "record", kind |-> k, limits |-> l,
                    restoring |-> FALSE])
  /\ UNCHANGED <<properties, state, events, oomVars, current, netVars, lifeVars>>

\* c.LimitBandwidth(limits)
LimitBandwidth(t, l) == "LimitBandwidth" \in Calls /\ LimitSet(t, "bandwidth", l)

\* c.LimitDisk(limits)
LimitDisk(t, l) == "LimitDisk" \in Calls /\ LimitSet(t, "disk", l)

\* c.LimitCPU(limits)
LimitCPU(t, l) == "LimitCPU" \in Calls /\ LimitSet(t, "cpu", l)

\* The frame of a LimitMemory that has its notifier.
MemoryFrame(l, restoring) ==
  [op |-> "Limit", pc |-> "set", kind |-> "memory", limits |-> l, restoring |-> restoring]

\* c.LimitMemory(limits), up to startOomNotifier.
LimitMemory(t, l) ==
  /\ Serving(t)
  /\ "LimitMemory" \in Calls
  /\ \E err \in {OK, "StartFailed"} :
       /\ startOomNotifier(err)
       /\ IF err = OK THEN Goto(t, MemoryFrame(l, FALSE))
                      ELSE Return(t, "LimitMemory", err)
  /\ UNCHANGED <<properties, state, events, enforced, current, netVars, lifeVars>>

\* c.LimitMemory(limits), the three writes to the cgroup.  The errors of
\* the first two are dropped: when the third fails, the limit may have
\* been changed all the same.
LimitMemorySet(t) ==
  /\ call[t].op = "Limit" /\ call[t].pc = "set"
  /\ \/ /\ enforced' = [enforced EXCEPT !["memory"] = call[t].limits]
        /\ Goto(t, [call[t] EXCEPT !.pc = "record"])
        /\ UNCHANGED <<properties, state, events, oomVars, current, netVars, lifeVars>>
     \/ /\ ~call[t].restoring
        /\ \E l \in {enforced["memory"], call[t].limits} :
             enforced' = [enforced EXCEPT !["memory"] = l]
        /\ Return(t, "LimitMemory", "SetFailed")
        /\ UNCHANGED <<properties, state, events, oomVars, current, netVars, lifeVars>>
     \/ /\ call[t].restoring
        /\ Recreate("Restore", "SetFailed")
        /\ UNCHANGED restarts

\* The second half of every Limit call: under the mutex of the resource,
\* the limit is recorded.
LimitRecord(t) ==
  /\ call[t].op = "Limit" /\ call[t].pc = "record"
  /\ current' = [current EXCEPT ![call[t].kind] = call[t].limits]
  /\ IF call[t].restoring
     THEN Goto(t, [op |-> "Restore", pc |-> "net"])
     ELSE Return(t, IF call[t].kind = "memory" THEN "LimitMemory" ELSE "Limit", OK)
  /\ UNCHANGED <<properties, state, events, oomVars, enforced, netVars, lifeVars>>

-----------------------------------------------------------------------------
(* Port mappings and NetOut rules *)

\* Seeded fault: the acquired port is not added to the container's resources.
AcquiredWithoutAddPort(p) == ports

\* c.resources.AddPort(port)
AddPort(p) == Append(ports, p)

\* c.NetIn(hostPort, containerPort), up to the choice of the host port: a
\* port of the pool when none is named.
NetIn(t, h, p) ==
  /\ Serving(t)
  /\ "NetIn" \in Calls
  /\ Len(netIns) < MaxNetIns
  /\ IF h # 0
     THEN /\ Goto(t, [op |-> "NetIn", hostPort |-> h, containerPort |-> p])
          /\ UNCHANGED <<portPool, ports>>
     ELSE \/ /\ portPool = {}
             /\ Return(t, "NetIn", "PoolExhausted")
             /\ UNCHANGED <<portPool, ports>>
          \/ \E randomPort \in portPool :
               /\ portPool' = portPool \ {randomPort}
               /\ ports' = AddPort(randomPort)
               /\ Goto(t, [op |-> "NetIn", hostPort |-> randomPort, containerPort |-> p])
  /\ UNCHANGED <<properties, state, events, oomVars, enforced, current, netIns, netOuts, lifeVars>>

\* Seeded fault: the container port is recorded as it was given.
MappingAsGiven(h, p) == NetInSpec(h, p)

\* The mapping NetIn sets up: the container port defaults to the host port.
Mapping(h, p) == NetInSpec(h, IF p = 0 THEN h ELSE p)

\* c.NetIn(hostPort, containerPort), from net.sh on.
NetInRun(t) ==
  /\ call[t].op = "NetIn"
  /\ \/ /\ Return(t, "NetIn", "NetFailed")
        /\ UNCHANGED netIns
     \/ /\ netIns' = Append(netIns, Mapping(call[t].hostPort, call[t].containerPort))
        /\ Return(t, "NetIn", OK)
  /\ UNCHANGED <<properties, state, events, oomVars, enforced, current, portPool, ports, netOuts, lifeVars>>

\* c.NetOut(network, port)
NetOut(t, out) ==
  /\ Serving(t)
  /\ "NetOut" \in Calls
  /\ Len(netOuts) < MaxNetOuts
  /\ \/ /\ out.Port = 0 /\ out.Network = ""
        /\ Return(t, "NetOut", "NothingProvided")
        /\ UNCHANGED netOuts
     \/ /\ out.Port # 0 \/ out.Network # ""
        /\ \/ /\ Return(t, "NetOut", "NetFailed")
              /\ UNCHANGED netOuts
           \/ /\ netOuts' = Append(netOuts, out)
              /\ Return(t, "NetOut", OK)
  /\ UNCHANGED <<properties, state, events, oomVars, enforced, current, portPool, ports, netIns, lifeVars>>

-----------------------------------------------------------------------------
(* Properties of the container *)

\* A call that writes the properties: one critical section under
\* propertiesMutex.
PropertyCall(t, op, err) ==
  /\ Serving(t)
  /\ op \in Calls
  /\ Return(t, op, err)
  /\ UNCHANGED <<state, events, oomVars, enforced, current, netVars, lifeVars>>

\* c.GetProperty(key)
GetProperty(t, key) ==
  /\ Serving(t)
  /\ "GetProperty" \in Calls
  /\ ret' = IF key \in DOMAIN properties
            THEN [op |-> "GetProperty", err |-> OK, value |-> properties[key]]
            ELSE [op |-> "GetProperty", err |-> "UndefinedProperty"]
  /\ UNCHANGED <<properties, state, events, oomVars, enforced, current, netVars,
                 call, lifeVars>>

\* c.SetProperty(key, value)
SetProperty(t, key, value) ==
  /\ PropertyCall(t, "SetProperty", OK)
  /\ properties' = (key :> value) @@ properties

\* c.RemoveProperty(key)
RemoveProperty(t, key) ==
  /\ IF key \in DOMAIN properties
     THEN /\ PropertyCall(t, "RemoveProperty", OK)
          /\ properties' = Restrict(properties, DOMAIN properties \ {key})
     ELSE /\ PropertyCall(t, "RemoveProperty", "UndefinedProperty")
          /\ UNCHANGED properties

-----------------------------------------------------------------------------
(* The out-of-memory notifier and its watcher *)

\* The kernel reports an out-of-memory condition: the notifier exits.
Oom ==
  /\ oomNotifier = "running"
  /\ oomNotifier' = "exited"
  /\ UNCHANGED <<properties, state, events, watcher, enforced, current, netVars, call, lifeVars, ret>>

\* The notifier ends with an error.
NotifierFails ==
  /\ oomNotifier = "running"
  /\ oomNotifier' = "failed"
  /\ UNCHANGED <<properties, state, events, watcher, enforced, current, netVars, call, lifeVars, ret>>

\* Seeded fault: the test of the error of Wait is inverted.
WaitSucceededInverted == oomNotifier \in {"killed", "failed"}

\* runner.Wait(oom) returned nil: the notifier exited normally.
WaitSucceeded == oomNotifier = "exited"

\* c.watchForOom(oom), runner.Wait returns: an out-of-memory event is
\* registered when the notifier exited normally, nothing is done otherwise.
WatchWait ==
  /\ watcher = "waiting"
  /\ oomNotifier \in {"exited", "killed", "failed"}
  /\ IF WaitSucceeded
     THEN registerEvent(OutOfMemory) /\ watcher' = "stop"
     ELSE watcher' = "done" /\ UNCHANGED events
  /\ UNCHANGED <<properties, state, oomNotifier, enforced, current, netVars, call, lifeVars, ret>>

\* c.watchForOom(oom), the call of c.Stop(false) up to stop.sh; its error
\* is dropped.
WatchStop ==
  /\ watcher = "stop"
  /\ watcher' \in {"finish", "stopFailed"}
  /\ UNCHANGED <<properties, state, events, oomNotifier, enforced, current, netVars, call, lifeVars, ret>>

\* c.watchForOom(oom), the rest of c.Stop(false).
WatchStopFinish ==
  /\ watcher = "finish"
  /\ stopOomNotifier
  /\ setState(StateStopped)
  /\ watcher' = "done"
  /\ UNCHANGED <<properties, events, enforced, current, netVars, call, lifeVars, ret>>

Watch == WatchWait \/ WatchStop \/ WatchStopFinish

-----------------------------------------------------------------------------
(* Snapshot, restart and Restore *)

\* The ContainerSnapshot of the container as it is.
ContainerSnapshot ==
  [State |-> state, Events |-> events, Limits |-> current,
   Ports |-> ports, NetIns |-> netIns, NetOuts |-> netOuts,
   Properties |-> properties]

\* c.Snapshot(out), when the server is stopped: the snapshot is written, or
\* marshalling or writing it fails and there is none.
Snapshot ==
  /\ server = "serving"
  /\ \A t \in Threads : call[t] = Idle
  /\ restarts < MaxRestarts
  /\ server' = "stopping"
  /\ \/ snapshot' = ContainerSnapshot /\ ret' = [op |-> "Snapshot", err |-> OK]
     \/ snapshot' = Nil /\ ret' = [op |-> "Snapshot", err |-> "SaveFailed"]
  /\ UNCHANGED <<properties, state, events, oomVars, enforced, current, netVars, call, restarts>>

\* The process exits and the next one starts.  With a snapshot, the pool
\* makes a new LinuxContainer with the saved resources and properties and
\* takes its ports out of the port pool; the host enforces what it enforced.
Restart ==
  /\ server = "stopping"
  /\ restarts' = restarts + 1
  /\ IF snapshot = Nil
     THEN Recreate("Restore", "NoSnapshot")
     ELSE /\ Create
          /\ ports' = snapshot.Ports
          /\ portPool' = PoolPorts \ ToSet(snapshot.Ports)
          /\ properties' = snapshot.Properties
          /\ server' = "restoring"
          /\ UNCHANGED <<enforced, call, snapshot, ret>>

\* Seeded fault: the saved events are not registered again.
RestoredEventsNone(s) == <<>>

\* The events Restore registers one by one, on a container without events.
RestoredEvents(s) == s.Events

\* Seeded fault: the two ports of a saved mapping are passed in the wrong order.
RestoredNetInsSwapped(s) ==
  [i \in DOMAIN s.NetIns |-> Mapping(s.NetIns[i].ContainerPort, s.NetIns[i].HostPort)]

\* The port mappings Restore sets up again with NetIn, one by one.
RestoredNetIns(s) ==
  [i \in DOMAIN s.NetIns |-> Mapping(s.NetIns[i].HostPort, s.NetIns[i].ContainerPort)]

\* c.Restore(snapshot), up to the start of LimitMemory: the state, the
\* events, and the notifier when a memory limit was saved.
RestoreBegin(t) ==
  /\ server = "restoring"
  /\ \A u \in Threads : call[u] = Idle
  /\ setState(snapshot.State)
  /\ events' = RestoredEvents(snapshot)
  /\ IF snapshot.Limits["memory"] = Nil
     THEN /\ Goto(t, [op |-> "Restore", pc |-> "net"])
          /\ UNCHANGED <<properties, oomVars, enforced, current, netVars, lifeVars>>
     ELSE \/ /\ startOomNotifier(OK)
             /\ Goto(t, MemoryFrame(snapshot.Limits["memory"], TRUE))
             /\ UNCHANGED <<properties, enforced, current, netVars, lifeVars>>
          \/ /\ oomNotifier = "nil"
             /\ Recreate("Restore", "StartFailed")
             /\ UNCHANGED restarts

\* c.Restore(snapshot), from net.sh setup on: every saved port mapping and
\* NetOut rule is set up again by NetIn and NetOut; the first failure ends
\* Restore, and the pool drops the container.
RestoreNet(t) ==
  /\ call[t].op = "Restore"
  /\ \/ /\ Recreate("Restore", "NetFailed")
        /\ UNCHANGED restarts
     \/ /\ netIns' = RestoredNetIns(snapshot)
        /\ netOuts' = snapshot.NetOuts
        /\ server' = "serving"
        /\ snapshot' = Nil
        /\ Return(t, "Restore", OK)
        /\ UNCHANGED <<properties, state, events, oomVars, enforced, current, portPool, ports, restarts>>

-----------------------------------------------------------------------------
(* Specification *)

Next ==
  \/ \E t \in Threads :
       \/ Start(t) \/ Stop(t) \/ StopFinish(t) \/ Cleanup(t)
       \/ \E l \in LimitValues :
            LimitBandwidth(t, l) \/ LimitDisk(t, l) \/ LimitCPU(t, l) \/ LimitMemory(t, l)
       \/ LimitMemorySet(t) \/ LimitRecord(t)
       \/ \E h \in HostPorts, p \in ContainerPorts : NetIn(t, h, p)
       \/ NetInRun(t)
       \/ \E out \in NetOutSpecs : NetOut(t, out)
       \/ \E key \in PropertyKeys :
            \/ GetProperty(t, key) \/ RemoveProperty(t, key)
            \/ \E value \in PropertyValues : SetProperty(t, key, value)
       \/ RestoreBegin(t) \/ RestoreNet(t)
  \/ Oom \/ NotifierFails
  \/ Watch
  \/ Snapshot \/ Restart

\* The goroutine watchForOom is scheduled: a step of it that stays possible
\* is taken.  Nothing is assumed of the clients, the kernel or the operator.
Fairness == WF_vars(Watch)

Spec == Init /\ [][Next]_vars /\ Fairness

-----------------------------------------------------------------------------
(* Properties *)

Limit == LimitValues \cup {Nil}

Frame ==
  {Idle, [op |-> "Stop"]}
    \cup [op : {"Limit"}, pc : {"set", "record"}, kind : Kinds,
          limits : LimitValues, restoring : BOOLEAN]
    \cup [op : {"NetIn"}, hostPort : (PoolPorts \cup HostPorts) \ {0},
          containerPort : ContainerPorts]
    \cup {[op |-> "Restore", pc |-> "net"]}

\* A recorded port mapping is resolved: NetIn replaces a port given as 0 by
\* the port it chose before it records the mapping.
RecordedNetIn ==
  [HostPort : (PoolPorts \cup HostPorts) \ {0},
   ContainerPort : (PoolPorts \cup HostPorts \cup ContainerPorts) \ {0}]

\* The types of the variables; the recorded port mappings hold no port 0.
TypeOK ==
  /\ state \in State
  /\ events \in Seq({OutOfMemory})
  /\ oomNotifier \in NotifierState
  /\ watcher \in WatcherState
  /\ enforced \in [Kinds -> Limit]
  /\ current \in [Kinds -> Limit]
  /\ portPool \subseteq PoolPorts
  /\ ports \in Seq(PoolPorts)
  /\ netIns \in Seq(RecordedNetIn)
  /\ netOuts \in Seq(NetOutSpecs)
  /\ DOMAIN properties \subseteq PropertyKeys
  /\ \A key \in DOMAIN properties : properties[key] \in PropertyValues
  /\ call \in [Threads -> Frame]
  /\ server \in {"serving", "stopping", "restoring"}
  /\ restarts \in 0 .. MaxRestarts

\* No port is lost or handed out twice: at every moment, through failed
\* NetIn calls, concurrent ones and restarts, each port of the pool is
\* either free or, exactly once, among the container's resources, from
\* where the pool takes it back when the container is destroyed.
PortsTracked ==
  /\ ToSet(ports) \cap portPool = {}
  /\ ToSet(ports) \cup portPool = PoolPorts
  /\ IsInjective(ports)

\* A container reports out of memory at most once per run of the server:
\* startOomNotifier starts a notifier only when the container never had
\* one, so LimitMemory calls after the notifier fired, concurrent or not,
\* start no second watcher; a restart registers the saved events again and
\* may add one.
OneOomEventPerRun ==
  Len(events) <= restarts + 1

\* Restore rebuilds the network rules Snapshot saved: when Restore returns
\* without error the container has the saved port mappings and NetOut
\* rules, in their order.
RestoreReproducesNet ==
  [][ (server = "restoring" /\ server' = "serving" /\ ret'.err = OK) =>
        /\ netIns' = snapshot.NetIns
        /\ netOuts' = snapshot.NetOuts ]_vars

\* Restore rebuilds the memory limit and the events Snapshot saved: when
\* Restore returns without error the saved events come first in the
\* container's events (the watcher started by Restore may have added one),
\* and a saved memory limit is recorded, in force on the host, and watched
\* by a notifier that was started.
RestoreReproducesMemory ==
  [][ (server = "restoring" /\ server' = "serving" /\ ret'.err = OK) =>
        /\ IsPrefix(snapshot.Events, events')
        /\ current'["memory"] = snapshot.Limits["memory"]
        /\ snapshot.Limits["memory"] # Nil =>
             /\ enforced'["memory"] = snapshot.Limits["memory"]
             /\ oomNotifier' \notin {"nil", "unstarted"} ]_vars

\* An out-of-memory condition stops the container: once the notifier has
\* exited, the watcher registers the event and Stop sets the container
\* stopped, whatever the clients do meanwhile, unless stop.sh fails or the
\* container object is replaced first (the server restarts).
OomStopsContainer ==
  oomNotifier = "exited" ~>
    (state = StateStopped \/ watcher = "stopFailed" \/ oomNotifier = "nil")

\* Expected of LimitMemory (its first statement starts the notifier): when
\* it returns without error, the container's notifier was started.
LimitMemoryStartsNotifier ==
  [][ \A t \in Threads :
        (call[t].op = "Limit" /\ call[t].kind = "memory" /\ call'[t] = Idle
           /\ ret'.err = OK) => oomNotifier # "unstarted" ]_vars

\* Expected of CurrentBandwidthLimits, and of the snapshots kept "to persist
\* container state through restarts": between calls, the bandwidth limit
\* the container reports is the one in force on the host.
ReportedBandwidthIsEnforced ==
  (server = "serving" /\ \A t \in Threads : call[t] = Idle) =>
    current["bandwidth"] = enforced["bandwidth"]

\* Expected of watchForOom, which stops a container that ran out of memory,
\* and of Restore, which registers the saved events again: a serving
\* container that has the out-of-memory event is stopped, or its watcher is
\* about to stop it, or stop.sh failed.
OomEventMeansStopped ==
  (server = "serving" /\ OutOfMemory \in ToSet(events)) =>
    state = StateStopped \/ watcher \in {"stop", "finish", "stopFailed"}

\* Expected of NetIn and the port pool, which hands out each of its ports
\* once: a mapping on a host port of the pool is on a port the container
\* was given by the pool.
MappedPoolPortsAreHeld ==
  \A i \in DOMAIN netIns :
    netIns[i].HostPort \in PoolPorts => netIns[i].HostPort \in ToSet(ports)

\* Expected of LimitCPU and Snapshot: between calls, the CPU limit the
\* container has recorded, and would save, is the one in force on the host.
RecordedCPULimitIsEnforced ==
  (server = "serving" /\ \A t \in Threads : call[t] = Idle) =>
    current["cpu"] = enforced["cpu"]

=============================================================================
