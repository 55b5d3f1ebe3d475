----------------------------- MODULE ServerMain -----------------------------
(***************************************************************************)
(* The server process (main.go): the start-up from the flags to the        *)
(* listening server, every step of it that can end the process, and the    *)
(* goroutine that stops the server and exits when a signal arrives.        *)
(*                                                                         *)
(* Model simplifications:                                                  *)
(*  - a path flag is TRUE when it is given, FALSE when it is "";           *)
(*  - the host decides whether a step of the start-up fails; df and stat   *)
(*    cannot succeed on the empty path;                                    *)
(*  - a uint32 has Uint32Bits bits, fewer than a uint;                     *)
(*  - of the objects main builds and hands on, the pools and the quota     *)
(*    manager are variables; the runner, the graph and the providers are   *)
(*    not: no flag decides what they are.                                  *)
(***************************************************************************)
EXTENDS Naturals, Sequences

CONSTANTS
  Uints,          \* the values given to the flags of type uint
  NetworkLists,   \* the values given to -denyNetworks and -allowNetworks
  Uint32Bits,     \* the width of a uint32
  Signals,        \* SIGINT, SIGTERM, SIGHUP
  MaxSignals,     \* bound on the number of signals sent to the process
  Nil

VARIABLES
  flags,          \* the command line
  pc,             \* where the main goroutine is
  usage,          \* the flags reported missing
  pools,          \* the pools and lists the container pool is made of
  quotaManager,   \* Nil, "enabled" or "disabled"
  server,         \* wardenServer: "none", "started", "stopped"
  handler,        \* the goroutine of line 275
  signals,        \* the channel signals
  notified,       \* signal.Notify was called
  arrived,        \* number of signals sent to the process
  caught,         \* a signal arrived after signal.Notify
  exit            \* how the process ended, Nil while it runs

mainVars == <<pc, usage, pools, quotaManager, server>>
signalVars == <<handler, signals, notified, arrived, caught>>
vars == <<flags, mainVars, signalVars, exit>>

-----------------------------------------------------------------------------
(* Values *)

\* The flags main reads before it builds anything.
Flags ==
  [bin : BOOLEAN, depot : BOOLEAN, overlays : BOOLEAN, rootfs : BOOLEAN,
   disableQuotas : BOOLEAN, networkPool : {"cidr", "malformed"},
   portPoolStart : Uints, portPoolSize : Uints,
   uidPoolStart : Uints, uidPoolSize : Uints,
   denyNetworks : NetworkLists, allowNetworks : NetworkLists]

\* The flags main tests with missing.
RequiredFlags == {"bin", "depot", "overlays"}

OK == "ok"

GraphDirectoryErrors ==
  { "failed-to-create-graph-directory", "failed-to-stat-graph-directory",
    "failed-to-stat-rootfs-directory", "graphfs-and-rootfs-device-conflict" }

GraphErrors ==
  { "failed-to-construct-graph-driver", "failed-to-construct-graph",
    "failed-to-construct-registry" }

\* logger.Fatal(msg, err): the process ends.
Fatal(msg) == exit' = [code |-> "fatal", msg |-> msg]

\* The main goroutine is at l.
At(l) == exit = Nil /\ pc = l

\* Seeded fault: a channel without a buffer.
ChanCapUnbuffered == 0

\* The capacity of the channel: make(chan os.Signal, 1).
ChanCap == 1

-----------------------------------------------------------------------------
(* The start-up *)

\* missing(flagName) for each required flag that is empty: it prints the
\* usage and returns.
missing == { f \in RequiredFlags : ~flags[f] }

\* flag.Parse() to the last test of a required flag
ParseFlags ==
  /\ At("flags")
  /\ usage' = missing
  /\ pc' = "pools"
  /\ UNCHANGED <<flags, pools, quotaManager, server, signalVars, exit>>

\* Seeded fault: the flag's value is taken in its full width.
uint32Wide(n) == n

\* uint32(n): the low bits of n.
uint32(n) == n % 2^Uint32Bits

\* uid_pool.New, port_pool.New: the pool of size numbers from start on.
Pool(start, size) == [start |-> uint32(start), size |-> uint32(size)]

\* The uid pool, then the network pool, which ends the process when it is
\* no CIDR, then the port pool.
BuildPools ==
  /\ At("pools")
  /\ LET uidPool == Pool(flags.uidPoolStart, flags.uidPoolSize)
     IN IF flags.networkPool = "malformed"
        THEN /\ pools' = [uid |-> uidPool]
             /\ Fatal("malformed-network-pool")
             /\ UNCHANGED pc
        ELSE /\ pools' = [uid |-> uidPool,
                          port |-> Pool(flags.portPoolStart, flags.portPoolSize)]
             /\ pc' = "quota"
             /\ UNCHANGED exit
  /\ UNCHANGED <<flags, usage, quotaManager, server, signalVars>>

\* getMountPoint(logger, depotPath): df of the depot.
getMountPoint(ok) == IF ok THEN OK ELSE "failed-to-get-mount-info"

\* The quota manager on the mount point of the depot, disabled on request.
BuildQuotaManager ==
  /\ At("quota")
  /\ \E ok \in {b \in BOOLEAN : b => flags.depot} :
       IF getMountPoint(ok) = OK
       THEN /\ quotaManager' = IF flags.disableQuotas THEN "disabled" ELSE "enabled"
            /\ pc' = "graph"
            /\ UNCHANGED exit
       ELSE Fatal(getMountPoint(ok)) /\ UNCHANGED <<pc, quotaManager>>
  /\ UNCHANGED <<flags, usage, pools, server, signalVars>>

\* A step that the host lets fail with one of failures or, when it can,
\* succeed: the process ends or main goes on at next.
Attempt(from, next, failures, can) ==
  /\ At(from)
  /\ \/ \E msg \in failures : Fatal(msg) /\ UNCHANGED pc
     \/ can /\ pc' = next /\ UNCHANGED exit

\* Seeded fault: the rootfs is not looked at.
PrepareGraphOnly ==
  /\ Attempt("graph", "driver", GraphDirectoryErrors, TRUE)
  /\ UNCHANGED <<flags, usage, pools, quotaManager, server, signalVars>>

\* The graph directory and the rootfs: created, both found, on two devices.
PrepareGraph ==
  /\ Attempt("graph", "driver", GraphDirectoryErrors, flags.rootfs)
  /\ UNCHANGED <<flags, usage, pools, quotaManager, server, signalVars>>

\* The graph driver, the graph, the registry session, the providers.
BuildGraph ==
  /\ Attempt("driver", "backend", GraphErrors, TRUE)
  /\ UNCHANGED <<flags, usage, pools, quotaManager, server, signalVars>>

\* strings.Split(list, ","): the networks between the commas, and one
\* empty network when nothing is listed.
Split(list) == IF list = <<>> THEN <<"">> ELSE list

\* The container pool, the backend and backend.Setup().
SetupBackend ==
  /\ Attempt("backend", "server", {"failed-to-set-up-backend"}, TRUE)
  /\ pools' = [uid |-> pools.uid, port |-> pools.port,
               deny |-> Split(flags.denyNetworks),
               allow |-> Split(flags.allowNetworks)]
  /\ UNCHANGED <<flags, usage, quotaManager, server, signalVars>>

\* wardenServer.Start()
StartServer ==
  /\ Attempt("server", "spawn", {"failed-to-start-server"}, TRUE)
  /\ server' = IF exit' = Nil THEN "started" ELSE server
  /\ UNCHANGED <<flags, usage, pools, quotaManager, signalVars>>

\* The channel and the go statement.
SpawnHandler ==
  /\ At("spawn")
  /\ handler' = "spawned"
  /\ pc' = "notify"
  /\ UNCHANGED <<flags, usage, pools, quotaManager, server, signals, notified, arrived, caught, exit>>

\* signal.Notify(signals, ...), then select {}.
Notify ==
  /\ At("notify")
  /\ notified' = TRUE
  /\ pc' = "select"
  /\ UNCHANGED <<flags, usage, pools, quotaManager, server, handler, signals, arrived, caught, exit>>

-----------------------------------------------------------------------------
(* Signals *)

\* The runtime's send to a notified channel: it never blocks, the signal is
\* dropped when neither the buffer nor a waiting receiver takes it.
Deliver(sig) ==
  IF Len(signals) < ChanCap \/ (handler = "waiting" /\ signals = <<>>)
  THEN signals' = Append(signals, sig)
  ELSE UNCHANGED signals

\* The host sends a signal: it ends a process that did not ask for it.
Signal(sig) ==
  /\ exit = Nil
  /\ arrived < MaxSignals
  /\ arrived' = arrived + 1
  /\ IF notified
     THEN Deliver(sig) /\ caught' = TRUE /\ UNCHANGED exit
     ELSE exit' = [code |-> "signal", msg |-> sig] /\ UNCHANGED <<signals, caught>>
  /\ UNCHANGED <<flags, mainVars, handler, notified>>

\* <-signals with nothing to take: the goroutine blocks.
HandlerWait ==
  /\ exit = Nil
  /\ handler = "spawned" /\ signals = <<>>
  /\ handler' = "waiting"
  /\ UNCHANGED <<flags, mainVars, signals, notified, arrived, caught, exit>>

\* <-signals
HandlerReceive ==
  /\ exit = Nil
  /\ handler \in {"spawned", "waiting"} /\ signals # <<>>
  /\ handler' = "received"
  /\ signals' = Tail(signals)
  /\ UNCHANGED <<flags, mainVars, notified, arrived, caught, exit>>

\* Seeded fault: the goroutine goes on to exit without the stop.
HandlerStopSkipped ==
  /\ exit = Nil
  /\ handler = "received"
  /\ handler' = "stopped"
  /\ UNCHANGED <<flags, mainVars, signals, notified, arrived, caught, exit>>

\* wardenServer.Stop()
HandlerStop ==
  /\ exit = Nil
  /\ handler = "received"
  /\ server' = "stopped"
  /\ handler' = "stopped"
  /\ UNCHANGED <<flags, pc, usage, pools, quotaManager, signals, notified, arrived, caught, exit>>

\* os.Exit(0)
HandlerExit ==
  /\ exit = Nil
  /\ handler = "stopped"
  /\ exit' = [code |-> OK, msg |-> OK]
  /\ UNCHANGED <<flags, mainVars, signalVars>>

Handler == HandlerWait \/ HandlerReceive \/ HandlerStop \/ HandlerExit

-----------------------------------------------------------------------------
(* Specification *)

Init ==
  /\ flags \in Flags
  /\ pc = "flags"
  /\ usage = {}
  /\ pools = Nil
  /\ quotaManager = Nil
  /\ server = "none"
  /\ handler = "none"
  /\ signals = <<>>
  /\ notified = FALSE
  /\ arrived = 0
  /\ caught = FALSE
  /\ exit = Nil

Main ==
  \/ ParseFlags \/ BuildPools \/ BuildQuotaManager \/ PrepareGraph
  \/ BuildGraph \/ SetupBackend \/ StartServer \/ SpawnHandler \/ Notify

Next == Main \/ Handler \/ \E sig \in Signals : Signal(sig)

\* A goroutine that can run does run.
Spec == Init /\ [][Next]_vars /\ WF_vars(Handler)

-----------------------------------------------------------------------------
(* Properties *)

\* The types of the variables; the channel never holds more than its one
\* signal, however many arrive while the goroutine is busy.
TypeOK ==
  /\ flags \in Flags
  /\ pc \in {"flags", "pools", "quota", "graph", "driver", "backend", "server",
             "spawn", "notify", "select"}
  /\ usage \subseteq RequiredFlags
  /\ pools # Nil =>
       \A p \in DOMAIN pools \cap {"uid", "port"} :
         \A f \in DOMAIN pools[p] : pools[p][f] < 2^Uint32Bits
  /\ quotaManager \in {Nil, "enabled", "disabled"}
  /\ server \in {"none", "started", "stopped"}
  /\ handler \in {"none", "spawned", "waiting", "received", "stopped"}
  /\ signals \in Seq(Signals) /\ Len(signals) <= 1
  /\ notified \in BOOLEAN /\ caught \in BOOLEAN /\ arrived \in 0 .. MaxSignals
  /\ exit # Nil => exit.code \in {OK, "fatal", "signal"}

Lifecycle ==
  INSTANCE ServerLifecycle WITH
    phase <- CASE exit # Nil         -> "exited"
               [] server = "stopped" -> "draining"
               [] server = "started" -> "serving"
               [] OTHER              -> "starting",
    code <- IF exit = Nil THEN Nil ELSE exit.code

\* main implements the lifecycle of a server process: logger.Fatal strikes
\* only before the server listens, os.Exit(0) comes only after
\* wardenServer.Stop(), and once the stop has begun no further signal, on
\* the channel or dropped, ends the process in another way.
LifecycleSpec == Lifecycle!Spec

\* A signal that arrives after signal.Notify ends the process: it is in the
\* channel or in the hands of the goroutine even when the goroutine had not
\* reached its receive, and the goroutine goes through Stop to os.Exit.
CaughtSignalEndsProcess == caught ~> (exit # Nil /\ exit.code = OK)

\* A process that serves was given a depot, a rootfs and a network pool, and
\* has its pools and its quota manager: missing() returns to main, and what
\* keeps a process without -depot or -rootfs from serving is df and stat
\* failing on the empty path several steps later.
ServingProcessIsConfigured ==
  server # "none" =>
    /\ flags.depot /\ flags.rootfs
    /\ flags.networkPool = "cidr"
    /\ pools # Nil /\ DOMAIN pools = {"uid", "port", "deny", "allow"}
    /\ quotaManager = IF flags.disableQuotas THEN "disabled" ELSE "enabled"

\* The flags tested with missing are required: a process that reports one
\* of them missing does not go on starting.
MissingFlagEndsStartup == usage # {} => exit # Nil

\* A process that serves does not end before wardenServer.Stop() has run:
\* the containers are saved by the stop only.
ServerStoppedBeforeExit ==
  [][(exit = Nil /\ exit' # Nil) => server # "started"]_vars

=============================================================================
