---------------------------- MODULE NetworkFence ----------------------------
(***************************************************************************)
(* The network fence (package network): the fence builder f, which turns a *)
(* container's network spec into an Allocation backed by the subnet        *)
(* allocator, and the Allocation's own operations Erect, Dismantle, Info   *)
(* and MarshalJSON, together with the restart path Config.Main / Rebuild.  *)
(*                                                                         *)
(* Actors: one request per container at a time (the container pool calls   *)
(* Build when a container is created, Erect when it starts, Dismantle when *)
(* it is destroyed), any number of containers concurrently.  Only the      *)
(* calls into the allocator are serialised by its mutex; the host          *)
(* configuration around them runs unlocked.                                *)
(*                                                                         *)
(* Model simplifications:                                                  *)
(*  - a host interface is identified by its container, a bridge by the     *)
(*    network address it is named after; the names of the two ends of a    *)
(*    container's link are computed from its ID and are not stored;        *)
(*  - the steps of Erect after ConfigureHost (netns directory, /sys mount, *)
(*    link, ip netns exec) change nothing this model observes: they are    *)
(*    one outcome, "a later step failed";                                  *)
(*  - the server is stopped only between requests, and writes a snapshot   *)
(*    of every container it still has.                                     *)
(***************************************************************************)
EXTENDS Subnets, Sequences

CONSTANTS
  Containers,     \* the containers of the host
  ContainerID,    \* ContainerID[c]: the ID of c, a sequence of characters
  NetworkInterfacePrefix,  \* sysconfig.NetworkInterfacePrefix
  MaxIfcNameLen,  \* the room for prefix and ID in an interface name (14)
  Specs,          \* the network specs given to Build
  Nil             \* no fence, no call, no snapshot

VARIABLES
  fence,          \* fence[c]: the Allocation of container c, or Nil
  dismantle,      \* dismantle[c]: what Release returned to a Dismantle in flight
  hostIfc,        \* hostIfc[c]: the bridge c's host interface is attached to
  bridges,        \* the bridges that exist on the host
  snapshots,      \* snapshots[c]: the FlatFence saved for c, awaiting Rebuild
  ret             \* the last return of a fence operation

fenceVars == <<fence, dismantle, hostIfc, bridges, snapshots, ret>>
vars == <<allocated, result, fence, dismantle, hostIfc, bridges, snapshots, ret>>

-----------------------------------------------------------------------------
(* Network specs and their parsing *)

Empty == [kind |-> "empty"]            \* spec = ""
Invalid == [kind |-> "invalid"]        \* a spec net.ParseCIDR rejects
Address(a) == [kind |-> "address", ip |-> a]                \* "a", no "/"
CIDR(a, n) == [kind |-> "cidr", ip |-> a, suffix |-> n]     \* "a/n"

\* A spec is empty, invalid, or an address with or without a prefix length.
NetworkSpec ==
  {Empty, Invalid} \cup { Address(a) : a \in IP }
                   \cup { CIDR(a, n) : a \in IP, n \in 0 .. Bits }

Garbled == [kind |-> "garbled"]        \* a snapshot json.Unmarshal or ParseCIDR rejects

ASSUME Specs \subseteq NetworkSpec

suffixIfNeeded(spec) ==
  IF spec.kind = "address" THEN CIDR(spec.ip, Slash30) ELSE spec

\* Seeded fault: the address as written is taken for the network.
ParseCIDRUnmasked(spec) ==
  [specifiedIP |-> spec.ip, ipn |-> [ip |-> spec.ip, ones |-> spec.suffix]]

\* net.ParseCIDR: the address as written, and the network with host bits zero.
ParseCIDR(spec) ==
  [specifiedIP |-> spec.ip,
   ipn |-> [ip |-> spec.ip - (spec.ip % Size(spec.suffix)), ones |-> spec.suffix]]

\* The selectors Build passes to Allocate.
Selectors(spec) ==
  IF spec = Empty
  THEN [subnet |-> DynamicSubnetSelector, ip |-> DynamicIPSelector]
  ELSE LET p == ParseCIDR(suffixIfNeeded(spec))
       IN  [subnet |-> StaticSubnetSelector(p.ipn),
            ip |-> IF p.specifiedIP # NetworkIP(p.ipn)
                   THEN StaticIPSelector(p.specifiedIP)
                   ELSE DynamicIPSelector]

-----------------------------------------------------------------------------
(* Interface names *)

\* A longer prefix makes Build panic on the slice of the ID.
ASSUME /\ ContainerID \in [Containers -> Seq(STRING)]
       /\ Len(NetworkInterfacePrefix) <= MaxIfcNameLen

maxIdLen == MaxIfcNameLen - Len(NetworkInterfacePrefix)

\* Seeded fault: a long ID keeps its first characters.
ifaceNameOfHead(containerID) ==
  IF Len(containerID) < maxIdLen THEN containerID
  ELSE SubSeq(containerID, 1, maxIdLen)

\* The part of the ID in the names: a long ID keeps its last characters.
ifaceName(containerID) ==
  IF Len(containerID) < maxIdLen THEN containerID
  ELSE SubSeq(containerID, Len(containerID) - maxIdLen + 1, Len(containerID))

\* The names of the two ends of the link of a container.
containerIfcName(containerID) ==
  NetworkInterfacePrefix \o ifaceName(containerID) \o <<"-", "1">>
hostIfcName(containerID) ==
  NetworkInterfacePrefix \o ifaceName(containerID) \o <<"-", "0">>

-----------------------------------------------------------------------------
(* Allocations *)

\* type Allocation.  The bridge is named after the subnet's network address.
NewAllocation(subnet, containerIP) ==
  [subnet |-> subnet, containerIP |-> containerIP,
   subnetShareable |-> subnet.ones < Slash30, bridgeIfcName |-> subnet.ip]

Allocation ==
  { NewAllocation(s, a) : s \in { n \in Subnet : Canonical(n) }, a \in IP }

\* Seeded fault: the host's address is saved in place of the container's.
MarshalJSONHostIP(a) ==
  [Ipn |-> [ip |-> a.subnet.ip, suffix |-> a.subnet.ones],
   ContainerIP |-> GatewayIP(a.subnet),
   SubnetShareable |-> a.subnetShareable,
   BridgeIfcName |-> a.bridgeIfcName]

\* type FlatFence, as written by MarshalJSON.
MarshalJSON(a) ==
  [Ipn |-> [ip |-> a.subnet.ip, suffix |-> a.subnet.ones],
   ContainerIP |-> a.containerIP,
   SubnetShareable |-> a.subnetShareable,
   BridgeIfcName |-> a.bridgeIfcName]

\* Allocation.Info: the host's end is the gateway address of the subnet.
Info(a) == [HostIP |-> GatewayIP(a.subnet), ContainerIP |-> a.containerIP]

\* The fences whose allocation is in the table: built or rebuilt, and not
\* yet given back by a Dismantle.
Holding == { c \in Containers : fence[c] # Nil /\ dismantle[c] = Nil }

\* The server has replayed every snapshot and serves requests.
Serving == \A c \in Containers : snapshots[c] = Nil

-----------------------------------------------------------------------------
(* Host configuration (ConfigureHost, deconfigureHost) *)

\* ConfigureHost: create the veth pair and attach its host end to the
\* subnet's bridge, creating the bridge if it is not there.
ConfigureHost(c, a) ==
  /\ hostIfc' = [hostIfc EXCEPT ![c] = a.bridgeIfcName]
  /\ bridges' = bridges \cup {a.bridgeIfcName}

\* deconfigureHost(hostIfc, bridgeIfc): delete the host interface and, when
\* a bridge is named, the bridge.
deconfigureHost(c, bridge) ==
  /\ hostIfc' = [hostIfc EXCEPT ![c] = Nil]
  /\ bridges' = bridges \ bridge

-----------------------------------------------------------------------------
(* Operations *)

\* Config.Main: a new allocator over the configured network pool, and the
\* fence builder registered with it.
Main ==
  /\ allocated = <<>>
  /\ result = [op |-> "New", err |-> OK]

FenceInit ==
  /\ Main
  /\ fence = [c \in Containers |-> Nil]
  /\ dismantle = [c \in Containers |-> Nil]
  /\ hostIfc = [c \in Containers |-> Nil]
  /\ bridges = {}
  /\ snapshots = [c \in Containers |-> Nil]
  /\ ret = [op |-> "Main", err |-> OK]

\* f.Build(spec, sysconfig, containerID), the spec does not parse.
BuildInvalid(c, spec) ==
  /\ Serving /\ fence[c] = Nil
  /\ spec = Invalid
  /\ ret' = [op |-> "Build", c |-> c, err |-> "ParseError"]
  /\ UNCHANGED <<allocated, result, fence, dismantle, hostIfc, bridges, snapshots>>

\* Seeded fault: an error of Allocate is dropped and the fence is put
\* together from the spec.
BuiltIgnoringError(c, spec) ==
  CASE result'.err = OK -> [fence EXCEPT ![c] = NewAllocation(result'.subnet, result'.ip)]
    [] spec = Empty     -> fence
    [] OTHER            -> LET p == ParseCIDR(suffixIfNeeded(spec))
                           IN  [fence EXCEPT ![c] = NewAllocation(p.ipn, p.specifiedIP)]

\* What Build returns: the Allocation made of the subnet and IP the
\* allocator chose, or nothing when the allocator refused.
Built(c, spec) ==
  IF result'.err = OK
  THEN [fence EXCEPT ![c] = NewAllocation(result'.subnet, result'.ip)]
  ELSE fence

\* f.Build(spec, sysconfig, containerID), the spec is empty or parses.
Build(c, spec) ==
  /\ Serving /\ fence[c] = Nil
  /\ spec # Invalid
  /\ Allocate(Selectors(spec).subnet, Selectors(spec).ip)
  /\ fence' = Built(c, spec)
  /\ ret' = [op |-> "Build", c |-> c, err |-> result'.err]
  /\ UNCHANGED <<dismantle, hostIfc, bridges, snapshots>>

\* Allocation.Erect(containerPid).  ConfigureHost fails and nothing is
\* configured; or the host is configured and a later step fails; or every
\* step succeeds.
Erect(c) ==
  /\ Serving /\ c \in Holding /\ hostIfc[c] = Nil
  /\ \/ /\ ret' = [op |-> "Erect", c |-> c, err |-> "ConfigureHostFailed"]
        /\ UNCHANGED <<hostIfc, bridges>>
     \/ /\ ConfigureHost(c, fence[c])
        /\ \E err \in {"NetnsFailed", OK} : ret' = [op |-> "Erect", c |-> c, err |-> err]
  /\ UNCHANGED <<allocated, result, fence, dismantle, snapshots>>

\* Seeded fault: the host's address is released in place of the container's.
DismantleReleaseHostIP(c) ==
  /\ Serving /\ c \in Holding
  /\ Release(fence[c].subnet, GatewayIP(fence[c].subnet))
  /\ dismantle' = [dismantle EXCEPT ![c] = [released |-> result'.released, err |-> result'.err]]
  /\ UNCHANGED <<fence, hostIfc, bridges, snapshots, ret>>

\* Allocation.Dismantle, first half: the allocation is given back.
DismantleRelease(c) ==
  /\ Serving /\ c \in Holding
  /\ Release(fence[c].subnet, fence[c].containerIP)
  /\ dismantle' = [dismantle EXCEPT ![c] = [released |-> result'.released, err |-> result'.err]]
  /\ UNCHANGED <<fence, hostIfc, bridges, snapshots, ret>>

\* Seeded fault: the bridge is taken down whatever Release returned.
BridgeToRemoveAlways(c) == {fence[c].bridgeIfcName}

\* The bridge Dismantle names to deconfigureHost: the subnet's bridge when
\* the subnet was released, none otherwise.
BridgeToRemove(c) ==
  IF dismantle[c].released THEN {fence[c].bridgeIfcName} ELSE {}

\* Allocation.Dismantle, second half: the host is deconfigured and the
\* error of Release is returned; the caller then drops the container.
DismantleDeconfigure(c) ==
  /\ dismantle[c] # Nil
  /\ deconfigureHost(c, BridgeToRemove(c))
  /\ ret' = [op |-> "Dismantle", c |-> c, err |-> dismantle[c].err]
  /\ fence' = [fence EXCEPT ![c] = Nil]
  /\ dismantle' = [dismantle EXCEPT ![c] = Nil]
  /\ UNCHANGED <<allocated, result, snapshots>>

\* The server stops between requests: LinuxContainer.Snapshot saves the
\* MarshalJSON of every fence, the process exits, and the next process
\* starts with Config.Main.  The host keeps its interfaces.
Restart ==
  /\ Serving /\ \A c \in Containers : dismantle[c] = Nil
  /\ snapshots' = [c \in Containers |->
                     IF fence[c] = Nil THEN Nil ELSE MarshalJSON(fence[c])]
  /\ fence' = [c \in Containers |-> Nil]
  /\ allocated' = <<>>
  /\ result' = [op |-> "New", err |-> OK]
  /\ ret' = [op |-> "Main", err |-> OK]
  /\ UNCHANGED <<dismantle, hostIfc, bridges>>

\* A snapshot file is damaged while the server is down.
GarbleSnapshot(c) ==
  /\ snapshots[c] \notin {Nil, Garbled}
  /\ snapshots' = [snapshots EXCEPT ![c] = Garbled]
  /\ UNCHANGED <<allocated, result, fence, dismantle, hostIfc, bridges, ret>>

\* f.Rebuild(rm), the snapshot does not unmarshal or its Ipn does not parse.
RebuildGarbled(c) ==
  /\ snapshots[c] = Garbled
  /\ snapshots' = [snapshots EXCEPT ![c] = Nil]
  /\ ret' = [op |-> "Rebuild", c |-> c, err |-> "ParseError"]
  /\ UNCHANGED <<allocated, result, fence, dismantle, hostIfc, bridges>>

\* f.Rebuild(rm): the saved subnet and IP are recovered in the allocator and
\* the Allocation is put together from the saved fields.
Rebuild(c) ==
  /\ snapshots[c] \notin {Nil, Garbled}
  /\ LET ff == snapshots[c]
         ipn == ParseCIDR(ff.Ipn).ipn
     IN  /\ Recover(ipn, ff.ContainerIP)
         /\ fence' = IF result'.err = OK
                     THEN [fence EXCEPT ![c] =
                             [subnet |-> ipn, containerIP |-> ff.ContainerIP,
                              subnetShareable |-> ff.SubnetShareable,
                              bridgeIfcName |-> ff.BridgeIfcName]]
                     ELSE fence
  /\ snapshots' = [snapshots EXCEPT ![c] = Nil]
  /\ ret' = [op |-> "Rebuild", c |-> c, err |-> result'.err]
  /\ UNCHANGED <<dismantle, hostIfc, bridges>>

FenceNext ==
  \/ \E c \in Containers, spec \in Specs : BuildInvalid(c, spec) \/ Build(c, spec)
  \/ \E c \in Containers :
       \/ Erect(c)
       \/ DismantleRelease(c)
       \/ DismantleDeconfigure(c)
       \/ GarbleSnapshot(c)
       \/ RebuildGarbled(c)
       \/ Rebuild(c)
  \/ Restart

FenceSpec == FenceInit /\ [][FenceNext]_vars

-----------------------------------------------------------------------------
(* Properties *)

FenceTypeOK ==
  /\ fence \in [Containers -> Allocation \cup {Nil}]
  /\ dismantle \in [Containers -> [released : BOOLEAN, err : Error \cup {OK}] \cup {Nil}]
  /\ \A c \in Containers : dismantle[c] # Nil => fence[c] # Nil
  /\ hostIfc \in [Containers -> IP \cup {Nil}]
  /\ bridges \subseteq IP
  /\ \A c \in Containers :
       snapshots[c] \in {Nil, Garbled} \/ snapshots[c].ContainerIP \in IP

\* The links of two containers that hold a fence have four names, none
\* longer than MaxIfcNameLen + 2: Build cuts a long container ID to its
\* last characters, the ones that differ between the IDs of a host, so
\* that ConfigureHost never meets the interface of another container.
IfcNamesTellContainersApart ==
  \A c, d \in Holding :
    LET names(e) == {containerIfcName(ContainerID[e]), hostIfcName(ContainerID[e])}
    IN  /\ \A n \in names(c) : Len(n) <= MaxIfcNameLen + 2
        /\ c # d => names(c) \cap names(d) = {}

\* The table the fences stand for: each subnet of a holding fence, with the
\* container IPs of the fences on it.
TableOfFences ==
  [s \in { fence[c].subnet : c \in Holding } |->
     { fence[c].containerIP : c \in { d \in Holding : fence[d].subnet = s } }]

\* The allocator and the fences agree: the table holds exactly the subnets
\* and IPs of the fences that were built or rebuilt and not yet dismantled.
\* A Build that keeps a failed allocation, a Dismantle that releases the
\* wrong pair, a restart that rebuilds a fence without recovering it, all
\* break it.
TableMatchesFences == allocated = TableOfFences

\* No two containers share network space: the fences of two containers are
\* on subnets without a common address, or on one shareable subnet with
\* different container IPs (Build and Rebuild pass on every error of the
\* allocator).
FencesDisjoint ==
  \A c, d \in Holding : c # d =>
    \/ ~Overlaps(fence[c].subnet, fence[d].subnet)
    \/ /\ fence[c].subnet = fence[d].subnet
       /\ fence[c].subnetShareable
       /\ fence[c].containerIP # fence[d].containerIP

\* Dismantle takes a bridge down only as the last holder of its subnet: a
\* Release answers released only when no other fence holds the subnet, and
\* deconfigureHost is given a bridge only by a Dismantle whose Release
\* answered released.  Containers sharing a subnet keep their bridge while
\* one of them is destroyed.
BridgeRemovedByLastHolder ==
  [][ /\ \A c \in Containers :
           (dismantle[c] = Nil /\ dismantle'[c] # Nil /\ dismantle'[c].released) =>
             ~ \E d \in Holding \ {c} : fence[d].subnet = fence[c].subnet
      /\ \A b \in bridges \ bridges' :
           \E c \in Containers :
             /\ dismantle[c] # Nil /\ dismantle[c].released
             /\ fence[c].bridgeIfcName = b ]_vars

\* Replay after a restart: a snapshot written by MarshalJSON is always
\* rebuilt, in whatever order the snapshots are replayed; Rebuild fails only
\* for a snapshot that does not parse.
RebuildSucceeds ==
  [][ \A c \in Containers :
        (ret'.op = "Rebuild" /\ ret'.c = c /\ snapshots[c] # Nil /\ snapshots'[c] = Nil
           /\ ret'.err # OK) => snapshots[c] = Garbled ]_vars

\* Stated by the written specification (CIDR arithmetic, glossary): the
\* gateway of a subnet, which Info reports as the host's address, is the
\* network address plus one.
HostIPIsNetworkPlusOne ==
  \A c \in Holding : Info(fence[c]).HostIP = NetworkIP(fence[c].subnet) + 1

\* Expected of a fence: the two ends of the link into a container have
\* different addresses.  Erect gives GatewayIP to the host's interface and
\* containerIP to the container's; a static IP is refused by the allocator
\* only when it is the network or the broadcast address.
ContainerIPIsNotHostIP ==
  \A c \in Holding : fence[c].containerIP # Info(fence[c]).HostIP

\* Expected of Erect and Dismantle together: the host interface of a
\* container that holds its fence stays attached to a bridge that exists.
\* Dismantle releases the subnet under the allocator's mutex and takes the
\* bridge down after it, outside any lock.
HostIfcOnLiveBridge ==
  \A c \in Holding : hostIfc[c] # Nil => hostIfc[c] \in bridges

=============================================================================
