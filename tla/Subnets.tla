------------------------------ MODULE Subnets ------------------------------
(***************************************************************************)
(* The subnet and IP allocator of the network fence (package subnets,      *)
(* type Manager): one configured CIDR block, the dynamic range, is cut     *)
(* into /30 subnets handed out on request; arbitrary other subnets can be  *)
(* allocated statically; allocations persisted by the caller are put back  *)
(* with Recover after a restart.                                           *)
(*                                                                         *)
(* The allocator's own source is not part of the repository snapshot: the  *)
(* definitions below follow the written specification (sections 3, 4 and   *)
(* 7) and the expectations of net_fence/subnets/subnets_test.go.           *)
(*                                                                         *)
(* Model simplifications:                                                  *)
(*  - an address is a number of Bits bits instead of 32; a "/30" is the    *)
(*    subnet with two host bits, prefix length Bits - 2;                   *)
(*  - every operation holds the manager's mutex from its first to its last *)
(*    line, so each is one atomic action.                                  *)
(***************************************************************************)
EXTENDS Naturals, FiniteSets, TLC, FiniteSetsExt, Functions

CONSTANTS
  Bits,           \* width of an address (32 in the program)
  DynamicRange,   \* the dynamic pool given to New
  StaticSubnets,  \* the subnets callers name in static and recover requests
  StaticIPs       \* the addresses callers name in static and recover requests

VARIABLES
  allocated,      \* the allocation table: live subnet -> set of held IPs
  result          \* what the last call returned to its caller

subnetVars == <<allocated, result>>

-----------------------------------------------------------------------------
(* CIDR arithmetic *)

IP == 0 .. (2^Bits - 1)

Slash30 == Bits - 2

Size(ones) == 2^(Bits - ones)

\* A subnet is its network address and its prefix length, host bits zero.
Subnet == { [ip |-> a, ones |-> n] : a \in IP, n \in 0 .. Bits }

Canonical(s) == s.ip % Size(s.ones) = 0

NetworkIP(s) == s.ip - (s.ip % Size(s.ones))

BroadcastIP(s) == NetworkIP(s) + Size(s.ones) - 1

\* The host's end of a subnet is its last usable address: the fence's tests
\* expect 1.2.0.2 for 1.2.0.0/30, 1.2.0.14 for a /28 and 4.5.6.6 for a /29.
GatewayIP(s) == BroadcastIP(s) - 1

Contains(s, a) == a \div Size(s.ones) = s.ip \div Size(s.ones)

Overlaps(s, t) == Contains(s, NetworkIP(t)) \/ Contains(t, NetworkIP(s))

\* s lies wholly inside t.
Within(s, t) == t.ones <= s.ones /\ Contains(t, s.ip)

\* prefix < 30: more than four addresses, several containers may share it.
Shareable(s) == s.ones < Slash30

\* The /30 grid of a pool, enumerated by iter_slash30 in ascending order.
Slash30s(pool) ==
  { [ip |-> a, ones |-> Slash30] :
      a \in { x \in IP : Contains(pool, x) /\ x % 4 = 0 /\ pool.ones <= Slash30 } }

\* The number of /30 subnets the dynamic range can give out.
Capacity ==
  IF DynamicRange.ones <= Slash30 THEN 2^(Slash30 - DynamicRange.ones) ELSE 0

ASSUME /\ Bits \in Nat /\ Bits >= 2
       /\ DynamicRange \in Subnet /\ Canonical(DynamicRange)
       /\ StaticSubnets \subseteq Subnet /\ \A s \in StaticSubnets : Canonical(s)
       /\ StaticIPs \subseteq IP

-----------------------------------------------------------------------------
(* Selectors and errors *)

DynamicSubnetSelector == [kind |-> "dynamic"]
StaticSubnetSelector(s) == [kind |-> "static", subnet |-> s]
DynamicIPSelector == [kind |-> "dynamic"]
StaticIPSelector(a) == [kind |-> "static", ip |-> a]

SubnetSelector == {DynamicSubnetSelector} \cup { StaticSubnetSelector(s) : s \in StaticSubnets }
IPSelector == {DynamicIPSelector} \cup { StaticIPSelector(a) : a \in StaticIPs }

OK == "ok"
ErrInsufficientSubnets == "ErrInsufficientSubnets"
ErrAlreadyAllocated == "ErrAlreadyAllocated"
ErrReleasedUnallocatedNetwork == "ErrReleasedUnallocatedNetwork"
ErrInvalidIP == "ErrInvalidIP"

Error == { ErrInsufficientSubnets, ErrAlreadyAllocated,
          ErrReleasedUnallocatedNetwork, ErrInvalidIP }

-----------------------------------------------------------------------------
(* The allocation table *)

Live == DOMAIN allocated

Held(s) == IF s \in Live THEN allocated[s] ELSE {}

\* Seeded fault: only an equal key counts as a conflict.
ConflictsByKeyOnly(s) == FALSE

\* Another live subnet shares addresses with s.
Conflicts(s) == \E t \in Live \ {s} : Overlaps(s, t)

\* Seeded fault: a live subnet is handed out again whatever its size.
TakenOnlyByOverlap(s) == Conflicts(s)

\* A static or recovered subnet cannot be taken: it overlaps another live
\* subnet, or it is itself live and too small to be shared.
Taken(s) == Conflicts(s) \/ (s \in Live /\ ~Shareable(s))

FreeSlots == Slash30s(DynamicRange) \ Live

\* Seeded fault: the walk over the pool does not start at the lowest slot.
AnySlot(slots) == CHOOSE s \in slots : \A t \in slots : s.ip >= t.ip

\* The first subnet of the walk: the one with the lowest network address.
LowestSlot(slots) == CHOOSE s \in slots : \A t \in slots : s.ip <= t.ip

\* Step 1 and 2 of allocate: resolve the subnet selector.
SelectSubnet(sn) ==
  IF sn.kind = "dynamic"
  THEN CASE FreeSlots = {}                   -> [err |-> ErrInsufficientSubnets]
         [] Conflicts(LowestSlot(FreeSlots)) -> [err |-> ErrAlreadyAllocated]
         [] OTHER                            -> [err |-> OK, subnet |-> LowestSlot(FreeSlots)]
  ELSE IF Within(sn.subnet, DynamicRange) \/ Taken(sn.subnet)
       THEN [err |-> ErrAlreadyAllocated]
       ELSE [err |-> OK, subnet |-> sn.subnet]

\* Seeded fault: the network and broadcast addresses are handed out too.
UsableWithEnds(s) == { a \in IP : Contains(s, a) }

\* The addresses of s a container can be given.
Usable(s) == { a \in IP : Contains(s, a) } \ { NetworkIP(s), BroadcastIP(s) }

\* Step 3 of allocate: resolve the IP selector inside subnet s.  A dynamic
\* IP is the first usable address nobody holds, the host's end left out: in
\* a /30 it is network+1, the neighbour of the gateway at network+2 (the
\* specification puts the gateway at network+1 and the container at
\* network+2; the tests of the fence put the gateway at network+2).  The
\* specification names two failures of this step: a subnet with every
\* address held fails as a duplicate does.
SelectIP(s, is) ==
  IF is.kind = "dynamic"
  THEN LET free == Usable(s) \ (Held(s) \cup {GatewayIP(s)})
       IN  IF free = {} THEN [err |-> ErrAlreadyAllocated]
                        ELSE [err |-> OK, ip |-> Min(free)]
  ELSE CASE is.ip \notin Usable(s) -> [err |-> ErrInvalidIP]
         [] is.ip \in Held(s)      -> [err |-> ErrAlreadyAllocated]
         [] OTHER                  -> [err |-> OK, ip |-> is.ip]

\* Step 4 of allocate: insert or update the entry.
Hold(s, a) == (s :> (Held(s) \cup {a})) @@ allocated

\* Seeded fault: the entry is kept when its last IP is released.
DropKeepingEntry(s, a) == [allocated EXCEPT ![s] = @ \ {a}]

\* The entry of s after a is given back: dropped when a was its last IP.
Drop(s, a) ==
  IF allocated[s] = {a}
  THEN Restrict(allocated, Live \ {s})
  ELSE [allocated EXCEPT ![s] = @ \ {a}]

-----------------------------------------------------------------------------
(* Operations of the Manager *)

Init ==
  /\ allocated = <<>>
  /\ result = [op |-> "New", err |-> OK]

\* Manager.Allocate(subnetSelector, ipSelector) -> (subnet, ip, err)
Allocate(sn, is) ==
  LET s == SelectSubnet(sn)
      a == IF s.err = OK THEN SelectIP(s.subnet, is) ELSE s
  IN  IF a.err = OK
      THEN /\ allocated' = Hold(s.subnet, a.ip)
           /\ result' = [op |-> "Allocate", err |-> OK, subnet |-> s.subnet,
                         ip |-> a.ip, dynamic |-> sn.kind = "dynamic"]
      ELSE /\ result' = [op |-> "Allocate", err |-> a.err]
           /\ UNCHANGED allocated

\* Manager.Release(subnet, ip) -> (released, err)
Release(s, a) ==
  IF a \in Held(s)
  THEN /\ allocated' = Drop(s, a)
       /\ result' = [op |-> "Release", err |-> OK, subnet |-> s, ip |-> a,
                     released |-> s \notin DOMAIN allocated']
  ELSE /\ result' = [op |-> "Release", err |-> ErrReleasedUnallocatedNetwork,
                     released |-> FALSE]
       /\ UNCHANGED allocated

\* Manager.Recover(subnet, ip) -> err
Recover(s, a) ==
  LET e == IF Taken(s) THEN [err |-> ErrAlreadyAllocated]
                       ELSE SelectIP(s, StaticIPSelector(a))
  IN  IF e.err = OK
      THEN /\ allocated' = Hold(s, a)
           /\ result' = [op |-> "Recover", err |-> OK, subnet |-> s, ip |-> a]
      ELSE /\ result' = [op |-> "Recover", err |-> e.err]
           /\ UNCHANGED allocated

Next ==
  \/ \E sn \in SubnetSelector, is \in IPSelector : Allocate(sn, is)
  \/ \E s \in StaticSubnets \cup Slash30s(DynamicRange), a \in StaticIPs :
       Release(s, a) \/ Recover(s, a)

Spec == Init /\ [][Next]_subnetVars

-----------------------------------------------------------------------------
(* Properties *)

\* The table maps canonical subnets to non-empty sets of addresses: release
\* drops an entry together with its last IP.
TypeOK ==
  /\ Live \subseteq Subnet
  /\ \A s \in Live : Canonical(s) /\ allocated[s] \in (SUBSET IP) \ {{}}
  /\ result.err \in Error \cup {OK}

\* Non-overlap across live subnets: the overlap scan of allocate and recover
\* keeps any two distinct live subnets free of common addresses, whatever
\* mix of dynamic, static and recovered subnets is in the table.
NoOverlap ==
  \A s, t \in Live : s # t => ~Overlaps(s, t)

\* IP containment: every held IP lies inside its subnet and is neither the
\* network nor the broadcast address, for selected and recovered IPs alike.
HeldIPsUsable ==
  \A s \in Live : \A a \in allocated[s] :
    Contains(s, a) /\ a # NetworkIP(s) /\ a # BroadcastIP(s)

\* Shareability: a subnet of four or fewer addresses never has a second
\* holder, whether it is asked for again with a dynamic IP, with another
\* static IP, or recovered twice.
SingleHolderUnlessShareable ==
  \A s \in Live : ~Shareable(s) => Cardinality(allocated[s]) = 1

\* Tie-breaking of dynamic allocation: a successful Allocate with the dynamic
\* subnet selector returns a /30 of the pool's grid that was free, and every
\* lower slot of the grid was live when it was chosen.
DynamicTakesLowestFree ==
  [][ (result'.op = "Allocate" /\ result'.err = OK /\ result'.dynamic) =>
        /\ result'.subnet \in Slash30s(DynamicRange) \ Live
        /\ \A t \in Slash30s(DynamicRange) :
             t.ip < result'.subnet.ip => t \in Live ]_subnetVars

=============================================================================
