--------------------------- MODULE MCNetworkFence ---------------------------
(***************************************************************************)
(* The network fence over 4-bit addresses and two containers.  The         *)
(* dynamic range has two /30 slots.  The specs name: nothing (dynamic), a  *)
(* /30 outside the range by its network address and by its last usable     *)
(* address, the shareable subnet around it with a dynamic and with a       *)
(* static container IP, a /30 inside the range, and a spec that does not   *)
(* parse.  An interface name has room for three characters of prefix and   *)
(* container ID, one less than an ID and the prefix take.                  *)
(***************************************************************************)
EXTENDS NetworkFence

CONSTANTS c1, c2

MCBits == 4

MCDynamicRange == [ip |-> 0, ones |-> 1]

MCContainers == {c1, c2}

\* IDs longer than the names have room for, alike but for the last character.
MCContainerID == (c1 :> <<"i", "d", "a">>) @@ (c2 :> <<"i", "d", "b">>)

MCNetworkInterfacePrefix == <<"w">>

MCSpecs ==
  { Empty, Invalid,
    Address(12), CIDR(14, 2), CIDR(8, 1), CIDR(10, 1), Address(4) }

\* The specs of the run on static container IPs: a /30 named with its last
\* usable address.
MCSpecsLastUsable == { Empty, CIDR(14, 2) }

\* Not used by the fence: its requests are derived from the specs.
MCStaticSubnets == {}
MCStaticIPs == {}

MCSymmetry == Permutations(MCContainers)

=============================================================================
