----------------------------- MODULE MCSubnets -----------------------------
(***************************************************************************)
(* Subnets over 4-bit addresses.  The dynamic range is the lower half of   *)
(* the address space, two /30 slots (as 10.2.3.0/29 in the tests).  The    *)
(* callers name: a /30 and the shareable subnet around it outside the      *)
(* range, the second slot of the range, and the whole address space,       *)
(* which contains the range.                                               *)
(***************************************************************************)
EXTENDS Subnets

MCBits == 4

MCDynamicRange == [ip |-> 0, ones |-> 1]

MCStaticSubnets ==
  { [ip |-> 8, ones |-> 2], [ip |-> 8, ones |-> 1],
    [ip |-> 4, ones |-> 2], [ip |-> 0, ones |-> 0] }

\* Both ends and three hosts of the shareable subnet, a host of each slot.
MCStaticIPs == {1, 6, 8, 9, 10, 11, 15}

=============================================================================
