---------------------------- MODULE MCServerMain ----------------------------
(***************************************************************************)
(* ServerMain for model checking: every command line, the three signals    *)
(* main asks for, two of them sent. A uint32 has two bits; a flag of type  *)
(* uint holds a number that fits in it or the first one that does not.     *)
(***************************************************************************)
EXTENDS ServerMain

MCUint32Bits == 2

MCUints == {1, 2^MCUint32Bits}

\* Nothing listed, and one network.
MCNetworkLists == {<<>>, <<"10.0.0.0/8">>}

MCSignals == {"SIGINT", "SIGTERM", "SIGHUP"}

\* The run on the signal window starts with every required flag given.
MCInitFlagsGiven == Init /\ \A f \in RequiredFlags : flags[f]

=============================================================================
