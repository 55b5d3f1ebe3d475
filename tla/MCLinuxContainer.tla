-------------------------- MODULE MCLinuxContainer --------------------------
(***************************************************************************)
(* One container, two request threads, a pool of two ports, two limit      *)
(* values and one restart of the server.  The configurations choose the    *)
(* calls the clients make.                                                 *)
(***************************************************************************)
EXTENDS LinuxContainer, TLC

CONSTANTS t1, t2, l1, l2

MCThreads == {t1, t2}

MCLimitValues == {l1, l2}

MCPoolPorts == {1, 2}

\* 0: a port of the pool; 8 and 1: ports named by the client, outside the
\* pool and inside it.
MCHostPorts == {0, 1, 8}

\* 0: the host port; 80: a port named by the client.
MCContainerPorts == {0, 80}

MCNetOutSpecs ==
  { [Network |-> "", Port |-> 0],
    [Network |-> "net", Port |-> 0],
    [Network |-> "net", Port |-> 53] }

\* The calls of the run on limits and the notifier.
MCLimitCalls == {"Stop", "Cleanup", "LimitMemory", "LimitBandwidth", "LimitCPU", "LimitDisk"}

\* The calls of the run on port mappings.
MCNetCalls == {"NetIn", "NetOut", "Stop", "GetProperty", "SetProperty", "RemoveProperty"}

MCSymmetry == Permutations(MCThreads)

=============================================================================
