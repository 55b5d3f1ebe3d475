--------------------------- MODULE MCContainerRun ---------------------------
(***************************************************************************)
(* ContainerRun for model checking: a key with two values, a second key    *)
(* and a string without "=", environments of up to two variables on each   *)
(* side.                                                                   *)
(***************************************************************************)
EXTENDS ContainerRun

MCEnvVar ==
  { [key |-> "A", value |-> "1"], [key |-> "A", value |-> "2"],
    [key |-> "B", value |-> "1"], [key |-> "A"] }

MCUsers == {"", "alice"}

\* No limit, and the last and the first limit.
MCResourceLimits ==
  { [n \in ToSet(RLimitNames) |-> IF n \in given THEN 1 ELSE Nil] :
      given \in {{}, {"Stack", "As"}} }

=============================================================================
