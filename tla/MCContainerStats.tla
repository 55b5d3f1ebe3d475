-------------------------- MODULE MCContainerStats --------------------------
(***************************************************************************)
(* ContainerStats for model checking: files of up to four words over two   *)
(* memory fields, one CPU field and two numbers, so that a field is given  *)
(* twice, a value is no number, a field is unknown and a value is missing. *)
(***************************************************************************)
EXTENDS ContainerStats, TLC

MCWords == {"cache", "total_rss", "user", "7", "9"}

MCUsages == {"7\n", "9", "cache"}

MCParseUint == ("7" :> 7) @@ ("9" :> 9)

MCTrim == [u \in MCUsages |-> IF u = "7\n" THEN "7" ELSE u]

=============================================================================
