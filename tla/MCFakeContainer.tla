--------------------------- MODULE MCFakeContainer ---------------------------
(***************************************************************************)
(* FakeContainer for model checking: two goroutines, two writers, up to    *)
(* three saved snapshots.                                                  *)
(***************************************************************************)
EXTENDS FakeContainer

MCSpecs == { [Handle |-> "h", Properties |-> "p", GraceTime |-> 1] }

=============================================================================
