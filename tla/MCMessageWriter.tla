-------------------------- MODULE MCMessageWriter --------------------------
(***************************************************************************)
(* MessageWriter for model checking: two goroutines, two messages json     *)
(* encodes and one it does not, a stream of up to three messages.          *)
(***************************************************************************)
EXTENDS MessageWriter

MCMessages == {"m1", "m2", "bad"}

MCUnencodable == {"bad"}

=============================================================================
