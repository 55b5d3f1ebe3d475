-------------------------- MODULE ServerLifecycle --------------------------
(***************************************************************************)
(* What the server process promises to whoever starts and stops it: it     *)
(* either fails while it starts or comes to serve; once it serves it ends  *)
(* in order and only after the server was stopped; a signal can end it     *)
(* abruptly only as long as the stop has not begun.                        *)
(***************************************************************************)
CONSTANT Nil

VARIABLES
  phase,          \* "starting", "serving", "draining" or "exited"
  code            \* how the process ended, Nil while it runs

lifecycleVars == <<phase, code>>

Init == phase = "starting" /\ code = Nil

Move(from, to, c) == phase = from /\ phase' = to /\ code' = c

\* A step of the start-up fails.
Fail == Move("starting", "exited", "fatal")

\* The server listens.
Serve == Move("starting", "serving", Nil)

\* The server is stopped: no new requests, containers saved.
Drain == Move("serving", "draining", Nil)

\* The process ends after the stop.
Exit == Move("draining", "exited", "ok")

\* A signal nobody handles ends the process.
Kill == \E from \in {"starting", "serving"} : Move(from, "exited", "signal")

Next == Fail \/ Serve \/ Drain \/ Exit \/ Kill

Spec == Init /\ [][Next]_lifecycleVars

=============================================================================
