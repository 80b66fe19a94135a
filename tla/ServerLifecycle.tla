--------------------------- MODULE ServerLifecycle ---------------------------
(***************************************************************************)
(* What the HTTP server promises, whatever its requests are: connections   *)
(* are taken up only while it serves; it stops serving only as the end of  *)
(* some request; it exits only then, and not while a connection it took    *)
(* up is unfinished.  It may crash at any time before.                     *)
(***************************************************************************)
CONSTANT Clients

VARIABLES
  phase,    \* "serving", "draining", "exited" or "crashed"
  active    \* connections taken up and not finished

LifecycleInit == phase = "serving" /\ active = {}

Begin(c) ==
  /\ phase = "serving"
  /\ c \notin active
  /\ active' = active \cup {c}
  /\ UNCHANGED phase

End(c) ==
  /\ phase \in {"serving", "draining"}
  /\ c \in active
  /\ active' = active \ {c}
  /\ UNCHANGED phase

(* The request that asks for it is finished, and serving ends with it.     *)
Drain(c) ==
  /\ phase = "serving"
  /\ c \in active
  /\ active' = active \ {c}
  /\ phase' = "draining"

Exit ==
  /\ phase = "draining" /\ active = {}
  /\ phase' = "exited"
  /\ UNCHANGED active

Crash ==
  /\ phase \in {"serving", "draining"}
  /\ phase' = "crashed"
  /\ UNCHANGED active

LifecycleNext ==
  \/ \E c \in Clients : Begin(c) \/ End(c) \/ Drain(c)
  \/ Exit \/ Crash

LifecycleSpec == LifecycleInit /\ [][LifecycleNext]_<<phase, active>>
============================================================================
