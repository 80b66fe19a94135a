------------------------------ MODULE LspStream ------------------------------
(***************************************************************************)
(* What message_pump relies on when it resumes lsp::read_message           *)
(* (src/src/lsp/comms.cpp): the messages clangd sends are yielded one by   *)
(* one, none before it is complete, and all that are complete are yielded  *)
(* before the generator ends.                                              *)
(***************************************************************************)
EXTENDS Naturals

VARIABLES
  complete,   \* how many messages the pipe has carried completely
  yielded,    \* how many of them read_message has yielded
  ended       \* the generator is done

streamVars == <<complete, yielded, ended>>

StreamInit == complete = 0 /\ yielded = 0 /\ ended = FALSE

(* One write may complete several messages.                                *)
Arrive ==
  /\ complete' \in Nat
  /\ complete' > complete
  /\ UNCHANGED <<yielded, ended>>

YieldNext ==
  /\ ~ended
  /\ yielded < complete
  /\ yielded' = yielded + 1
  /\ UNCHANGED <<complete, ended>>

End ==
  /\ yielded = complete
  /\ ended' = TRUE
  /\ UNCHANGED <<complete, yielded>>

StreamSpec == StreamInit /\ [][Arrive \/ YieldNext \/ End]_streamVars
=============================================================================
