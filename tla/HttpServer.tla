----------------------------- MODULE HttpServer -----------------------------
(***************************************************************************)
(* The HTTP side of ycmd (src/src/ycmd.cpp): the accept loop, one          *)
(* coroutine per connection that serves ONE request, the shutdown request, *)
(* and the end of io_context::run.  Everything runs on one thread; an      *)
(* action is one handler the io_context runs, or an event of the kernel,   *)
(* of a client or of clangd.                                               *)
(***************************************************************************)
EXTENDS Naturals, Sequences

CONSTANTS
  Clients,   \* each opens one connection at most
  Kinds      \* what their requests do, see AllKinds

(* plain: the handler returns without suspending; unknown: no handler for  *)
(* the target; shutdown: throws ShutdownResult; throws: throws anything    *)
(* else (bad JSON, ...); semantic: may need clangd: it starts clangd when  *)
(* there is none and suspends until clangd responds.                       *)
AllKinds == {"plain", "unknown", "shutdown", "throws", "semantic"}

ASSUME KindsAssumption == Kinds \subseteq AllKinds

VARIABLES
  status,     \* the process: "running", "exited" or "aborted"
  listening,  \* the accept loop: see Listening
  accepted,   \* the connections accept has returned and listen has not seen
  backlog,    \* connections the kernel holds for accept, oldest first
  conn,       \* per client: its connection
  kind,       \* per client: its request
  response,   \* per client: the HTTP status it got, 0 if none
  clangd      \* "off", "alive" or "dead"; the message pump lives as long

vars == <<status, listening, accepted, backlog, conn, kind, response, clangd>>

(* pending: async_accept waits in the reactor; completed: it has a socket  *)
(* and its handler is queued; cancelled: it was cancelled and its handler  *)
(* is queued; ended: the coroutine has left its loop.                      *)
Listening == {"pending", "completed", "cancelled", "ended"}

Connection == {"none", "backlog", "taken", "reading", "handling", "writing",
               "closed"}

Init ==
  /\ status = "running"
  /\ listening = "pending"
  /\ accepted = {}
  /\ backlog = <<>>
  /\ conn = [c \in Clients |-> "none"]
  /\ kind \in [Clients -> Kinds]
  /\ response = [c \in Clients |-> 0]
  /\ clangd = "off"

Up == status = "running"
Moves(c, from, to) == conn[c] = from /\ conn' = [conn EXCEPT ![c] = to]
----------------------------------------------------------------------------
(* The accept loop.                                                        *)

(* The kernel completes the handshake: the socket stays open, and so does  *)
(* its backlog, as long as the process runs, even when nobody accepts.     *)
Connect(c) ==
  /\ Up
  /\ Moves(c, "none", "backlog")
  /\ backlog' = Append(backlog, c)
  /\ UNCHANGED <<status, listening, accepted, kind, response, clangd>>

(* The reactor: accept returns a socket; listen's handler is now queued.   *)
AcceptCompletes ==
  /\ Up /\ listening = "pending" /\ backlog # <<>>
  /\ listening' = "completed"
  /\ accepted' = {Head(backlog)}
  /\ backlog' = Tail(backlog)
  /\ conn' = [conn EXCEPT ![Head(backlog)] = "taken"]
  /\ UNCHANGED <<status, kind, response, clangd>>

(* listen goes on: a session is spawned (it suspends in async_read) and    *)
(* the loop accepts again.  An accept that fails for any other reason than *)
(* cancellation is only repeated.                                          *)
SpawnSession ==
  /\ Up /\ listening = "completed"
  /\ \E c \in accepted : Moves(c, "taken", "reading")
  /\ accepted' = {}
  /\ listening' = "pending"
  /\ UNCHANGED <<status, backlog, kind, response, clangd>>

ListenEnds ==
  /\ Up /\ listening = "cancelled"
  /\ listening' = "ended"
  /\ UNCHANGED <<status, accepted, backlog, conn, kind, response, clangd>>

(* acceptor.cancel(): only an accept that still waits in the reactor can   *)
(* be cancelled.                                                           *)
AfterCancel == IF listening = "pending" THEN "cancelled" ELSE listening
----------------------------------------------------------------------------
(* A session.                                                              *)

(* The request is read and its handler finishes without suspending (for an *)
(* event or completion: nothing to tell clangd); the response is written.  *)
AnswerAtOnce(c) ==
  /\ Up /\ kind[c] \in {"plain", "unknown", "shutdown", "semantic"}
  /\ Moves(c, "reading", "writing")
  /\ UNCHANGED <<status, listening, accepted, backlog, kind, response, clangd>>

(* The handler suspends in get_response; the first starts clangd.  One *)
(* that has exited is not started again: the request is sent by a detached *)
(* coroutine whose error is lost, and nobody ever responds.                *)
AskClangd(c) ==
  /\ Up /\ kind[c] = "semantic"
  /\ Moves(c, "reading", "handling")
  /\ clangd' = IF clangd = "off" THEN "alive" ELSE clangd
  /\ UNCHANGED <<status, listening, accepted, backlog, kind, response>>

ClangdResponds(c) ==
  /\ Up /\ clangd = "alive"
  /\ Moves(c, "handling", "writing")
  /\ UNCHANGED <<status, listening, accepted, backlog, kind, response, clangd>>

(* Any other exception: handle_session's catch clause assigns a JSON       *)
(* object to the string body, which throws again, a json::type_error the   *)
(* outer catch does not catch, and the completion handler calls abort().   *)
(* An error response of clangd throws too, and so does sending a document  *)
(* to a clangd that is gone, a write that is awaited.                      *)
HandlerThrows(c) ==
  /\ Up
  /\ \/ conn[c] = "reading" /\ kind[c] = "throws"
     \/ conn[c] = "reading" /\ kind[c] = "semantic" /\ clangd = "dead"
     \/ conn[c] = "handling" /\ clangd = "alive"
  /\ status' = "aborted"
  /\ UNCHANGED <<listening, accepted, backlog, conn, kind, response, clangd>>

(* The client goes away before its request is read.                        *)
ReadFails(c) ==
  /\ Up
  /\ Moves(c, "reading", "closed")
  /\ UNCHANGED <<status, listening, accepted, backlog, kind, response, clangd>>

(* Mutant: an unknown target is taken for an error of the server.          *)
StatusOfFailure(c) == IF kind[c] = "unknown" THEN 500 ELSE 200

StatusOf(c) == IF kind[c] = "unknown" THEN 404 ELSE 200

(* The response is written; a shutdown now cancels the accept loop.        *)
ResponseWritten(c) ==
  /\ Up
  /\ Moves(c, "writing", "closed")
  /\ response' = [response EXCEPT ![c] = StatusOf(c)]
  /\ listening' = IF kind[c] = "shutdown" THEN AfterCancel ELSE listening
  /\ UNCHANGED <<status, accepted, backlog, kind, clangd>>

(* Mutant: the accept loop is cancelled whether or not the write succeeds. *)
WriteFailsButCancels(c) ==
  /\ Up
  /\ Moves(c, "writing", "closed")
  /\ listening' = IF kind[c] = "shutdown" THEN AfterCancel ELSE listening
  /\ UNCHANGED <<status, accepted, backlog, kind, response, clangd>>

(* The client is gone: the session ends, and a shutdown does not happen.   *)
WriteFails(c) ==
  /\ Up
  /\ Moves(c, "writing", "closed")
  /\ UNCHANGED <<status, listening, accepted, backlog, kind, response, clangd>>

ClangdExits ==
  /\ Up /\ clangd = "alive"
  /\ clangd' = "dead"
  /\ UNCHANGED <<status, listening, accepted, backlog, conn, kind, response>>

Active == {c \in Clients : conn[c] \in {"taken", "reading", "handling", "writing"}}

(* Mutants: run does not wait for sessions; the pump outlives clangd.      *)
NoWorkButSessions == listening = "ended" /\ clangd # "alive"
NoWorkEverAgain == listening = "ended" /\ Active = {} /\ clangd = "off"

(* io_context::run returns when nothing is outstanding: no accept, no      *)
(* session (a suspended one counts), no pump.                              *)
NoWork == listening = "ended" /\ Active = {} /\ clangd # "alive"

RunReturns ==
  /\ Up /\ NoWork
  /\ status' = "exited"
  /\ UNCHANGED <<listening, accepted, backlog, conn, kind, response, clangd>>
----------------------------------------------------------------------------
Listen == AcceptCompletes \/ SpawnSession \/ ListenEnds
Write(c) == ResponseWritten(c) \/ WriteFails(c)

Next ==
  \/ \E c \in Clients :
       \/ Connect(c) \/ ReadFails(c)
       \/ AnswerAtOnce(c) \/ AskClangd(c) \/ HandlerThrows(c)
       \/ ClangdResponds(c)
       \/ Write(c)
  \/ Listen
  \/ ClangdExits
  \/ RunReturns

Spec == Init /\ [][Next]_vars

(* Fairness: the io_context runs what is ready, the kernel takes a small   *)
(* response, clangd answers while it lives.  A client need never send.     *)
Fairness ==
  /\ WF_vars(Listen) /\ WF_vars(RunReturns)
  /\ \A c \in Clients : WF_vars(Write(c)) /\ WF_vars(ClangdResponds(c))

FairSpec == Spec /\ Fairness
----------------------------------------------------------------------------
(* The shapes of the server's state.                                       *)
TypeOK ==
  /\ status \in {"running", "exited", "aborted"}
  /\ listening \in Listening
  /\ accepted \in SUBSET Clients
  /\ backlog \in Seq(Clients)
  /\ conn \in [Clients -> Connection]
  /\ kind \in [Clients -> Kinds]
  /\ response \in [Clients -> {0, 200, 404}]
  /\ clangd \in {"off", "alive", "dead"}

(* The accept loop is cancelled only on behalf of a shutdown whose response *)
(* the client has got (handle_session cancels after async_write).          *)
StopsAfterShutdown ==
  listening \in {"cancelled", "ended"} =>
    \E c \in Clients : kind[c] = "shutdown" /\ response[c] = 200

(* The server keeps to its life cycle: nothing is taken up once the accept *)
(* loop is cancelled, and run returns with no connection unfinished.       *)
Phase == CASE status = "aborted" -> "crashed"
           [] status = "exited" -> "exited"
           [] OTHER -> IF listening \in {"cancelled", "ended"} THEN "draining"
                       ELSE "serving"

Lifecycle == INSTANCE ServerLifecycle WITH phase <- Phase, active <- Active

LifecycleHolds == Lifecycle!LifecycleSpec

(* What the process needs to exit once its accept loop has ended: every    *)
(* connected client sends or leaves, clangd exits, and no session is       *)
(* suspended on a dead clangd.                                             *)
Stuck == clangd = "alive" \/ \E c \in Clients : conn[c] \in {"reading", "handling"}

ExitsUnlessStuck == listening = "ended" ~> (status # "running" \/ Stuck)
============================================================================
