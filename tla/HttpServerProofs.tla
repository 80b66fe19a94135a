-------------------------- MODULE HttpServerProofs --------------------------
(* Proofs about the HTTP server, for every set of clients and requests.     *)
EXTENDS HttpServer, SequenceTheorems, TLAPS

LEMMA TypeInit == Init => TypeOK
  BY DEF Init, TypeOK, Listening, Connection

LEMMA TypeStep == TypeOK /\ [Next]_vars => TypeOK'
<1> SUFFICES ASSUME TypeOK, [Next]_vars PROVE TypeOK'
  OBVIOUS
<1> USE DEF TypeOK, Connection, Listening, Moves, Up
<1>1. ASSUME NEW c \in Clients, Connect(c) PROVE TypeOK'
  BY <1>1 DEF Connect
<1>2. ASSUME NEW c \in Clients, ReadFails(c) PROVE TypeOK'
  BY <1>2 DEF ReadFails
<1>3. ASSUME NEW c \in Clients, AnswerAtOnce(c) PROVE TypeOK'
  BY <1>3 DEF AnswerAtOnce
<1>4. ASSUME NEW c \in Clients, AskClangd(c) PROVE TypeOK'
  BY <1>4 DEF AskClangd
<1>5. ASSUME NEW c \in Clients, HandlerThrows(c) PROVE TypeOK'
  BY <1>5 DEF HandlerThrows
<1>6. ASSUME NEW c \in Clients, ClangdResponds(c) PROVE TypeOK'
  BY <1>6 DEF ClangdResponds
<1>7. ASSUME NEW c \in Clients, ResponseWritten(c) PROVE TypeOK'
  <2>1. StatusOf(c) \in {0, 200, 404}
    BY DEF StatusOf
  <2>2. listening' \in Listening
    BY <1>7 DEF ResponseWritten, AfterCancel
  <2> QED BY <1>7, <2>1, <2>2 DEF ResponseWritten
<1>8. ASSUME NEW c \in Clients, WriteFails(c) PROVE TypeOK'
  BY <1>8 DEF WriteFails
<1>9. CASE AcceptCompletes
  <2>1. Head(backlog) \in Clients /\ Tail(backlog) \in Seq(Clients)
    BY <1>9, HeadTailProperties DEF AcceptCompletes
  <2> QED BY <1>9, <2>1 DEF AcceptCompletes
<1>10. CASE SpawnSession
  BY <1>10 DEF SpawnSession
<1>11. CASE ListenEnds
  BY <1>11 DEF ListenEnds
<1>12. CASE ClangdExits
  BY <1>12 DEF ClangdExits
<1>13. CASE RunReturns
  BY <1>13 DEF RunReturns
<1>14. CASE UNCHANGED vars
  BY <1>14 DEF vars
<1> QED BY <1>1, <1>2, <1>3, <1>4, <1>5, <1>6, <1>7, <1>8, <1>9, <1>10, <1>11,
           <1>12, <1>13, <1>14 DEF Next, Write, Listen

(* Type correctness of the server.                                          *)
THEOREM TypeCorrect == Spec => []TypeOK
  BY TypeInit, TypeStep, PTL DEF Spec
----------------------------------------------------------------------------
(* The accept loop is cancelled only for an answered shutdown: the response *)
(* is recorded in the very step that cancels, and stays.                    *)
LEMMA StopsStep ==
  TypeOK /\ StopsAfterShutdown /\ [Next]_vars => StopsAfterShutdown'
<1> SUFFICES ASSUME TypeOK, StopsAfterShutdown, [Next]_vars,
                    listening' \in {"cancelled", "ended"}
             PROVE  \E c \in Clients : kind'[c] = "shutdown" /\ response'[c] = 200
  BY DEF StopsAfterShutdown
<1>1. ASSUME listening \in {"cancelled", "ended"}, kind' = kind, response' = response
      PROVE  \E c \in Clients : kind'[c] = "shutdown" /\ response'[c] = 200
  BY <1>1 DEF StopsAfterShutdown
<1>2. ASSUME NEW c \in Clients, ResponseWritten(c)
      PROVE  \E d \in Clients : kind'[d] = "shutdown" /\ response'[d] = 200
  <2>1. kind' = kind /\ response' = [response EXCEPT ![c] = StatusOf(c)]
    BY <1>2 DEF ResponseWritten
  <2>2. kind[c] = "shutdown" => response'[c] = 200
    BY <2>1 DEF StatusOf, TypeOK
  <2>3. CASE kind[c] = "shutdown"
    BY <2>1, <2>2, <2>3
  <2>4. CASE kind[c] # "shutdown"
    <3>1. listening \in {"cancelled", "ended"}
      BY <1>2, <2>4 DEF ResponseWritten
    <3>2. PICK d \in Clients : kind[d] = "shutdown" /\ response[d] = 200
      BY <3>1 DEF StopsAfterShutdown
    <3> QED BY <2>1, <2>4, <3>2 DEF TypeOK
  <2> QED BY <2>3, <2>4
<1>3. ASSUME NEW c \in Clients,
             \/ Connect(c) \/ ReadFails(c) \/ AnswerAtOnce(c) \/ AskClangd(c)
             \/ HandlerThrows(c) \/ ClangdResponds(c) \/ WriteFails(c)
      PROVE  listening \in {"cancelled", "ended"} /\ kind' = kind /\ response' = response
  BY <1>3 DEF Connect, ReadFails, AnswerAtOnce, AskClangd, HandlerThrows,
              ClangdResponds, WriteFails
<1>4. ASSUME AcceptCompletes \/ SpawnSession \/ ListenEnds \/ ClangdExits \/ RunReturns
             \/ UNCHANGED vars
      PROVE  listening \in {"cancelled", "ended"} /\ kind' = kind /\ response' = response
  BY <1>4 DEF AcceptCompletes, SpawnSession, ListenEnds, ClangdExits, RunReturns, vars
<1> QED BY <1>1, <1>2, <1>3, <1>4 DEF Next, Write, Listen

(* The accept loop is cancelled only after a client got the response to a   *)
(* shutdown (handle_session: async_write comes before acceptor.cancel()).   *)
THEOREM StopsOnlyAfterShutdown == Spec => []StopsAfterShutdown
<1>1. Init => StopsAfterShutdown
  BY DEF Init, StopsAfterShutdown
<1> QED BY <1>1, StopsStep, TypeCorrect, PTL DEF Spec
----------------------------------------------------------------------------
(* Accept and listen agree on the connections: what accept has taken is     *)
(* what listen is about to see, and nothing waits twice.  The life cycle    *)
(* needs it: accept takes up a connection that was not taken up before.     *)
Handover ==
  /\ accepted = {c \in Clients : conn[c] = "taken"}
  /\ accepted # {} <=> listening = "completed"
  /\ \A c, d \in accepted : c = d
  /\ \A i, j \in DOMAIN backlog : backlog[i] = backlog[j] => i = j
  /\ \A i \in DOMAIN backlog : conn[backlog[i]] = "backlog"

(* A step that only moves a connection that is neither queued nor taken.    *)
LEMMA MoveKeepsHandover ==
  ASSUME TypeOK, Handover, NEW c \in Clients, NEW from, NEW to,
         Moves(c, from, to), from \notin {"backlog", "taken"},
         to \notin {"backlog", "taken"}, UNCHANGED <<accepted, backlog>>,
         listening' = "completed" <=> listening = "completed"
  PROVE  Handover'
<1>1. /\ conn[c] = from /\ conn'[c] = to
      /\ \A d \in Clients \ {c} : conn'[d] = conn[d]
  BY DEF Moves, TypeOK
<1>2. {d \in Clients : conn'[d] = "taken"} = {d \in Clients : conn[d] = "taken"}
  BY <1>1
<1>3. \A i \in DOMAIN backlog : conn'[backlog[i]] = "backlog"
  BY <1>1 DEF Handover, TypeOK
<1> QED BY <1>2, <1>3 DEF Handover

LEMMA HandoverStep == TypeOK /\ Handover /\ [Next]_vars => Handover'
<1> SUFFICES ASSUME TypeOK, Handover, [Next]_vars PROVE Handover'
  OBVIOUS
<1>1. ASSUME NEW c \in Clients, Connect(c) PROVE Handover'
  <2>1. /\ conn[c] = "none" /\ conn'[c] = "backlog"
        /\ \A d \in Clients \ {c} : conn'[d] = conn[d]
        /\ backlog' = Append(backlog, c)
        /\ UNCHANGED <<accepted, listening>>
    BY <1>1 DEF Connect, Moves, TypeOK
  <2>2. /\ DOMAIN backlog = 1..Len(backlog) /\ Len(backlog) \in Nat
        /\ DOMAIN backlog' = 1..(Len(backlog) + 1)
        /\ \A i \in 1..Len(backlog) : backlog'[i] = backlog[i] /\ backlog[i] \in Clients
        /\ backlog'[Len(backlog) + 1] = c
    BY <2>1 DEF TypeOK
  <2>3. \A i \in 1..Len(backlog) : backlog[i] # c
    BY <2>1, <2>2 DEF Handover
  <2>4. {d \in Clients : conn'[d] = "taken"} = {d \in Clients : conn[d] = "taken"}
    BY <2>1
  <2>5. \A i \in DOMAIN backlog' : conn'[backlog'[i]] = "backlog"
    BY <2>1, <2>2, <2>3 DEF Handover
  <2>6. \A i, j \in DOMAIN backlog' : backlog'[i] = backlog'[j] => i = j
    BY <2>2, <2>3 DEF Handover
  <2> QED BY <2>1, <2>4, <2>5, <2>6 DEF Handover
<1>2. ASSUME NEW c \in Clients, ReadFails(c) PROVE Handover'
  BY <1>2, MoveKeepsHandover DEF ReadFails
<1>3. ASSUME NEW c \in Clients, AnswerAtOnce(c) PROVE Handover'
  BY <1>3, MoveKeepsHandover DEF AnswerAtOnce
<1>4. ASSUME NEW c \in Clients, AskClangd(c) PROVE Handover'
  BY <1>4, MoveKeepsHandover DEF AskClangd
<1>5. ASSUME NEW c \in Clients, HandlerThrows(c) PROVE Handover'
  BY <1>5 DEF HandlerThrows, Handover
<1>6. ASSUME NEW c \in Clients, ClangdResponds(c) PROVE Handover'
  BY <1>6, MoveKeepsHandover DEF ClangdResponds
<1>7. ASSUME NEW c \in Clients, ResponseWritten(c) PROVE Handover'
  <2>1. listening' = "completed" <=> listening = "completed"
    BY <1>7 DEF ResponseWritten, AfterCancel
  <2> QED BY <1>7, <2>1, MoveKeepsHandover DEF ResponseWritten
<1>8. ASSUME NEW c \in Clients, WriteFails(c) PROVE Handover'
  BY <1>8, MoveKeepsHandover DEF WriteFails
<1>9. CASE AcceptCompletes
  <2> DEFINE h == Head(backlog)
  <2>1. /\ h \in Clients /\ h = backlog[1] /\ 1 \in DOMAIN backlog
        /\ DOMAIN backlog = 1..Len(backlog) /\ Len(backlog) \in Nat \ {0}
        /\ DOMAIN Tail(backlog) = 1..(Len(backlog) - 1)
        /\ \A i \in 1..(Len(backlog) - 1) :
             Tail(backlog)[i] = backlog[i + 1] /\ i + 1 \in DOMAIN backlog
    BY <1>9, HeadTailProperties DEF AcceptCompletes, TypeOK
  <2>2. /\ listening = "pending" /\ listening' = "completed"
        /\ accepted' = {h} /\ backlog' = Tail(backlog)
        /\ conn' = [conn EXCEPT ![h] = "taken"]
    BY <1>9 DEF AcceptCompletes
  <2>3. /\ conn'[h] = "taken"
        /\ \A d \in Clients \ {h} : conn'[d] = conn[d]
    BY <2>1, <2>2 DEF TypeOK
  <2>4. \A d \in Clients : conn[d] # "taken"
    BY <2>2 DEF Handover
  <2>5. {d \in Clients : conn'[d] = "taken"} = {h}
    BY <2>1, <2>3, <2>4
  <2>6. \A i \in DOMAIN backlog : backlog[i] \in Clients
    BY <2>1 DEF TypeOK
  <2>7. \A i \in DOMAIN backlog' : conn'[backlog'[i]] = "backlog"
    <3> SUFFICES ASSUME NEW i \in 1..(Len(backlog) - 1)
                 PROVE  conn'[backlog[i + 1]] = "backlog"
      BY <2>1, <2>2
    <3>1. i + 1 \in DOMAIN backlog /\ i + 1 # 1
      BY <2>1
    <3>2. backlog[i + 1] # h
      BY <2>1, <3>1 DEF Handover
    <3> QED BY <2>3, <2>6, <3>1, <3>2 DEF Handover
  <2>8. \A i, j \in DOMAIN backlog' : backlog'[i] = backlog'[j] => i = j
    <3> SUFFICES ASSUME NEW i \in 1..(Len(backlog) - 1), NEW j \in 1..(Len(backlog) - 1),
                        backlog[i + 1] = backlog[j + 1]
                 PROVE  i = j
      BY <2>1, <2>2
    <3>1. i + 1 = j + 1
      BY <2>1 DEF Handover
    <3> QED BY <3>1
  <2> QED BY <2>2, <2>5, <2>7, <2>8 DEF Handover
<1>10. CASE SpawnSession
  <2>1. PICK c \in accepted : Moves(c, "taken", "reading")
    BY <1>10 DEF SpawnSession
  <2>2. /\ accepted' = {} /\ listening' = "pending" /\ backlog' = backlog
    BY <1>10 DEF SpawnSession
  <2>3. /\ conn[c] = "taken" /\ conn'[c] = "reading" /\ c \in Clients
        /\ \A d \in Clients \ {c} : conn'[d] = conn[d]
    BY <2>1 DEF Moves, TypeOK
  <2>4. \A d \in Clients : conn'[d] # "taken"
    BY <2>1, <2>3 DEF Handover
  <2>5. \A i \in DOMAIN backlog : conn'[backlog[i]] = "backlog"
    BY <2>3 DEF Handover, TypeOK
  <2> QED BY <2>2, <2>4, <2>5 DEF Handover
<1>11. CASE ListenEnds
  BY <1>11 DEF ListenEnds, Handover
<1>12. CASE ClangdExits
  BY <1>12 DEF ClangdExits, Handover
<1>13. CASE RunReturns
  BY <1>13 DEF RunReturns, Handover
<1>14. CASE UNCHANGED vars
  BY <1>14 DEF vars, Handover
<1> QED BY <1>1, <1>2, <1>3, <1>4, <1>5, <1>6, <1>7, <1>8, <1>9, <1>10, <1>11,
           <1>12, <1>13, <1>14 DEF Next, Write, Listen

LEMMA AlwaysHandover == Spec => []Handover
<1>1. Init => Handover
  BY DEF Init, Handover
<1> QED BY <1>1, HandoverStep, TypeCorrect, PTL DEF Spec
----------------------------------------------------------------------------
(* Every step of the server is a step of the life cycle or changes nothing  *)
(* the life cycle sees.                                                     *)
LEMMA MoveWithin ==
  ASSUME TypeOK, NEW c \in Clients, NEW from, NEW to, Moves(c, from, to),
         from \in {"taken", "reading", "handling", "writing"} <=>
           to \in {"taken", "reading", "handling", "writing"}
  PROVE  Active' = Active
  BY DEF Moves, TypeOK, Active

LEMMA MoveOut ==
  ASSUME TypeOK, NEW c \in Clients, NEW from, Moves(c, from, "closed"),
         from \in {"reading", "writing"}
  PROVE  c \in Active /\ Active' = Active \ {c}
  BY DEF Moves, TypeOK, Active

LEMMA LifecycleStep ==
  TypeOK /\ Handover /\ [Next]_vars =>
    [Lifecycle!LifecycleNext]_<<Phase, Active>>
<1> SUFFICES ASSUME TypeOK, Handover, [Next]_vars
             PROVE  \/ Lifecycle!LifecycleNext
                    \/ Phase' = Phase /\ Active' = Active
  OBVIOUS
<1>a. ASSUME status = "running"
      PROVE  Phase = IF listening \in {"cancelled", "ended"} THEN "draining" ELSE "serving"
  BY <1>a DEF Phase
<1>b. ASSUME status' = "running"
      PROVE  Phase' = IF listening' \in {"cancelled", "ended"} THEN "draining" ELSE "serving"
  BY <1>b DEF Phase
<1>1. ASSUME NEW c \in Clients, Connect(c) PROVE Phase' = Phase /\ Active' = Active
  BY <1>1, MoveWithin DEF Connect, Phase
<1>2. ASSUME NEW c \in Clients, ReadFails(c) PROVE Lifecycle!End(c)
  <2>1. c \in Active /\ Active' = Active \ {c}
    BY <1>2, MoveOut DEF ReadFails
  <2>2. Phase \in {"serving", "draining"} /\ Phase' = Phase
    BY <1>2 DEF ReadFails, Phase, Up
  <2> QED BY <2>1, <2>2 DEF Lifecycle!End
<1>3. ASSUME NEW c \in Clients, AnswerAtOnce(c) PROVE Phase' = Phase /\ Active' = Active
  BY <1>3, MoveWithin DEF AnswerAtOnce, Phase
<1>4. ASSUME NEW c \in Clients, AskClangd(c) PROVE Phase' = Phase /\ Active' = Active
  BY <1>4, MoveWithin DEF AskClangd, Phase
<1>5. ASSUME NEW c \in Clients, HandlerThrows(c) PROVE Lifecycle!Crash
  <2>1. Phase \in {"serving", "draining"} /\ Phase' = "crashed"
    BY <1>5 DEF HandlerThrows, Phase, Up
  <2>2. Active' = Active
    BY <1>5 DEF HandlerThrows, Active
  <2> QED BY <2>1, <2>2 DEF Lifecycle!Crash
<1>6. ASSUME NEW c \in Clients, ClangdResponds(c) PROVE Phase' = Phase /\ Active' = Active
  BY <1>6, MoveWithin DEF ClangdResponds, Phase
<1>7. ASSUME NEW c \in Clients, ResponseWritten(c)
      PROVE  Lifecycle!End(c) \/ Lifecycle!Drain(c)
  <2>1. c \in Active /\ Active' = Active \ {c}
    BY <1>7, MoveOut DEF ResponseWritten
  <2>2. status = "running" /\ status' = "running"
    BY <1>7 DEF ResponseWritten, Up
  <2>3. CASE listening' = listening
    <3>1. Phase \in {"serving", "draining"} /\ Phase' = Phase
      BY <2>2, <2>3, <1>a, <1>b
    <3> QED BY <2>1, <3>1 DEF Lifecycle!End
  <2>4. CASE listening' # listening
    <3>1. listening = "pending" /\ listening' = "cancelled"
      BY <1>7, <2>4 DEF ResponseWritten, AfterCancel
    <3>2. Phase = "serving" /\ Phase' = "draining"
      BY <2>2, <3>1, <1>a, <1>b
    <3> QED BY <2>1, <3>2 DEF Lifecycle!Drain
  <2> QED BY <2>3, <2>4
<1>8. ASSUME NEW c \in Clients, WriteFails(c) PROVE Lifecycle!End(c)
  <2>1. c \in Active /\ Active' = Active \ {c}
    BY <1>8, MoveOut DEF WriteFails
  <2>2. Phase \in {"serving", "draining"} /\ Phase' = Phase
    BY <1>8 DEF WriteFails, Phase, Up
  <2> QED BY <2>1, <2>2 DEF Lifecycle!End
<1>9. ASSUME AcceptCompletes PROVE \E c \in Clients : Lifecycle!Begin(c)
  <2> DEFINE h == Head(backlog)
  <2>1. h \in Clients /\ h = backlog[1] /\ 1 \in DOMAIN backlog
    BY <1>9, HeadTailProperties DEF AcceptCompletes, TypeOK
  <2>2. conn[h] = "backlog"
    BY <2>1 DEF Handover
  <2>3. conn' = [conn EXCEPT ![h] = "taken"]
    BY <1>9 DEF AcceptCompletes
  <2>4. h \notin Active /\ Active' = Active \cup {h}
    BY <2>1, <2>2, <2>3 DEF Active, TypeOK
  <2>5. Phase = "serving" /\ Phase' = "serving"
    BY <1>9, <1>a, <1>b DEF AcceptCompletes, Up
  <2> QED BY <2>1, <2>4, <2>5 DEF Lifecycle!Begin
<1>10. ASSUME SpawnSession PROVE Phase' = Phase /\ Active' = Active
  <2>1. PICK c \in accepted : Moves(c, "taken", "reading")
    BY <1>10 DEF SpawnSession
  <2>2. Active' = Active
    BY <2>1, MoveWithin DEF TypeOK
  <2>3. Phase' = Phase
    BY <1>10, <1>a, <1>b DEF SpawnSession, Up
  <2> QED BY <2>2, <2>3
<1>11. ASSUME ListenEnds PROVE Phase' = Phase /\ Active' = Active
  <2>1. Phase' = Phase
    BY <1>11, <1>a, <1>b DEF ListenEnds, Up
  <2> QED BY <1>11, <2>1 DEF ListenEnds, Active
<1>12. ASSUME ClangdExits PROVE Phase' = Phase /\ Active' = Active
  BY <1>12 DEF ClangdExits, Phase, Active
<1>13. ASSUME RunReturns PROVE Lifecycle!Exit
  <2>1. Phase = "draining" /\ Phase' = "exited"
    BY <1>13, <1>a DEF RunReturns, NoWork, Up, Phase
  <2>2. Active = {} /\ Active' = Active
    BY <1>13 DEF RunReturns, NoWork, Active
  <2> QED BY <2>1, <2>2 DEF Lifecycle!Exit
<1>14. ASSUME UNCHANGED vars PROVE Phase' = Phase /\ Active' = Active
  BY <1>14 DEF vars, Phase, Active
<1> QED BY <1>1, <1>2, <1>3, <1>4, <1>5, <1>6, <1>7, <1>8, <1>9, <1>10, <1>11,
           <1>12, <1>13, <1>14 DEF Next, Write, Listen, Lifecycle!LifecycleNext

(* The server implements its life cycle.                                    *)
THEOREM ImplementsLifecycle == Spec => LifecycleHolds
<1>1. Init => Lifecycle!LifecycleInit
  BY DEF Init, Lifecycle!LifecycleInit, Phase, Active
<1> QED BY <1>1, LifecycleStep, TypeCorrect, AlwaysHandover, PTL
        DEF Spec, LifecycleHolds, Lifecycle!LifecycleSpec
============================================================================
