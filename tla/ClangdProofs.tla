---------------------------- MODULE ClangdProofs ----------------------------
(* Proofs about the clangd completer, for every set of sessions, files,     *)
(* contents, requests and faults.                                           *)
EXTENDS ClangdCompleter, SequenceTheorems, TLAPS

(* What ycmd sends.                                                         *)
Requesting == {Request(method, id) :
                 method \in {"initialize", "textDocument/completion"}, id \in Nat}
Opening == {DidOpen(f, hash) : f \in Files, hash \in Contents}
Changing == {DidChange(f, version, hash) : f \in Files, version \in Nat, hash \in Contents}
Closing == {DidClose(f) : f \in Files}
Messages == Requesting \cup Opening \cup Changing \cup Closing

(* The shapes, and what the sender's stream and the calls have in common.   *)
Typed ==
  /\ TypeOK
  /\ stream \in Seq(Messages) /\ Len(stream) = appended
  /\ \A i \in DOMAIN wire : wire[i] \in 1..appended
  /\ \A s \in Sessions : todo[s] \subseteq FileData(s)
----------------------------------------------------------------------------
(* Sending.                                                                 *)

LEMMA ConcatFacts ==
  ASSUME NEW p \in Seq(Nat), NEW q \in Seq(Nat)
  PROVE  /\ p \o q \in Seq(Nat) /\ Len(p \o q) = Len(p) + Len(q)
         /\ \A i \in 1..(Len(p) + Len(q)) :
              (p \o q)[i] = IF i <= Len(p) THEN p[i] ELSE q[i - Len(p)]
  OBVIOUS

LEMMA SendFacts ==
  ASSUME SendTypeOK, NEW s \in Sessions, SendAtOnce(s, 1)
  PROVE  /\ op[s].n = 0
         /\ appended' = appended + 1 /\ consumed' = consumed
         /\ op'[s].n = appended + 1 - consumed
         /\ \A t \in Sessions : t # s => op'[t] = op[t]
         /\ Len(wire') = Len(wire) + (appended + 1 - consumed)
         /\ \A i \in 1..Len(wire) : wire'[i] = wire[i]
         /\ \A i \in (Len(wire) + 1)..Len(wire') : wire'[i] = consumed + (i - Len(wire))
         /\ overlapped' = (overlapped \/ Outstanding # {})
         /\ SendTypeOK'
<1> DEFINE n == appended + 1 - consumed
           o == [n |-> n, next |-> consumed + 1, left |-> n, stale |-> FALSE]
           c == Cells(o, n)
<1>1. /\ appended \in Nat /\ consumed \in Nat /\ consumed <= appended
      /\ n \in Nat /\ n > 0
      /\ wire \in Seq(Nat) /\ Len(wire) \in Nat
  BY DEF SendTypeOK
<1>2. Send(s, 1, n, FALSE)
  BY DEF SendAtOnce
<1>3. /\ op[s].n = 0 /\ appended' = appended + 1 /\ consumed' = consumed
      /\ queue' = queue
      /\ op' = [v \in Sessions |-> IF v = s THEN Advanced(o, n) ELSE op[v]]
      /\ wire' = wire \o c
  BY <1>1, <1>2 DEF Send, StartWriteSome
<1>4. overlapped' = (overlapped \/ Outstanding # {})
  BY <1>2, Zenon DEF Send
<1>5. n = appended + 1 - consumed
  OBVIOUS
<1> HIDE DEF n
<1>6. c \in Seq(Nat) /\ Len(c) = n /\ \A i \in 1..n : c[i] = consumed + i
  BY <1>1 DEF Cells
<1>7. Advanced(o, n).n = n /\ Advanced(o, n) \in Ops
  BY <1>1 DEF Advanced, Ops
<1> HIDE DEF o, c
<1>8. /\ wire' \in Seq(Nat) /\ Len(wire') = Len(wire) + n
      /\ \A i \in 1..(Len(wire) + n) :
           wire'[i] = IF i <= Len(wire) THEN wire[i] ELSE c[i - Len(wire)]
  BY <1>1, <1>3, <1>6, ConcatFacts
<1>9. \A i \in (Len(wire) + 1)..Len(wire') : wire'[i] = consumed + (i - Len(wire))
  <2> SUFFICES ASSUME NEW i \in (Len(wire) + 1)..Len(wire')
               PROVE  wire'[i] = consumed + (i - Len(wire))
    OBVIOUS
  <2>1. i \in 1..(Len(wire) + n) /\ ~(i <= Len(wire)) /\ i - Len(wire) \in 1..n
    BY <1>1, <1>8
  <2>2. wire'[i] = c[i - Len(wire)]
    BY <1>8, <2>1
  <2>3. c[i - Len(wire)] = consumed + (i - Len(wire))
    BY <1>6, <2>1
  <2> QED BY <2>2, <2>3
<1>10. \A i \in 1..Len(wire) : wire'[i] = wire[i]
  BY <1>1, <1>8
<1>11. op'[s] = Advanced(o, n) /\ \A t \in Sessions : t # s => op'[t] = op[t]
  BY <1>3
<1>12. op' \in [Sessions -> Ops]
  BY <1>3, <1>7 DEF SendTypeOK
<1>13. overlapped' \in BOOLEAN
  BY <1>4, Zenon DEF SendTypeOK
<1>14. SendTypeOK'
  BY <1>1, <1>3, <1>8, <1>12, <1>13 DEF SendTypeOK
<1>15. /\ op'[s].n = appended + 1 - consumed
       /\ Len(wire') = Len(wire) + (appended + 1 - consumed)
  BY <1>5, <1>7, <1>8, <1>11
<1> QED BY <1>3, <1>4, <1>9, <1>10, <1>11, <1>14, <1>15, Zenon

LEMMA CompleteFacts ==
  ASSUME SendTypeOK, NEW s \in Sessions, Complete(s)
  PROVE  /\ op[s].n > 0 /\ op'[s].n = 0
         /\ \A t \in Sessions : t # s => op'[t] = op[t]
         /\ consumed <= consumed'
         /\ appended > 0 => consumed' > 0
         /\ UNCHANGED <<appended, wire, overlapped>>
         /\ SendTypeOK'
<1>1. Idle \in Ops /\ Idle.n = 0
  BY DEF Idle, Ops
<1>2. op[s].n \in Nat /\ op[s].n > 0
  BY DEF SendTypeOK, Complete, Written, Ops
<1>3. op' = [op EXCEPT ![s] = Idle] /\ UNCHANGED <<appended, queue, wire, overlapped>>
  BY DEF Complete
<1>4. op' \in [Sessions -> Ops] /\ op'[s] = Idle
      /\ \A t \in Sessions : t # s => op'[t] = op[t]
  BY <1>1, <1>3 DEF SendTypeOK
<1>5. appended \in Nat /\ consumed \in Nat /\ consumed <= appended
  BY DEF SendTypeOK
<1>6. consumed' = IF consumed + op[s].n > appended THEN appended ELSE consumed + op[s].n
  BY DEF Complete, AfterConsume
<1>7. consumed' \in 0..appended /\ consumed <= consumed' /\ (appended > 0 => consumed' > 0)
  BY <1>2, <1>5, <1>6
<1>8. SendTypeOK'
  BY <1>3, <1>4, <1>7 DEF SendTypeOK
<1> QED BY <1>1, <1>2, <1>3, <1>4, <1>7, <1>8

LEMMA AppendFacts ==
  ASSUME NEW q \in Seq(Messages), NEW m \in Messages
  PROVE  /\ Append(q, m) \in Seq(Messages)
         /\ Len(Append(q, m)) = Len(q) + 1
         /\ \A i \in 1..Len(q) : Append(q, m)[i] = q[i]
         /\ Append(q, m)[Len(q) + 1] = m
  BY AppendProperties

(* A send that reaches clangd: the call is recorded and the sender's state  *)
(* keeps its shape.                                                         *)
LEMMA Spoken ==
  ASSUME Typed, NEW s \in Sessions, NEW m \in Messages,
         SendAtOnce(s, 1), stream' = Append(stream, m)
  PROVE  /\ SendTypeOK'
         /\ stream' \in Seq(Messages) /\ Len(stream') = appended'
         /\ \A i \in DOMAIN wire' : wire'[i] \in 1..appended'
<1>1. SendTypeOK
  BY DEF Typed, TypeOK
<1>2. stream' \in Seq(Messages) /\ Len(stream') = Len(stream) + 1
  BY AppendFacts DEF Typed
<1>3. /\ appended' = appended + 1 /\ consumed' = consumed /\ SendTypeOK'
      /\ Len(wire') = Len(wire) + (appended + 1 - consumed)
      /\ \A i \in 1..Len(wire) : wire'[i] = wire[i]
      /\ \A i \in (Len(wire) + 1)..Len(wire') : wire'[i] = consumed + (i - Len(wire))
  BY <1>1, SendFacts
<1>4. /\ appended \in Nat /\ consumed \in Nat /\ consumed <= appended
      /\ Len(wire) \in Nat /\ DOMAIN wire = 1..Len(wire) /\ DOMAIN wire' = 1..Len(wire')
  BY <1>1, <1>3 DEF SendTypeOK
<1>5. \A i \in 1..Len(wire) : wire[i] \in 1..appended
  BY <1>4 DEF Typed
<1>6. \A i \in DOMAIN wire' : wire'[i] \in 1..appended'
  <2> SUFFICES ASSUME NEW i \in 1..Len(wire') PROVE wire'[i] \in 1..appended'
    BY <1>4
  <2>1. CASE i <= Len(wire)
    BY <2>1, <1>3, <1>4, <1>5
  <2>2. CASE i > Len(wire)
    BY <2>2, <1>3, <1>4
  <2> QED BY <2>1, <2>2, <1>4
<1> QED BY <1>2, <1>3, <1>6 DEF Typed
----------------------------------------------------------------------------
(* Types.                                                                   *)

LEMMA RequestTyped ==
  ASSUME TypeOK, NEW s \in Sessions
  PROVE  /\ FileData(s) \subseteq Files
         /\ \A f \in FileData(s) : req[s].files[f] \in Contents
  BY RequestsAssumption DEF TypeOK, FileData

LEMMA MessagesTyped ==
  /\ \A id \in Nat : /\ Request("initialize", id) \in Messages
                     /\ Request("textDocument/completion", id) \in Messages
  /\ \A f \in Files, hash \in Contents : DidOpen(f, hash) \in Messages
  /\ \A f \in Files, hash \in Contents, version \in Nat :
       DidChange(f, version, hash) \in Messages
  /\ \A f \in Files : DidClose(f) \in Messages
  BY DEF Messages, Requesting, Opening, Changing, Closing

(* The variables of the sender and of the calls as one.                     *)
SendTyped ==
  /\ SendTypeOK
  /\ stream \in Seq(Messages) /\ Len(stream) = appended
  /\ \A i \in DOMAIN wire : wire[i] \in 1..appended

CompleterTyped ==
  /\ engaged \in BOOLEAN /\ initialised \in BOOLEAN
  /\ next_id \in Nat
  /\ pending_requests \subseteq [id : Nat, handler : Sessions]
  /\ Opened \subseteq Files
  /\ \A f \in Opened : opened_files[f] \in [version : Nat, hash : Contents]
  /\ pump \in {"off", "running", "ended"}

SessionsTyped ==
  /\ pc \in [Sessions -> Places]
  /\ req \in [Sessions -> Requests]
  /\ todo \in [Sessions -> SUBSET Files]
  /\ rest \in [Sessions -> SUBSET Files]
  /\ at \in [Sessions -> SUBSET Files]
  /\ \A s \in Sessions : todo[s] \subseteq FileData(s)
  /\ dangling \in [Sessions -> BOOLEAN]

OthersTyped ==
  /\ status \in {"up", "aborted"}
  /\ running \in Sessions \cup {Nobody}
  /\ child \in {"none", "alive", "dead"}

LEMMA TypedParts ==
  Typed <=> SendTyped /\ CompleterTyped /\ SessionsTyped /\ OthersTyped
  BY DEF Typed, TypeOK, SendTyped, CompleterTyped, SessionsTyped, OthersTyped

LEMMA TypedInit == Init => Typed
<1> SUFFICES ASSUME Init PROVE Typed
  OBVIOUS
<1>1. op \in [Sessions -> Ops]
  BY DEF Init, SendInit, Idle, Ops
<1>2. overlapped \in BOOLEAN /\ engaged \in BOOLEAN /\ initialised \in BOOLEAN
  BY Zenon DEF Init, SendInit
<1>3. SendTyped
  BY <1>1, <1>2 DEF Init, SendInit, SendTypeOK, SendTyped
<1>4. CompleterTyped
  BY <1>2 DEF Init, CompleterTyped, Opened
<1>5. dangling \in [Sessions -> BOOLEAN]
  BY Zenon DEF Init
<1>6. req \in [Sessions -> Requests]
  BY WorkloadsAssumption DEF Init
<1>7. SessionsTyped
  BY <1>5, <1>6 DEF Init, SessionsTyped, Places
<1>8. OthersTyped
  BY DEF Init, OthersTyped
<1> QED BY <1>3, <1>4, <1>7, <1>8, TypedParts

LEMMA SendTypedStep ==
  ASSUME Typed, Next
  PROVE  SendTyped'
<1>0. SendTyped /\ TypeOK
  BY TypedParts DEF Typed
<1> DEFINE Same == UNCHANGED <<stream, senderVars>>
<1>1. ASSUME NEW s \in Sessions, NEW m \in Messages, SendTo(s, m)
      PROVE  Same \/ SendTyped'
  <2>1. CASE SendAtOnce(s, 1) /\ stream' = Append(stream, m)
    BY <2>1, Spoken DEF SendTyped
  <2> QED BY <1>1, <2>1 DEF SendTo
<1>2. ASSUME NEW s \in Sessions, RequestArrives(s)
      PROVE  Same \/ SendTyped'
  <2>1. CASE InitStartsClangd(s)
    BY <2>1, <1>0, Spoken, MessagesTyped DEF InitStartsClangd, SendTyped, TypeOK
  <2>2. CASE EventArrives(s) \/ CompletionArrives(s) \/ InitFindsNoClangd(s) \/ InitCannotSpawn(s)
    BY <2>2 DEF EventArrives, CompletionArrives, InitFindsNoClangd, InitCannotSpawn
  <2> QED BY <1>2, <2>1, <2>2 DEF RequestArrives
<1>3. ASSUME NEW s \in Sessions, SessionRuns(s)
      PROVE  Same \/ SendTyped'
  <2>1. CASE AfterInit(s) \/ BeginClosing(s) \/ EventSynced(s)
    BY <2>1 DEF AfterInit, BeginClosing, EventSynced
  <2>2. CASE CompletionSynced(s)
    BY <2>2, <1>0, <1>1, MessagesTyped DEF CompletionSynced, AskClangd, TypeOK
  <2>3. ASSUME NEW f \in Files, VisitFile(s, f)
        PROVE  Same \/ SendTyped'
    <3>1. req[s].files[f] \in Contents
      BY <2>3, RequestTyped DEF VisitFile, Typed
    <3>2. CASE OpenFile(s, f)
      BY <3>1, <3>2, <1>1, MessagesTyped DEF OpenFile
    <3>3. CASE ChangeFile(s, f)
      <4>1. f \in Opened /\ opened_files[f] \in [version : Nat, hash : Contents]
        BY <3>3, <1>0 DEF ChangeFile, TypeOK
      <4>2. opened_files[f].version + 1 \in Nat
        BY <4>1
      <4> QED BY <3>1, <3>3, <4>2, <1>1, MessagesTyped DEF ChangeFile
    <3>4. CASE KeepFile(s, f)
      BY <3>4 DEF KeepFile
    <3> QED BY <2>3, <3>2, <3>3, <3>4 DEF VisitFile
  <2>4. ASSUME NEW f \in Files, CloseFile(s, f)
        PROVE  Same \/ SendTyped'
    BY <2>4, <1>1, MessagesTyped DEF CloseFile
  <2> QED BY <1>3, <2>1, <2>2, <2>3, <2>4 DEF SessionRuns
<1>4. ASSUME NEW s \in Sessions, WriteDone(s)
      PROVE  SendTyped'
  <2>1. Complete(s) /\ stream' = stream
    BY <1>4 DEF WriteDone
  <2>2. UNCHANGED <<appended, wire>> /\ SendTypeOK'
    BY <2>1, <1>0, CompleteFacts DEF SendTyped
  <2> QED BY <1>0, <2>1, <2>2 DEF SendTyped
<1>5. ASSUME MessagePump \/ ClangdReads \/ Answering \/ ClangdDies
      PROVE  Same
  BY <1>5 DEF MessagePump, PumpAnswers, PumpIgnores, PumpEnds, ClangdReads, Answering,
              ClangdAnswers, ClangdDies, ycmdVars
<1>6. ASSUME NEW s \in Sessions, WriteFails(s)
      PROVE  Same
  BY <1>6 DEF WriteFails
<1>7. Same => SendTyped'
  BY <1>0 DEF SendTyped, SendTypeOK, senderVars, Ops
<1> QED BY <1>2, <1>3, <1>4, <1>5, <1>6, <1>7 DEF Next

LEMMA OthersTypedStep ==
  ASSUME Typed, Next
  PROVE  OthersTyped'
<1>0. OthersTyped
  BY TypedParts
<1> USE <1>0 DEF OthersTyped, Leave, Continue, HandleEventNotification
<1>1. ASSUME NEW s \in Sessions, RequestArrives(s) PROVE OthersTyped'
  BY <1>1 DEF RequestArrives, EventArrives, CompletionArrives, InitStartsClangd,
              InitFindsNoClangd, InitCannotSpawn, FirstEvent, clangdVars, Free
<1>2. ASSUME NEW s \in Sessions, SessionRuns(s) PROVE OthersTyped'
  <2>1. CASE AfterInit(s) \/ BeginClosing(s) \/ EventSynced(s) \/ CompletionSynced(s)
    BY <2>1 DEF AfterInit, BeginClosing, EventSynced, CompletionSynced, AskClangd,
                SendTo, clangdVars
  <2>2. ASSUME NEW f \in Files, VisitFile(s, f) PROVE OthersTyped'
    BY <2>2 DEF VisitFile, OpenFile, ChangeFile, KeepFile, SendTo, clangdVars
  <2>3. ASSUME NEW f \in Files, CloseFile(s, f) PROVE OthersTyped'
    BY <2>3 DEF CloseFile, SendTo, clangdVars
  <2> QED BY <1>2, <2>1, <2>2, <2>3 DEF SessionRuns
<1>3. ASSUME NEW s \in Sessions, WriteDone(s) PROVE OthersTyped'
  BY <1>3 DEF WriteDone, clangdVars
<1>4. ASSUME MessagePump PROVE OthersTyped'
  <2>1. \A p \in pending_requests : p.handler \in Sessions
    BY TypedParts DEF CompleterTyped
  <2>2. ASSUME NEW p \in pending_requests, PumpAnswers(p) PROVE OthersTyped'
    BY <2>1, <2>2 DEF PumpAnswers, PumpReads, Resume
  <2>3. CASE PumpIgnores \/ PumpEnds
    BY <2>3 DEF PumpIgnores, PumpReads, PumpEnds, clangdVars
  <2> QED BY <1>4, <2>2, <2>3 DEF MessagePump
<1>5. ASSUME ClangdReads \/ Answering \/ ClangdDies PROVE OthersTyped'
  BY <1>5 DEF ClangdReads, Answering, ClangdAnswers, ClangdDies, ycmdVars
<1>6. ASSUME NEW s \in Sessions, WriteFails(s) PROVE OthersTyped'
  BY <1>6 DEF WriteFails, clangdVars
<1> QED BY <1>1, <1>2, <1>3, <1>4, <1>5, <1>6 DEF Next

LEMMA CompleterTypedStep ==
  ASSUME Typed, Next
  PROVE  CompleterTyped'
<1>0. CompleterTyped
  BY TypedParts
<1> DEFINE Same == UNCHANGED <<engaged, initialised, next_id, pending_requests,
                               opened_files, pump>>
<1>a. Same => CompleterTyped'
  BY <1>0 DEF CompleterTyped, Opened
<1>b. \A s \in Sessions : [id |-> next_id, handler |-> s] \in [id : Nat, handler : Sessions]
  BY <1>0 DEF CompleterTyped
<1>c. next_id + 1 \in Nat
  BY <1>0 DEF CompleterTyped
<1>1. ASSUME NEW s \in Sessions, RequestArrives(s) PROVE CompleterTyped'
  <2>1. CASE EventArrives(s) \/ CompletionArrives(s)
    BY <2>1, <1>a DEF EventArrives, CompletionArrives
  <2>2. CASE InitStartsClangd(s)
    <3>1. /\ engaged' \in BOOLEAN /\ UNCHANGED <<initialised, opened_files>>
          /\ next_id' = next_id + 1 /\ pump' = "running"
          /\ pending_requests' = pending_requests \cup {[id |-> next_id, handler |-> s]}
      BY <2>2, Zenon DEF InitStartsClangd, FirstEvent
    <3> QED BY <3>1, <1>0, <1>b, <1>c DEF CompleterTyped, Opened
  <2>3. CASE InitFindsNoClangd(s) \/ InitCannotSpawn(s)
    <3>1. /\ engaged' \in BOOLEAN
          /\ UNCHANGED <<initialised, next_id, pending_requests, opened_files, pump>>
      BY <2>3, Zenon DEF InitFindsNoClangd, InitCannotSpawn, FirstEvent
    <3> QED BY <3>1, <1>0 DEF CompleterTyped, Opened
  <2> QED BY <1>1, <2>1, <2>2, <2>3 DEF RequestArrives
<1>2. ASSUME NEW s \in Sessions, SessionRuns(s) PROVE CompleterTyped'
  <2>1. CASE AfterInit(s) \/ BeginClosing(s) \/ EventSynced(s)
    BY <2>1, <1>a DEF AfterInit, BeginClosing, EventSynced
  <2>2. CASE CompletionSynced(s)
    BY <2>2, <1>0, <1>b, <1>c DEF CompletionSynced, AskClangd, CompleterTyped, Opened
  <2>3. ASSUME NEW f \in Files, VisitFile(s, f) PROVE CompleterTyped'
    <3>1. UNCHANGED <<engaged, initialised, next_id, pending_requests, pump>>
      BY <2>3 DEF VisitFile
    <3>2. req[s].files[f] \in Contents
      BY <2>3, RequestTyped DEF VisitFile, Typed
    <3>3. /\ Opened' \subseteq Files
          /\ \A g \in Opened' : opened_files'[g] \in [version : Nat, hash : Contents]
      <4>1. CASE OpenFile(s, f)
        BY <4>1, <3>2, <1>0 DEF OpenFile, CompleterTyped, Opened
      <4>2. CASE ChangeFile(s, f)
        <5>1. f \in Opened /\ opened_files[f] \in [version : Nat, hash : Contents]
          BY <4>2, <1>0 DEF ChangeFile, CompleterTyped
        <5>2. opened_files[f].version + 1 \in Nat
          BY <5>1
        <5> QED BY <4>2, <5>2, <3>2, <1>0 DEF ChangeFile, CompleterTyped, Opened
      <4>3. CASE KeepFile(s, f)
        BY <4>3, <1>0 DEF KeepFile, CompleterTyped, Opened
      <4> QED BY <2>3, <4>1, <4>2, <4>3 DEF VisitFile
    <3> QED BY <3>1, <3>3, <1>0 DEF CompleterTyped
  <2>4. ASSUME NEW f \in Files, CloseFile(s, f) PROVE CompleterTyped'
    BY <2>4, <1>a DEF CloseFile
  <2> QED BY <1>2, <2>1, <2>2, <2>3, <2>4 DEF SessionRuns
<1>3. ASSUME NEW s \in Sessions, WriteDone(s) PROVE CompleterTyped'
  <2>1. CASE opened_files' = opened_files
    BY <1>3, <2>1, <1>a DEF WriteDone
  <2>2. CASE EraseClosed(s)
    BY <1>3, <2>2, <1>0 DEF WriteDone, EraseClosed, CompleterTyped, Opened
  <2> QED BY <1>3, <2>1, <2>2 DEF WriteDone
<1>4. ASSUME MessagePump PROVE CompleterTyped'
  <2>1. ASSUME NEW p \in pending_requests, PumpAnswers(p) PROVE CompleterTyped'
    <3>1. initialised' \in BOOLEAN
      BY <2>1, <1>0, Zenon DEF PumpAnswers, Resume, CompleterTyped
    <3>2. /\ UNCHANGED <<engaged, next_id, opened_files, pump>>
          /\ pending_requests' \subseteq pending_requests
      BY <2>1 DEF PumpAnswers, EntryErased
    <3> QED BY <3>1, <3>2, <1>0 DEF CompleterTyped, Opened
  <2>2. CASE PumpIgnores
    BY <2>2, <1>a DEF PumpIgnores
  <2>3. CASE PumpEnds
    BY <2>3, <1>0 DEF PumpEnds, CompleterTyped, Opened
  <2> QED BY <1>4, <2>1, <2>2, <2>3 DEF MessagePump
<1>5. ASSUME ClangdReads \/ Answering \/ ClangdDies PROVE CompleterTyped'
  BY <1>5, <1>a DEF ClangdReads, Answering, ClangdAnswers, ClangdDies, ycmdVars
<1>6. ASSUME NEW s \in Sessions, WriteFails(s) PROVE CompleterTyped'
  BY <1>6, <1>a DEF WriteFails
<1> QED BY <1>1, <1>2, <1>3, <1>4, <1>5, <1>6 DEF Next

LEMMA SessionsTypedStep ==
  ASSUME Typed, Next
  PROVE  SessionsTyped'
<1>0. SessionsTyped
  BY TypedParts
<1> DEFINE Goes == \E t \in Sessions, x \in Places : Goto(t, x)
           Rest == UNCHANGED <<todo, rest, at, dangling>>
           Sets == /\ todo' \in [Sessions -> SUBSET Files]
                   /\ rest' \in [Sessions -> SUBSET Files]
                   /\ at' \in [Sessions -> SUBSET Files]
                   /\ dangling' \in [Sessions -> BOOLEAN]
                   /\ \A s \in Sessions : todo'[s] \subseteq FileData(s)
<1>a. Rest => Sets
  BY <1>0 DEF SessionsTyped
<1>b. pc' = pc \/ Goes => pc' \in [Sessions -> Places]
  BY <1>0 DEF SessionsTyped, Goto
<1>c. (pc' = pc \/ Goes) /\ Sets /\ req' = req => SessionsTyped'
  <2> HIDE DEF Goes
  <2> QED BY <1>0, <1>b DEF SessionsTyped, FileData
<1>d. \A s \in Sessions : FileData(s) \in SUBSET Files
  BY RequestTyped DEF Typed
<1>e. \A s \in Sessions : todo' = [todo EXCEPT ![s] = FileData(s)] =>
         /\ todo' \in [Sessions -> SUBSET Files]
         /\ \A t \in Sessions : todo'[t] \subseteq FileData(t)
  BY <1>0, <1>d DEF SessionsTyped
<1> USE DEF Leave, Continue
<1>1. ASSUME NEW s \in Sessions, RequestArrives(s) PROVE SessionsTyped'
  <2>1. pc' = pc \/ Goes
    BY <1>1 DEF RequestArrives, EventArrives, CompletionArrives, InitStartsClangd,
                InitFindsNoClangd, InitCannotSpawn, HandleEventNotification, sessionVars, Places
  <2>2. /\ UNCHANGED <<req, rest, at, dangling>>
        /\ todo' = todo \/ todo' = [todo EXCEPT ![s] = FileData(s)]
    BY <1>1 DEF RequestArrives, EventArrives, CompletionArrives, InitStartsClangd,
                InitFindsNoClangd, InitCannotSpawn, HandleEventNotification, sessionVars
  <2>3. Sets
    BY <2>2, <1>0, <1>a, <1>e DEF SessionsTyped
  <2> QED BY <2>1, <2>2, <2>3, <1>c
<1>2. ASSUME NEW s \in Sessions, SessionRuns(s) PROVE SessionsTyped'
  <2>1. CASE AfterInit(s)
    <3>1. pc' = pc \/ Goes
      BY <2>1 DEF AfterInit, HandleEventNotification, Places
    <3>2. /\ UNCHANGED <<req, rest, at, dangling>>
          /\ todo' = todo \/ todo' = [todo EXCEPT ![s] = FileData(s)]
      BY <2>1 DEF AfterInit, HandleEventNotification
    <3>3. Sets
      BY <3>2, <1>0, <1>a, <1>e DEF SessionsTyped
    <3> QED BY <3>1, <3>2, <3>3, <1>c
  <2>2. CASE BeginClosing(s)
    <3>1. Goes /\ UNCHANGED <<req, todo, at, dangling>>
      BY <2>2 DEF BeginClosing, Places
    <3>2. rest' \in [Sessions -> SUBSET Files]
      BY <2>2, <1>0 DEF BeginClosing, SessionsTyped, Typed, TypeOK
    <3>3. Sets
      BY <3>1, <3>2, <1>0 DEF SessionsTyped
    <3> QED BY <3>1, <3>3, <1>c
  <2>3. CASE EventSynced(s) \/ CompletionSynced(s)
    <3>1. Goes /\ Rest /\ req' = req
      BY <2>3 DEF EventSynced, CompletionSynced, Places
    <3> QED BY <3>1, <1>a, <1>c
  <2>4. ASSUME NEW f \in Files, VisitFile(s, f) PROVE SessionsTyped'
    <3>1. pc' = pc \/ Goes
      BY <2>4 DEF VisitFile, OpenFile, ChangeFile, KeepFile, Places
    <3>2. /\ UNCHANGED <<req, at, dangling>>
          /\ todo' = [todo EXCEPT ![s] = @ \ {f}]
      BY <2>4 DEF VisitFile
    <3>3. rest' \in [Sessions -> SUBSET Files]
      BY <2>4, <1>0 DEF VisitFile, OpenFile, ChangeFile, KeepFile, IteratorsAfterEmplace,
                        SessionsTyped
    <3>4. Sets
      BY <3>2, <3>3, <1>0 DEF SessionsTyped
    <3> QED BY <3>1, <3>2, <3>4, <1>c
  <2>5. ASSUME NEW f \in Files, CloseFile(s, f) PROVE SessionsTyped'
    <3>1. Goes /\ UNCHANGED <<req, todo, dangling>>
      BY <2>5 DEF CloseFile, Places
    <3>2. at' = [at EXCEPT ![s] = {f}] /\ rest' = [rest EXCEPT ![s] = @ \ {f}]
      BY <2>5 DEF CloseFile
    <3>3. Sets
      BY <3>1, <3>2, <1>0 DEF SessionsTyped
    <3> QED BY <3>1, <3>3, <1>c
  <2> QED BY <1>2, <2>1, <2>2, <2>3, <2>4, <2>5 DEF SessionRuns
<1>3. ASSUME NEW s \in Sessions, WriteDone(s) PROVE SessionsTyped'
  <2>1. pc' = pc \/ Goes
    BY <1>3 DEF WriteDone, Places
  <2>2. UNCHANGED <<req, todo>>
    BY <1>3 DEF WriteDone
  <2>3. CASE EraseClosed(s)
    <3>1. rest' \in [Sessions -> SUBSET Files] /\ at' \in [Sessions -> SUBSET Files]
      BY <2>3, <1>0 DEF EraseClosed, SessionsTyped
    <3>2. dangling' \in [Sessions -> BOOLEAN]
      BY <2>3, <1>0, Zenon DEF EraseClosed, SessionsTyped
    <3>3. Sets
      BY <2>2, <3>1, <3>2, <1>0 DEF SessionsTyped
    <3> QED BY <2>1, <2>2, <3>3, <1>c
  <2>4. CASE UNCHANGED <<rest, at, dangling>>
    BY <2>1, <2>2, <2>4, <1>a, <1>c
  <2> QED BY <1>3, <2>3, <2>4 DEF WriteDone
<1>4. ASSUME MessagePump PROVE SessionsTyped'
  <2>1. \A p \in pending_requests : p.handler \in Sessions
    BY TypedParts DEF CompleterTyped
  <2>2. ASSUME NEW p \in pending_requests, PumpAnswers(p) PROVE SessionsTyped'
    <3>1. pc' = pc \/ Goes
      BY <2>1, <2>2 DEF PumpAnswers, Resume, Places
    <3>2. Rest /\ req' = req
      BY <2>2 DEF PumpAnswers
    <3> QED BY <3>1, <3>2, <1>a, <1>c
  <2>3. CASE PumpIgnores \/ PumpEnds
    <3>1. pc' = pc /\ Rest /\ req' = req
      BY <2>3 DEF PumpIgnores, PumpEnds, sessionVars
    <3> QED BY <3>1, <1>a, <1>c
  <2> QED BY <1>4, <2>2, <2>3 DEF MessagePump
<1>5. ASSUME ClangdReads \/ Answering \/ ClangdDies PROVE SessionsTyped'
  <2>1. pc' = pc /\ Rest /\ req' = req
    BY <1>5 DEF ClangdReads, Answering, ClangdAnswers, ClangdDies, ycmdVars, sessionVars
  <2> QED BY <2>1, <1>a, <1>c
<1>6. ASSUME NEW s \in Sessions, WriteFails(s) PROVE SessionsTyped'
  <2>1. pc' = pc /\ Rest /\ req' = req
    BY <1>6 DEF WriteFails, sessionVars
  <2> QED BY <2>1, <1>a, <1>c
<1> QED BY <1>1, <1>2, <1>3, <1>4, <1>5, <1>6 DEF Next

LEMMA TypedStep == Typed /\ [Next]_vars => Typed'
<1>1. ASSUME Typed, Next PROVE Typed'
  <2>1. SendTyped' /\ CompleterTyped' /\ SessionsTyped' /\ OthersTyped'
    BY <1>1, SendTypedStep, CompleterTypedStep, SessionsTypedStep, OthersTypedStep
  <2> QED BY <2>1 DEF Typed, TypeOK, SendTyped, CompleterTyped, SessionsTyped, OthersTyped
<1>2. ASSUME Typed, UNCHANGED vars PROVE Typed'
  <2>1. SendTyped /\ CompleterTyped /\ SessionsTyped /\ OthersTyped
    BY <1>2, TypedParts
  <2>2. SendTyped'
    BY <1>2, <2>1 DEF vars, senderVars, SendTyped, SendTypeOK, Ops
  <2>3. CompleterTyped'
    BY <1>2, <2>1 DEF vars, CompleterTyped, Opened
  <2>4. SessionsTyped'
    BY <1>2, <2>1 DEF vars, sessionVars, SessionsTyped, FileData
  <2>5. OthersTyped'
    BY <1>2, <2>1 DEF vars, clangdVars, OthersTyped
  <2> QED BY <2>2, <2>3, <2>4, <2>5
          DEF Typed, TypeOK, SendTyped, CompleterTyped, SessionsTyped, OthersTyped
<1> QED BY <1>1, <1>2
----------------------------------------------------------------------------
(* Requests and their waiters.                                              *)

(* A step that neither asks nor answers: the session that moves waited for  *)
(* no response and does not start to.                                       *)
LEMMA PendingKept ==
  ASSUME Typed, PendingAwaited, status = "up",
         UNCHANGED <<next_id, pending_requests>>,
         \/ pc' = pc
         \/ \E s \in Sessions, x \in Places \ {"awaitInit", "awaitCompletion"} :
              ~Awaiting(s) /\ Goto(s, x)
  PROVE  PendingAwaited'
<1>1. \A s \in Sessions : Awaiting(s)' <=> Awaiting(s)
  BY DEF Awaiting, Goto, Typed, TypeOK
<1>2. \A p \in pending_requests : p.handler \in Sessions
  BY DEF Typed, TypeOK
<1> QED BY <1>1, <1>2 DEF PendingAwaited

LEMMA PendingAdded ==
  ASSUME Typed, PendingAwaited, status = "up", NEW s \in Sessions, ~Awaiting(s),
         next_id' = next_id + 1,
         pending_requests' = pending_requests \cup {[id |-> next_id, handler |-> s]},
         Goto(s, "awaitInit") \/ Goto(s, "awaitCompletion")
  PROVE  PendingAwaited'
<1> DEFINE new == [id |-> next_id, handler |-> s]
<1>1. new.id = next_id /\ new.handler = s
  OBVIOUS
<1> HIDE DEF new
<1>2. \A t \in Sessions : Awaiting(t)' <=> (t = s \/ Awaiting(t))
  BY DEF Awaiting, Goto, Typed, TypeOK
<1>3. next_id \in Nat /\ \A p \in pending_requests :
        /\ p.handler \in Sessions /\ p.id \in Nat
        /\ p.handler # s /\ p.id < next_id
  BY DEF Typed, TypeOK, PendingAwaited
<1>4. pending_requests' = pending_requests \cup {new}
  BY DEF new
<1>5. \A p \in pending_requests' : Awaiting(p.handler)' /\ p.id < next_id'
  BY <1>1, <1>2, <1>3, <1>4 DEF PendingAwaited
<1>6. \A p, q \in pending_requests' : p.id = q.id \/ p.handler = q.handler => p = q
  BY <1>1, <1>3, <1>4 DEF PendingAwaited
<1>7. \A t \in Sessions : Awaiting(t)' => \E p \in pending_requests' : p.handler = t
  BY <1>1, <1>2, <1>4 DEF PendingAwaited
<1> QED BY <1>5, <1>6, <1>7 DEF PendingAwaited

LEMMA PendingRemoved ==
  ASSUME Typed, PendingAwaited, status = "up", NEW p \in pending_requests,
         next_id' = next_id, pending_requests' = pending_requests \ {p},
         Goto(p.handler, "afterInit") \/ Goto(p.handler, "done")
  PROVE  PendingAwaited'
<1>1. p.handler \in Sessions
  BY DEF Typed, TypeOK
<1>2. \A t \in Sessions : Awaiting(t)' <=> (t # p.handler /\ Awaiting(t))
  BY <1>1 DEF Awaiting, Goto, Typed, TypeOK
<1>3. \A q \in pending_requests : q.handler \in Sessions /\ (q.handler = p.handler => q = p)
  BY DEF Typed, TypeOK, PendingAwaited
<1> QED BY <1>2, <1>3 DEF PendingAwaited

LEMMA PendingStep ==
  ASSUME Typed, PendingAwaited, Next
  PROVE  PendingAwaited'
<1>0. status' # "up" => PendingAwaited'
  BY DEF PendingAwaited
<1> DEFINE Moves(s) == \E x \in Places \ {"awaitInit", "awaitCompletion"} :
                          ~Awaiting(s) /\ Goto(s, x)
           Same == UNCHANGED <<next_id, pending_requests>>
<1> USE DEF Leave, Continue
<1>1. ASSUME NEW s \in Sessions, RequestArrives(s) PROVE PendingAwaited'
  <2>1. status = "up" /\ pc[s] = "idle"
    BY <1>1 DEF RequestArrives, EventArrives, CompletionArrives, InitStartsClangd,
                InitFindsNoClangd, InitCannotSpawn, FirstEvent, Free
  <2>2. CASE EventArrives(s) \/ CompletionArrives(s) \/ InitFindsNoClangd(s)
    <3>1. Moves(s) /\ Same
      BY <2>1, <2>2 DEF EventArrives, CompletionArrives, InitFindsNoClangd,
                        HandleEventNotification, Awaiting, Places
    <3> QED BY <2>1, <3>1, PendingKept
  <2>3. CASE InitStartsClangd(s)
    BY <2>1, <2>3, PendingAdded DEF InitStartsClangd, Awaiting
  <2>4. CASE InitCannotSpawn(s)
    BY <2>4, <1>0 DEF InitCannotSpawn
  <2> QED BY <1>1, <2>2, <2>3, <2>4 DEF RequestArrives
<1>2. ASSUME NEW s \in Sessions, SessionRuns(s) PROVE PendingAwaited'
  <2>1. status = "up"
    BY <1>2 DEF SessionRuns, AfterInit, VisitFile, CloseFile, BeginClosing, EventSynced,
                CompletionSynced, Runs
  <2>2. CASE AfterInit(s) \/ BeginClosing(s) \/ EventSynced(s)
    <3>1. Moves(s) /\ Same
      BY <2>2 DEF AfterInit, BeginClosing, EventSynced, HandleEventNotification, Runs,
                  Awaiting, Places
    <3> QED BY <2>1, <3>1, PendingKept
  <2>3. CASE CompletionSynced(s)
    BY <2>1, <2>3, PendingAdded DEF CompletionSynced, AskClangd, Runs, Awaiting
  <2>4. ASSUME NEW f \in Files, VisitFile(s, f) PROVE PendingAwaited'
    <3>1. (pc' = pc \/ Moves(s)) /\ Same
      BY <2>4 DEF VisitFile, OpenFile, ChangeFile, KeepFile, Runs, Awaiting, Places
    <3> QED BY <2>1, <3>1, PendingKept
  <2>5. ASSUME NEW f \in Files, CloseFile(s, f) PROVE PendingAwaited'
    <3>1. Moves(s) /\ Same
      BY <2>5 DEF CloseFile, Runs, Awaiting, Places
    <3> QED BY <2>1, <3>1, PendingKept
  <2> QED BY <1>2, <2>2, <2>3, <2>4, <2>5 DEF SessionRuns
<1>3. ASSUME NEW s \in Sessions, WriteDone(s) PROVE PendingAwaited'
  <2>1. status = "up" /\ (pc' = pc \/ Moves(s)) /\ Same
    BY <1>3 DEF WriteDone, Free, Awaiting, Places
  <2> QED BY <2>1, PendingKept
<1>4. ASSUME MessagePump PROVE PendingAwaited'
  <2>1. ASSUME NEW p \in pending_requests, PumpAnswers(p) PROVE PendingAwaited'
    <3>1. /\ status = "up"
          /\ next_id' = next_id /\ pending_requests' = pending_requests \ {p}
      BY <2>1 DEF PumpAnswers, PumpReads, Free, EntryErased
    <3>2. CASE Goto(p.handler, "afterInit") \/ Goto(p.handler, "done")
      BY <3>1, <3>2, PendingRemoved
    <3>3. CASE status' = "aborted"
      BY <3>3, <1>0
    <3> QED BY <2>1, <3>2, <3>3 DEF PumpAnswers, Resume
  <2>2. CASE PumpIgnores \/ PumpEnds
    <3>1. status = "up" /\ pc' = pc /\ Same
      BY <2>2 DEF PumpIgnores, PumpEnds, PumpReads, Free, sessionVars
    <3> QED BY <3>1, PendingKept
  <2> QED BY <1>4, <2>1, <2>2 DEF MessagePump
<1>5. ASSUME ClangdReads \/ Answering \/ ClangdDies PROVE PendingAwaited'
  <2>1. status = "up" /\ pc' = pc /\ Same
    BY <1>5 DEF ClangdReads, Answering, ClangdAnswers, ClangdDies, Free, ycmdVars,
                sessionVars
  <2> QED BY <2>1, PendingKept
<1>6. ASSUME NEW s \in Sessions, WriteFails(s) PROVE PendingAwaited'
  BY <1>6, <1>0 DEF WriteFails
<1> QED BY <1>1, <1>2, <1>3, <1>4, <1>5, <1>6 DEF Next
----------------------------------------------------------------------------
(* The handshake.                                                           *)

(* The initialize request is the first message, and the only one on the     *)
(* pipe until its response has come.                                        *)
InitializeFirst ==
  /\ \A i \in DOMAIN stream : stream[i].method = "initialize" <=> i = 1
  /\ \A i \in DOMAIN wire : wire[i] = 1 <=> i = 1
  /\ Len(wire) > 1 => initialised

(* What is sent later is not behind the initialize request in the buffer,   *)
(* because its write was complete before its response was looked at.        *)
Readiness ==
  /\ ~engaged => appended = 0 /\ consumed = 0 /\ wire = <<>>
  /\ initialised => engaged /\ consumed >= 1 /\ Len(wire) >= 1
  /\ \A s \in Sessions :
       pc[s] \in {"files", "sendFile", "close", "sendClose", "awaitCompletion"} => initialised
  /\ \A s \in Sessions :
       pc[s] = "awaitInit" =>
         /\ engaged /\ appended >= 1 /\ Len(wire) >= 1
         /\ op[s].n = 0 => consumed >= 1

LEMMA HandshakeHolds ==
  ASSUME Typed, InitializeFirst
  PROVE  HandshakeFirst
<1>1. DOMAIN wire = 1..Len(wire) /\ Len(wire) \in Nat /\ DOMAIN stream = 1..appended
      /\ appended \in Nat
  BY DEF Typed, TypeOK, SendTypeOK
<1>2. \A i \in DOMAIN wire : wire[i] \in DOMAIN stream
  BY <1>1 DEF Typed
<1>3. Len(wire) > 0 => 1 \in DOMAIN wire /\ wire[1] = 1
  BY <1>1 DEF InitializeFirst
<1> QED BY <1>2, <1>3 DEF InitializeFirst, HandshakeFirst

LEMMA FirstSaid ==
  ASSUME Typed, NEW s \in Sessions, NEW id \in Nat,
         appended = 0, consumed = 0, wire = <<>>,
         SendAtOnce(s, 1), stream' = Append(stream, Request("initialize", id))
  PROVE  /\ InitializeFirst'
         /\ appended' = 1 /\ Len(wire') = 1 /\ op'[s].n = 1
<1>1. /\ appended' = 1 /\ op'[s].n = 1 /\ Len(wire') = 1
      /\ \A i \in 1..1 : wire'[i] = i
  <2>1. Len(wire) = 0
    OBVIOUS
  <2> QED BY <2>1, SendFacts DEF Typed, TypeOK
<1>2. stream' \in Seq(Messages) /\ Len(stream') = 1 /\ stream'[1] = Request("initialize", id)
  BY AppendFacts, MessagesTyped DEF Typed
<1>3. stream'[1].method = "initialize"
  BY <1>2 DEF Request
<1>4. wire' \in Seq(Nat)
  BY SendFacts DEF Typed, TypeOK, SendTypeOK
<1>5. DOMAIN wire' = 1..1 /\ DOMAIN stream' = 1..1
  BY <1>1, <1>2, <1>4
<1> QED BY <1>1, <1>3, <1>5 DEF InitializeFirst

LEMMA LaterSaid ==
  ASSUME Typed, InitializeFirst, NEW s \in Sessions, NEW m \in Messages,
         initialised, initialised', consumed >= 1, Len(wire) >= 1,
         SendAtOnce(s, 1), stream' = Append(stream, m), m.method # "initialize"
  PROVE  InitializeFirst' /\ Len(wire') >= 1
<1>1. /\ appended \in Nat /\ consumed \in Nat /\ consumed <= appended /\ Len(wire) \in Nat
      /\ DOMAIN wire = 1..Len(wire) /\ DOMAIN stream = 1..appended
  BY DEF Typed, TypeOK, SendTypeOK
<1>2. /\ SendTypeOK' /\ appended' = appended + 1
      /\ Len(wire') = Len(wire) + (appended + 1 - consumed)
      /\ \A i \in 1..Len(wire) : wire'[i] = wire[i]
      /\ \A i \in (Len(wire) + 1)..Len(wire') : wire'[i] = consumed + (i - Len(wire))
  BY SendFacts DEF Typed, TypeOK
<1>3. /\ stream' \in Seq(Messages) /\ Len(stream') = appended + 1
      /\ \A i \in 1..appended : stream'[i] = stream[i]
      /\ stream'[appended + 1] = m
  BY AppendFacts DEF Typed
<1>4. DOMAIN wire' = 1..Len(wire') /\ DOMAIN stream' = 1..(appended + 1)
      /\ Len(wire') \in Nat
  BY <1>2, <1>3 DEF SendTypeOK
<1>5. \A i \in DOMAIN wire' : wire'[i] = 1 <=> i = 1
  <2> SUFFICES ASSUME NEW i \in 1..Len(wire') PROVE wire'[i] = 1 <=> i = 1
    BY <1>4
  <2>1. CASE i <= Len(wire)
    BY <2>1, <1>1, <1>2 DEF InitializeFirst
  <2>2. CASE i > Len(wire)
    BY <2>2, <1>1, <1>2
  <2> QED BY <2>1, <2>2, <1>1
<1>6. \A i \in DOMAIN stream' : stream'[i].method = "initialize" <=> i = 1
  <2> SUFFICES ASSUME NEW i \in 1..(appended + 1)
               PROVE  stream'[i].method = "initialize" <=> i = 1
    BY <1>4
  <2>1. CASE i \in 1..appended
    BY <2>1, <1>1, <1>3 DEF InitializeFirst
  <2>2. CASE i = appended + 1
    BY <2>2, <1>1, <1>3
  <2> QED BY <2>1, <2>2, <1>1
<1>7. Len(wire') >= 1
  BY <1>1, <1>2
<1> QED BY <1>5, <1>6, <1>7 DEF InitializeFirst

(* Steps that leave the sender alone                                        *)
LEMMA ReadinessKept ==
  ASSUME Readiness, UNCHANGED <<appended, consumed, wire, op, engaged, initialised>>,
         \A t \in Sessions : \/ pc'[t] = pc[t]
                             \/ pc'[t] \in {"idle", "afterInit", "done"}
                             \/ initialised /\ pc'[t] # "awaitInit"
  PROVE  Readiness'
<1>1. \A t \in Sessions :
        pc'[t] \in {"files", "sendFile", "close", "sendClose", "awaitCompletion"} => initialised'
  BY DEF Readiness
<1>2. \A t \in Sessions : pc'[t] = "awaitInit" => pc[t] = "awaitInit"
  OBVIOUS
<1> QED BY <1>1, <1>2 DEF Readiness

LEMMA ReadySays ==
  ASSUME Typed, InitializeFirst, Readiness, initialised,
         NEW s \in Sessions, NEW m \in Messages, NEW x \in Places \ {"awaitInit"},
         SendAtOnce(s, 1), stream' = Append(stream, m), m.method # "initialize",
         UNCHANGED <<engaged, initialised>>, Goto(s, x)
  PROVE  InitializeFirst' /\ Readiness'
<1>1. engaged /\ consumed >= 1 /\ Len(wire) >= 1
  BY DEF Readiness
<1>2. InitializeFirst' /\ Len(wire') >= 1
  BY <1>1, LaterSaid
<1>3. /\ consumed' = consumed /\ appended' = appended + 1
      /\ appended \in Nat /\ consumed \in Nat /\ consumed <= appended
  BY SendFacts DEF Typed, TypeOK, SendTypeOK
<1>4. \A t \in Sessions : pc'[t] = "awaitInit" => t # s
  BY DEF Goto, Typed, TypeOK
<1>5. Readiness'
  BY <1>1, <1>2, <1>3, <1>4 DEF Readiness
<1> QED BY <1>2, <1>5

LEMMA WriteEnds ==
  ASSUME Typed, InitializeFirst, Readiness, NEW s \in Sessions, Complete(s),
         UNCHANGED <<stream, engaged, initialised>>,
         \/ pc' = pc
         \/ pc[s] \in {"sendFile", "sendClose"} /\ (Goto(s, "files") \/ Goto(s, "close"))
  PROVE  InitializeFirst' /\ Readiness'
<1>1. /\ appended' = appended /\ wire' = wire
      /\ consumed' >= consumed /\ (appended > 0 => consumed' > 0)
      /\ \A t \in Sessions : t # s => op'[t] = op[t]
      /\ op[s].n > 0
  BY CompleteFacts DEF Typed, TypeOK
<1>2. appended \in Nat /\ consumed \in Nat /\ consumed' \in Nat /\ consumed <= appended
  BY CompleteFacts DEF Typed, TypeOK, SendTypeOK
<1>3. InitializeFirst'
  BY <1>1 DEF InitializeFirst
<1>4. consumed' <= appended
  BY <1>1, CompleteFacts DEF Typed, TypeOK, SendTypeOK
<1>5. \A t \in Sessions :
        /\ pc'[t] = "awaitInit" => pc[t] = "awaitInit"
        /\ pc'[t] \in {"files", "sendFile", "close", "sendClose", "awaitCompletion"}
             => pc[t] \in {"files", "sendFile", "close", "sendClose", "awaitCompletion"}
  BY DEF Goto, Typed, TypeOK
<1>6. Readiness'
  <2>1. ~engaged' => appended' = 0 /\ consumed' = 0 /\ wire' = <<>>
    BY <1>1, <1>2, <1>4 DEF Readiness
  <2>2. initialised' => engaged' /\ consumed' >= 1 /\ Len(wire') >= 1
    BY <1>1, <1>2 DEF Readiness
  <2>3. \A t \in Sessions :
          pc'[t] \in {"files", "sendFile", "close", "sendClose", "awaitCompletion"} => initialised'
    BY <1>5 DEF Readiness
  <2>4. \A t \in Sessions : pc'[t] = "awaitInit" =>
          /\ engaged' /\ appended' >= 1 /\ Len(wire') >= 1
          /\ op'[t].n = 0 => consumed' >= 1
    BY <1>1, <1>2, <1>5 DEF Readiness
  <2> QED BY <2>1, <2>2, <2>3, <2>4 DEF Readiness
<1> QED BY <1>3, <1>6

LEMMA HandshakeStep ==
  ASSUME Typed, InitializeFirst, status = "up", Readiness, Next
  PROVE  InitializeFirst' /\ (status' = "up" => Readiness')
<1> DEFINE Quiet == UNCHANGED <<stream, senderVars>>
           Goal == InitializeFirst' /\ (status' = "up" => Readiness')
           Moves == \A t \in Sessions : \/ pc'[t] = pc[t]
                                        \/ pc'[t] \in {"idle", "afterInit", "done"}
                                        \/ initialised /\ pc'[t] # "awaitInit"
<1>a. ASSUME Quiet, initialised' = initialised, status' # "up" \/ (engaged' = engaged /\ Moves)
      PROVE  Goal
  <2>1. InitializeFirst'
    BY <1>a DEF InitializeFirst, senderVars
  <2>2. CASE engaged' = engaged /\ Moves
    BY <1>a, <2>1, <2>2, ReadinessKept DEF senderVars
  <2> QED BY <1>a, <2>1, <2>2
<1>b. ASSUME NEW s \in Sessions, NEW x \in Places, Goto(s, x),
             x \in {"idle", "afterInit", "done"} \/ (initialised /\ x # "awaitInit")
      PROVE  Moves
  BY <1>b DEF Goto, Typed, TypeOK
<1> HIDE DEF Goal
<1>c. ASSUME NEW s \in Sessions, NEW m \in Messages, NEW x \in Places \ {"awaitInit"},
             SendTo(s, m), m.method # "initialize", initialised,
             UNCHANGED <<engaged, initialised>>, Goto(s, x)
      PROVE  Goal
  <2>1. CASE SendAtOnce(s, 1) /\ stream' = Append(stream, m)
    BY <1>c, <2>1, ReadySays DEF Goal
  <2>2. CASE Quiet
    <3>1. Moves
      BY <1>c, <1>b
    <3> QED BY <1>c, <2>2, <3>1, <1>a
  <2> QED BY <1>c, <2>1, <2>2 DEF SendTo
<1>1. ASSUME NEW s \in Sessions, RequestArrives(s) PROVE Goal
  <2>1. CASE EventArrives(s) \/ CompletionArrives(s)
    <3>1. Quiet /\ initialised' = initialised /\ engaged' = engaged
      BY <2>1 DEF EventArrives, CompletionArrives
    <3>2. Goto(s, "done") \/ (initialised /\ Goto(s, "files"))
      BY <2>1 DEF EventArrives, CompletionArrives, HandleEventNotification, Ready,
                  Leave, Continue
    <3>3. Moves
      BY <3>2, <1>b DEF Places
    <3> QED BY <3>1, <3>3, <1>a
  <2>2. CASE InitStartsClangd(s)
    <3>1. /\ appended = 0 /\ consumed = 0 /\ wire = <<>> /\ ~initialised
      BY <2>2 DEF InitStartsClangd, FirstEvent, Readiness
    <3>2. /\ SendAtOnce(s, 1) /\ stream' = Append(stream, Request("initialize", next_id))
          /\ engaged' /\ initialised' = initialised /\ Goto(s, "awaitInit") /\ next_id \in Nat
      BY <2>2 DEF InitStartsClangd, FirstEvent, Leave, Typed, TypeOK
    <3>3. /\ InitializeFirst' /\ appended' = 1 /\ Len(wire') = 1 /\ op'[s].n = 1
      BY <3>1, <3>2, FirstSaid
    <3>4. pc'[s] = "awaitInit" /\ \A t \in Sessions : t # s => pc'[t] = pc[t]
      BY <3>2 DEF Goto, Typed, TypeOK
    <3>5. \A t \in Sessions : t # s =>
            pc[t] \notin {"files", "sendFile", "close", "sendClose", "awaitCompletion", "awaitInit"}
      BY <3>1 DEF Readiness
    <3>6. Readiness'
      BY <3>1, <3>2, <3>3, <3>4, <3>5 DEF Readiness
    <3> QED BY <3>3, <3>6 DEF Goal
  <2>3. CASE InitFindsNoClangd(s)
    <3>1. /\ UNCHANGED <<stream, senderVars>> /\ initialised' = initialised /\ engaged'
          /\ ~engaged
      BY <2>3 DEF InitFindsNoClangd, FirstEvent
    <3>2. ~initialised /\ Goto(s, "done")
      BY <2>3, <3>1 DEF InitFindsNoClangd, HandleEventNotification, Ready, Leave, Readiness
    <3>3. InitializeFirst'
      BY <3>1 DEF InitializeFirst, senderVars
    <3>4. \A t \in Sessions : pc'[t] = pc[t] \/ pc'[t] = "done"
      BY <3>2 DEF Goto, Typed, TypeOK
    <3>5. Readiness'
      BY <3>1, <3>2, <3>4 DEF Readiness, senderVars
    <3> QED BY <3>3, <3>5 DEF Goal
  <2>4. CASE InitCannotSpawn(s)
    BY <2>4, <1>a DEF InitCannotSpawn
  <2> QED BY <1>1, <2>1, <2>2, <2>3, <2>4 DEF RequestArrives
<1>2. ASSUME NEW s \in Sessions, SessionRuns(s) PROVE Goal
  <2>1. CASE AfterInit(s)
    <3>1. Quiet /\ initialised' = initialised /\ engaged' = engaged
      BY <2>1 DEF AfterInit
    <3>2. Goto(s, "done") \/ (initialised /\ Goto(s, "files"))
      BY <2>1 DEF AfterInit, HandleEventNotification, Ready, Leave, Continue
    <3>3. Moves
      BY <3>2, <1>b DEF Places
    <3> QED BY <3>1, <3>3, <1>a
  <2>2. CASE BeginClosing(s) \/ EventSynced(s)
    <3>1. Quiet /\ initialised' = initialised /\ engaged' = engaged
      BY <2>2 DEF BeginClosing, EventSynced
    <3>2. Goto(s, "done") \/ (initialised /\ Goto(s, "close"))
      BY <2>2 DEF BeginClosing, EventSynced, Runs, Leave, Continue, Readiness
    <3>3. Moves
      BY <3>2, <1>b DEF Places
    <3> QED BY <3>1, <3>3, <1>a
  <2>3. CASE CompletionSynced(s)
    <3>1. /\ initialised /\ next_id \in Nat
          /\ SendTo(s, Request("textDocument/completion", next_id))
          /\ UNCHANGED <<engaged, initialised>> /\ Goto(s, "awaitCompletion")
      BY <2>3 DEF CompletionSynced, AskClangd, Runs, Leave, Readiness, Typed, TypeOK
    <3>2. Request("textDocument/completion", next_id).method # "initialize"
      BY DEF Request
    <3> QED BY <3>1, <3>2, <1>c, MessagesTyped DEF Places
  <2>4. ASSUME NEW f \in Files, VisitFile(s, f) PROVE Goal
    <3>1. initialised /\ UNCHANGED <<engaged, initialised>>
      BY <2>4 DEF VisitFile, Runs, Readiness
    <3>2. req[s].files[f] \in Contents
      BY <2>4, RequestTyped DEF VisitFile, Typed
    <3>3. CASE OpenFile(s, f)
      <4>1. DidOpen(f, req[s].files[f]).method # "initialize"
        BY DEF DidOpen
      <4> QED BY <3>1, <3>2, <3>3, <4>1, <1>c, MessagesTyped DEF OpenFile, Leave, Places
    <3>4. CASE ChangeFile(s, f)
      <4>1. f \in Opened /\ opened_files[f] \in [version : Nat, hash : Contents]
        BY <3>4 DEF ChangeFile, Typed, TypeOK
      <4>2. opened_files[f].version + 1 \in Nat
        BY <4>1
      <4>3. DidChange(f, opened_files[f].version + 1, req[s].files[f]).method # "initialize"
        BY DEF DidChange
      <4> QED BY <3>1, <3>2, <3>4, <4>2, <4>3, <1>c, MessagesTyped
              DEF ChangeFile, Leave, Places
    <3>5. CASE KeepFile(s, f)
      BY <3>1, <3>5, <1>a DEF KeepFile
    <3> QED BY <2>4, <3>3, <3>4, <3>5 DEF VisitFile
  <2>5. ASSUME NEW f \in Files, CloseFile(s, f) PROVE Goal
    <3>1. initialised /\ UNCHANGED <<engaged, initialised>>
      BY <2>5 DEF CloseFile, Runs, Readiness
    <3>2. DidClose(f).method # "initialize"
      BY DEF DidClose
    <3> QED BY <2>5, <3>1, <3>2, <1>c, MessagesTyped DEF CloseFile, Leave, Places
  <2> QED BY <1>2, <2>1, <2>2, <2>3, <2>4, <2>5 DEF SessionRuns
<1>3. ASSUME NEW s \in Sessions, WriteDone(s) PROVE Goal
  <2>1. Complete(s) /\ UNCHANGED <<stream, engaged, initialised>>
    BY <1>3 DEF WriteDone
  <2>2. \/ pc' = pc
        \/ pc[s] \in {"sendFile", "sendClose"} /\ (Goto(s, "files") \/ Goto(s, "close"))
    BY <1>3 DEF WriteDone, Continue
  <2> QED BY <2>1, <2>2, WriteEnds DEF Goal
<1>4. ASSUME MessagePump PROVE Goal
  <2>1. ASSUME NEW p \in pending_requests, PumpAnswers(p) PROVE Goal
    <3>0. p.handler \in Sessions /\ op[p.handler].n = 0
      BY <2>1 DEF PumpAnswers, Typed, TypeOK
    <3>1. Quiet /\ engaged' = engaged
      BY <2>1 DEF PumpAnswers
    <3>2. CASE status' = "aborted" /\ initialised' = initialised
      BY <3>1, <3>2, <1>a
    <3>3. CASE Goto(p.handler, "done") /\ initialised' = initialised
      BY <3>0, <3>1, <3>3, <1>a, <1>b DEF Places
    <3>4. CASE pc[p.handler] = "awaitInit" /\ Goto(p.handler, "afterInit")
               /\ (initialised => initialised')
      <4>1. engaged /\ consumed >= 1 /\ Len(wire) >= 1
        BY <3>0, <3>4 DEF Readiness
      <4>2. InitializeFirst'
        BY <3>1, <3>4 DEF InitializeFirst, senderVars
      <4>3. \A t \in Sessions : pc'[t] = pc[t] \/ pc'[t] = "afterInit"
        BY <3>0, <3>4 DEF Goto, Typed, TypeOK
      <4>4. UNCHANGED <<appended, consumed, wire, op, engaged>>
        BY <3>1 DEF senderVars
      <4>5. Readiness'
        BY <3>4, <4>1, <4>3, <4>4 DEF Readiness
      <4> QED BY <4>2, <4>5 DEF Goal
    <3>5. Resume(p.handler, Head(replies).kind)
      BY <2>1 DEF PumpAnswers
    <3>6. initialised' = (initialised \/ Head(replies).kind = "result") => (initialised => initialised')
      BY Zenon
    <3> QED BY <3>2, <3>3, <3>4, <3>5, <3>6, Zenon DEF Resume, Leave, Continue
  <2>2. CASE PumpIgnores \/ PumpEnds
    <3>1. Quiet /\ pc' = pc /\ initialised' = initialised /\ engaged' = engaged
      BY <2>2 DEF PumpIgnores, PumpEnds, sessionVars
    <3> QED BY <3>1, <1>a
  <2> QED BY <1>4, <2>1, <2>2 DEF MessagePump
<1>5. ASSUME ClangdReads \/ Answering \/ ClangdDies PROVE Goal
  <2>1. Quiet /\ pc' = pc /\ initialised' = initialised /\ engaged' = engaged
    BY <1>5 DEF ClangdReads, Answering, ClangdAnswers, ClangdDies, ycmdVars, sessionVars
  <2> QED BY <2>1, <1>a
<1>6. ASSUME NEW s \in Sessions, WriteFails(s) PROVE Goal
  BY <1>6, <1>a DEF WriteFails
<1>7. Goal
  BY <1>1, <1>2, <1>3, <1>4, <1>5, <1>6 DEF Next
<1> QED BY <1>7 DEF Goal
----------------------------------------------------------------------------
(* Texts: what is said of a file last, and what clangd reads of it last.    *)

IsLastText(q, f, c) ==
  /\ c \in DOMAIN q /\ IsText(q[c], f)
  /\ \A j \in (c + 1)..Len(q) : ~IsText(q[j], f)

IsLastRead(w, q, f, c) ==
  \E i \in DOMAIN w : /\ w[i] = c
                      /\ \A j \in (i + 1)..Len(w) : IsText(q[w[j]], f) => w[j] = c

Current ==
  \A f \in Opened : \E c \in DOMAIN stream :
    /\ IsLastText(stream, f, c)
    /\ IsLastRead(wire, stream, f, c)
    /\ stream[c].version = opened_files[f].version
    /\ stream[c].text = opened_files[f].hash
    /\ opened_files[f].version >= 1

ClosedAfter(q, f, i) == \E k \in (i + 1)..Len(q) : q[k] = DidClose(f)

(* Every didOpen of f is followed by a didClose: f may be opened again.     *)
Openable(q, f) ==
  \A i \in DOMAIN q : IsText(q[i], f) /\ q[i].version = 1 => ClosedAfter(q, f, i)

(* Every text of f is followed by a didClose.                               *)
Closed(q, f) == \A i \in DOMAIN q : IsText(q[i], f) => ClosedAfter(q, f, i)

(* What a session erases from opened_files may be opened again, and an      *)
(* iterator that is not dangling points to an opened file.                  *)
Syncing ==
  /\ \A s \in Sessions : rest[s] \subseteq Opened
  /\ \A s \in Sessions : at[s] = {} \/ \E f \in Files : at[s] = {f}
  /\ \A s \in Sessions :
       pc[s] = "sendClose" /\ ~dangling[s] =>
         \A f \in at[s] : f \in Opened /\ Openable(stream, f)
  /\ \A f \in Files \ Opened : Openable(stream, f)

(* No didClose of f came after its last text.                               *)
StillOpen(q, f) ==
  \A k \in DOMAIN q : q[k] = DidClose(f) => \E i \in (k + 1)..Len(q) : IsText(q[i], f)

(* Without overlaps, a session that waits for the write of its didClose is  *)
(* the last that sent something, and an opened file nobody is closing has   *)
(* not been closed.                                                         *)
Forgetting ==
  /\ \A s \in Sessions : pc[s] = "sendClose" => op[s].n > 0
  /\ ~overlapped =>
       /\ \A s \in Sessions :
            pc[s] = "sendClose" =>
              \A f \in at[s] : Len(stream) > 0 /\ stream[Len(stream)] = DidClose(f)
       /\ \A f \in Files \ Opened : Closed(stream, f)
       /\ \A f \in Opened :
            (\A s \in Sessions : pc[s] = "sendClose" => f \notin at[s]) =>
              StillOpen(stream, f)
----------------------------------------------------------------------------
LEMMA TextFacts ==
  /\ \A f, g, hash : IsText(DidOpen(f, hash), g) <=> f = g
  /\ \A f, g, version, hash : IsText(DidChange(f, version, hash), g) <=> f = g
  /\ \A f, g : ~IsText(DidClose(f), g)
  /\ \A g, id : /\ ~IsText(Request("initialize", id), g)
                /\ ~IsText(Request("textDocument/completion", id), g)
  /\ \A f, hash : DidOpen(f, hash).version = 1 /\ DidOpen(f, hash).text = hash
  /\ \A f, hash, version : /\ DidChange(f, version, hash).version = version
                           /\ DidChange(f, version, hash).text = hash
  BY DEF IsText, Texts, Request, DidOpen, DidChange, DidClose, URI

LEMMA CloseFacts ==
  /\ \A f, g : DidClose(f) = DidClose(g) => f = g
  /\ \A g, id : /\ Request("initialize", id) # DidClose(g)
                /\ Request("textDocument/completion", id) # DidClose(g)
<1>1. \A f : DidClose(f).uri.path = f /\ DidClose(f).method = "textDocument/didClose"
  BY DEF DidClose, BarePath
<1>2. \A id : /\ Request("initialize", id).method = "initialize"
              /\ Request("textDocument/completion", id).method = "textDocument/completion"
  BY DEF Request
<1>3. \A f, g : DidClose(f) = DidClose(g) => f = g
  BY <1>1
<1>4. \A g, id : /\ Request("initialize", id) # DidClose(g)
                 /\ Request("textDocument/completion", id) # DidClose(g)
  BY <1>1, <1>2
<1> QED BY <1>3, <1>4

(* Sending m, in terms of positions                                         *)
Says(s, m) == SendAtOnce(s, 1) /\ stream' = Append(stream, m)

LEMMA SaidFacts ==
  ASSUME Typed, NEW s \in Sessions, NEW m \in Messages, Says(s, m)
  PROVE  /\ appended \in Nat /\ consumed \in Nat /\ consumed <= appended
         /\ Len(stream) = appended /\ DOMAIN stream = 1..appended
         /\ Len(stream') = appended + 1 /\ DOMAIN stream' = 1..(appended + 1)
         /\ \A i \in 1..appended : stream'[i] = stream[i]
         /\ stream'[appended + 1] = m
         /\ Len(wire) \in Nat /\ DOMAIN wire = 1..Len(wire)
         /\ Len(wire') = Len(wire) + (appended + 1 - consumed)
         /\ DOMAIN wire' = 1..Len(wire')
         /\ \A i \in 1..Len(wire) : wire'[i] = wire[i] /\ wire[i] \in 1..appended
         /\ \A i \in (Len(wire) + 1)..Len(wire') : wire'[i] = consumed + (i - Len(wire))
<1>1. /\ appended \in Nat /\ consumed \in Nat /\ consumed <= appended
      /\ Len(stream) = appended /\ DOMAIN stream = 1..appended
      /\ Len(wire) \in Nat /\ DOMAIN wire = 1..Len(wire)
  BY DEF Typed, TypeOK, SendTypeOK
<1>2. /\ stream' \in Seq(Messages) /\ Len(stream') = appended + 1
      /\ \A i \in 1..appended : stream'[i] = stream[i]
      /\ stream'[appended + 1] = m
  BY AppendFacts DEF Typed, Says
<1>3. /\ SendTypeOK'
      /\ Len(wire') = Len(wire) + (appended + 1 - consumed)
      /\ \A i \in 1..Len(wire) : wire'[i] = wire[i]
      /\ \A i \in (Len(wire) + 1)..Len(wire') : wire'[i] = consumed + (i - Len(wire))
  BY SendFacts DEF Typed, TypeOK, Says
<1>4. DOMAIN wire' = 1..Len(wire') /\ DOMAIN stream' = 1..(appended + 1)
  BY <1>2, <1>3 DEF SendTypeOK
<1>5. \A i \in 1..Len(wire) : wire[i] \in 1..appended
  BY <1>1 DEF Typed
<1> QED BY <1>1, <1>2, <1>3, <1>4, <1>5

(* Where the positions consumed + 1..appended + 1 land on the wire          *)
LEMMA Landing ==
  ASSUME NEW sent \in Nat, NEW last \in Nat, NEW done \in Nat, done <= last,
         NEW j \in (sent + 1)..(sent + (last + 1 - done))
  PROVE  /\ done + (j - sent) \in (done + 1)..(last + 1)
         /\ \A c \in 1..last : c <= done => done + (j - sent) \in (c + 1)..(last + 1)
         /\ \A c \in 1..last : j > sent + (c - done) =>
                              done + (j - sent) \in (c + 1)..(last + 1)
  OBVIOUS

LEMMA CurrentKept ==
  ASSUME Typed, NEW s \in Sessions, NEW m \in Messages, Says(s, m),
         NEW f \in Files, ~IsText(m, f), NEW c \in DOMAIN stream,
         IsLastText(stream, f, c), IsLastRead(wire, stream, f, c)
  PROVE  /\ c \in DOMAIN stream' /\ stream'[c] = stream[c]
         /\ IsLastText(stream', f, c) /\ IsLastRead(wire', stream', f, c)
<1>1. /\ appended \in Nat /\ consumed \in Nat /\ consumed <= appended
      /\ Len(stream) = appended /\ DOMAIN stream = 1..appended
      /\ Len(stream') = appended + 1 /\ DOMAIN stream' = 1..(appended + 1)
      /\ \A i \in 1..appended : stream'[i] = stream[i]
      /\ stream'[appended + 1] = m
  BY SaidFacts
<1>2. /\ Len(wire) \in Nat /\ DOMAIN wire = 1..Len(wire)
      /\ Len(wire') = Len(wire) + (appended + 1 - consumed)
      /\ DOMAIN wire' = 1..Len(wire')
      /\ \A i \in 1..Len(wire) : wire'[i] = wire[i] /\ wire[i] \in 1..appended
      /\ \A i \in (Len(wire) + 1)..Len(wire') : wire'[i] = consumed + (i - Len(wire))
  BY SaidFacts
<1>3. c \in 1..appended /\ stream'[c] = stream[c] /\ c \in DOMAIN stream'
  BY <1>1
<1>4. \A j \in (c + 1)..(appended + 1) : ~IsText(stream'[j], f)
  <2> SUFFICES ASSUME NEW j \in (c + 1)..(appended + 1) PROVE ~IsText(stream'[j], f)
    OBVIOUS
  <2>1. CASE j = appended + 1
    BY <2>1, <1>1
  <2>2. CASE j <= appended
    BY <2>2, <1>1, <1>3 DEF IsLastText
  <2> QED BY <2>1, <2>2, <1>1, <1>3
<1>5. IsLastText(stream', f, c)
  BY <1>1, <1>3, <1>4 DEF IsLastText
<1>6. PICK i \in 1..Len(wire) :
        wire[i] = c /\ \A j \in (i + 1)..Len(wire) : IsText(stream[wire[j]], f) => wire[j] = c
  BY <1>2 DEF IsLastRead
<1>7. /\ Len(wire) \in Nat /\ appended \in Nat /\ consumed \in Nat
      /\ consumed <= appended
      /\ Len(wire') = Len(wire) + (appended + 1 - consumed)
  BY <1>1, <1>2
<1>8. CASE c <= consumed
  <2>1. \A j \in (i + 1)..Len(wire') : IsText(stream'[wire'[j]], f) => wire'[j] = c
    <3> SUFFICES ASSUME NEW j \in (i + 1)..Len(wire'), IsText(stream'[wire'[j]], f)
                 PROVE  wire'[j] = c
      OBVIOUS
    <3>1. CASE j <= Len(wire)
      BY <3>1, <1>1, <1>2, <1>6
    <3>2. CASE j > Len(wire)
      <4>1. j \in (Len(wire) + 1)..Len(wire')
        BY <3>2, <1>7
      <4>2. wire'[j] = consumed + (j - Len(wire))
        BY <4>1, <1>2
      <4>3. consumed + (j - Len(wire)) \in (c + 1)..(appended + 1)
        BY <4>1, <1>7, <1>3, <1>8, Landing
      <4> QED BY <4>2, <4>3, <1>4
    <3> QED BY <3>1, <3>2, <1>2
  <2>2. i \in DOMAIN wire' /\ wire'[i] = c
    BY <1>1, <1>2, <1>6
  <2>3. IsLastRead(wire', stream', f, c)
    BY <2>1, <2>2 DEF IsLastRead
  <2> QED BY <2>3, <1>3, <1>5
<1>9. CASE c > consumed
  <2> DEFINE h == Len(wire) + (c - consumed)
  <2>0. h \in (Len(wire) + 1)..Len(wire') /\ h \in 1..Len(wire')
        /\ consumed + (h - Len(wire)) = c
    BY <1>7, <1>3, <1>9
  <2>1. h \in DOMAIN wire' /\ wire'[h] = c
    BY <2>0, <1>2
  <2>2. \A j \in (h + 1)..Len(wire') : ~IsText(stream'[wire'[j]], f)
    <3> SUFFICES ASSUME NEW j \in (h + 1)..Len(wire') PROVE ~IsText(stream'[wire'[j]], f)
      OBVIOUS
    <3>a. Len(wire) \in Nat /\ Len(wire') \in Nat /\ h \in Nat /\ h > Len(wire)
      BY <2>0, <1>7
    <3>b. j > h /\ j \in Nat /\ j <= Len(wire')
      BY <3>a
    <3>1. j \in (Len(wire) + 1)..Len(wire') /\ j > Len(wire) + (c - consumed)
      BY <3>a, <3>b
    <3>2. wire'[j] = consumed + (j - Len(wire))
      BY <3>1, <1>2
    <3>3. consumed + (j - Len(wire)) \in (c + 1)..(appended + 1)
      BY <3>1, <1>7, <1>3, Landing
    <3> QED BY <3>2, <3>3, <1>4
  <2>3. IsLastRead(wire', stream', f, c)
    BY <2>1, <2>2 DEF IsLastRead
  <2> QED BY <2>3, <1>3, <1>5
<1> QED BY <1>1, <1>3, <1>8, <1>9

LEMMA CurrentSaid ==
  ASSUME Typed, NEW s \in Sessions, NEW m \in Messages, Says(s, m),
         NEW f \in Files, IsText(m, f)
  PROVE  \E c \in DOMAIN stream' : /\ stream'[c] = m
                                   /\ IsLastText(stream', f, c)
                                   /\ IsLastRead(wire', stream', f, c)
<1>1. /\ appended \in Nat /\ consumed \in Nat /\ consumed <= appended
      /\ Len(stream') = appended + 1 /\ DOMAIN stream' = 1..(appended + 1)
      /\ stream'[appended + 1] = m
  BY SaidFacts
<1>2. /\ Len(wire) \in Nat
      /\ Len(wire') = Len(wire) + (appended + 1 - consumed)
      /\ DOMAIN wire' = 1..Len(wire')
      /\ \A i \in (Len(wire) + 1)..Len(wire') : wire'[i] = consumed + (i - Len(wire))
  BY SaidFacts
<1>3. Len(wire') \in DOMAIN wire' /\ wire'[Len(wire')] = appended + 1
  BY <1>1, <1>2
<1>4. IsLastRead(wire', stream', f, appended + 1)
  <2>1. \A j \in (Len(wire') + 1)..Len(wire') : FALSE
    BY <1>1, <1>2
  <2> QED BY <2>1, <1>3 DEF IsLastRead
<1>5. IsLastText(stream', f, appended + 1)
  BY <1>1 DEF IsLastText
<1> QED BY <1>1, <1>4, <1>5

LEMMA ClosedAfterKept ==
  ASSUME Typed, NEW s \in Sessions, NEW m \in Messages, Says(s, m),
         NEW f \in Files, NEW i \in DOMAIN stream, ClosedAfter(stream, f, i)
  PROVE  ClosedAfter(stream', f, i)
<1>1. /\ appended \in Nat /\ Len(stream) = appended /\ DOMAIN stream = 1..appended
      /\ Len(stream') = appended + 1
      /\ \A k \in 1..appended : stream'[k] = stream[k]
  BY SaidFacts
<1>2. PICK k \in (i + 1)..Len(stream) : stream[k] = DidClose(f)
  BY DEF ClosedAfter
<1>3. k \in 1..appended /\ k \in (i + 1)..Len(stream')
  BY <1>1, <1>2
<1> QED BY <1>1, <1>2, <1>3 DEF ClosedAfter

LEMMA OpenableKept ==
  ASSUME Typed, NEW s \in Sessions, NEW m \in Messages, Says(s, m),
         NEW f \in Files, Openable(stream, f), IsText(m, f) => m.version # 1
  PROVE  Openable(stream', f)
<1>1. /\ appended \in Nat /\ DOMAIN stream = 1..appended
      /\ DOMAIN stream' = 1..(appended + 1)
      /\ \A k \in 1..appended : stream'[k] = stream[k]
      /\ stream'[appended + 1] = m
  BY SaidFacts
<1> SUFFICES ASSUME NEW i \in DOMAIN stream', IsText(stream'[i], f), stream'[i].version = 1
             PROVE  ClosedAfter(stream', f, i)
  BY DEF Openable
<1>2. i \in DOMAIN stream /\ stream'[i] = stream[i]
  BY <1>1
<1> QED BY <1>2, ClosedAfterKept DEF Openable

LEMMA ClosedKept ==
  ASSUME Typed, NEW s \in Sessions, NEW m \in Messages, Says(s, m),
         NEW f \in Files, Closed(stream, f), ~IsText(m, f)
  PROVE  Closed(stream', f)
<1>1. /\ appended \in Nat /\ DOMAIN stream = 1..appended
      /\ DOMAIN stream' = 1..(appended + 1)
      /\ \A k \in 1..appended : stream'[k] = stream[k]
      /\ stream'[appended + 1] = m
  BY SaidFacts
<1> SUFFICES ASSUME NEW i \in DOMAIN stream', IsText(stream'[i], f)
             PROVE  ClosedAfter(stream', f, i)
  BY DEF Closed
<1>2. i \in DOMAIN stream /\ stream'[i] = stream[i]
  BY <1>1
<1> QED BY <1>2, ClosedAfterKept DEF Closed

(* A didClose closes.                                                       *)
LEMMA ClosedNow ==
  ASSUME NEW f \in Files, NEW q \in Seq(Messages),
         Len(q) > 0, q[Len(q)] = DidClose(f)
  PROVE  Closed(q, f) /\ Openable(q, f)
<1>1. DOMAIN q = 1..Len(q) /\ Len(q) \in Nat
  OBVIOUS
<1>2. \A i \in DOMAIN q : IsText(q[i], f) => i # Len(q)
  BY TextFacts
<1>3. \A i \in DOMAIN q : IsText(q[i], f) => ClosedAfter(q, f, i)
  BY <1>1, <1>2 DEF ClosedAfter
<1> QED BY <1>3 DEF Closed, Openable

LEMMA StillKept ==
  ASSUME Typed, NEW s \in Sessions, NEW m \in Messages, Says(s, m),
         NEW f \in Files, StillOpen(stream, f), m # DidClose(f)
  PROVE  StillOpen(stream', f)
<1>1. /\ appended \in Nat /\ Len(stream) = appended /\ DOMAIN stream = 1..appended
      /\ DOMAIN stream' = 1..(appended + 1) /\ Len(stream') = appended + 1
      /\ \A k \in 1..appended : stream'[k] = stream[k]
      /\ stream'[appended + 1] = m
  BY SaidFacts
<1> SUFFICES ASSUME NEW k \in 1..(appended + 1), stream'[k] = DidClose(f)
             PROVE  \E i \in (k + 1)..(appended + 1) : IsText(stream'[i], f)
  BY <1>1 DEF StillOpen
<1>2. k \in 1..appended /\ stream[k] = DidClose(f)
  BY <1>1
<1>3. PICK i \in (k + 1)..appended : IsText(stream[i], f)
  BY <1>1, <1>2 DEF StillOpen
<1>4. i \in (k + 1)..(appended + 1) /\ stream'[i] = stream[i]
  BY <1>1, <1>2, <1>3
<1> QED BY <1>3, <1>4

(* A text opens.                                                            *)
LEMMA StillSaid ==
  ASSUME Typed, NEW s \in Sessions, NEW m \in Messages, Says(s, m),
         NEW f \in Files, IsText(m, f)
  PROVE  StillOpen(stream', f)
<1>1. /\ appended \in Nat
      /\ DOMAIN stream' = 1..(appended + 1) /\ Len(stream') = appended + 1
      /\ stream'[appended + 1] = m
  BY SaidFacts
<1>2. m # DidClose(f)
  BY TextFacts
<1>3. \A k \in 1..(appended + 1) :
        stream'[k] = DidClose(f) => appended + 1 \in (k + 1)..(appended + 1)
  BY <1>1, <1>2
<1> QED BY <1>1, <1>3 DEF StillOpen

(* What needs the file to be open is sent only when it still is.            *)
LEMMA OrderKept ==
  ASSUME Typed, ClosedStaysClosed, NEW s \in Sessions, NEW m \in Messages, Says(s, m),
         ~overlapped' => ~overlapped,
         ~overlapped' =>
           \A f \in Files :
             m = DidClose(f) \/ (IsText(m, f) /\ m.version # 1) => StillOpen(stream, f)
  PROVE  ClosedStaysClosed'
<1>1. /\ appended \in Nat /\ Len(stream) = appended /\ DOMAIN stream = 1..appended
      /\ DOMAIN stream' = 1..(appended + 1)
      /\ \A k \in 1..appended : stream'[k] = stream[k]
      /\ stream'[appended + 1] = m
  BY SaidFacts
<1> SUFFICES ASSUME ~overlapped', NEW i \in 1..(appended + 1), NEW j \in 1..(appended + 1),
                    NEW f \in Files, i < j, stream'[i] = DidClose(f),
                    stream'[j] = DidClose(f) \/ (IsText(stream'[j], f) /\ stream'[j].version # 1)
             PROVE  \E k \in (i + 1)..(j - 1) :
                      IsText(stream'[k], f) /\ stream'[k].version = 1
  BY <1>1 DEF ClosedStaysClosed
<1>2. i \in 1..appended /\ stream[i] = DidClose(f)
  BY <1>1
<1>3. \A k \in (i + 1)..(j - 1) : k \in 1..appended /\ stream'[k] = stream[k]
  BY <1>1
<1>4. ASSUME NEW l \in 1..appended, i < l, l <= j,
             (IsText(stream[l], f) /\ stream[l].version # 1) \/ stream[l] = DidClose(f)
      PROVE  \E k \in (i + 1)..(l - 1) : IsText(stream[k], f) /\ stream[k].version = 1
  BY <1>1, <1>2, <1>4 DEF ClosedStaysClosed
<1>5. CASE j <= appended
  <2>1. j \in 1..appended /\ stream'[j] = stream[j]
    BY <1>1, <1>5
  <2>2. PICK k \in (i + 1)..(j - 1) : IsText(stream[k], f) /\ stream[k].version = 1
    BY <1>4, <2>1
  <2> QED BY <1>3, <2>2
<1>6. CASE j = appended + 1
  <2>1. StillOpen(stream, f)
    BY <1>1, <1>6
  <2>2. PICK l \in (i + 1)..appended : IsText(stream[l], f)
    BY <1>1, <1>2, <2>1 DEF StillOpen
  <2>3. l \in 1..appended /\ i < l /\ l <= j /\ l \in (i + 1)..(j - 1)
    BY <1>1, <1>2, <1>6, <2>2
  <2>4. CASE stream[l].version = 1
    BY <1>3, <2>2, <2>3, <2>4
  <2>5. CASE stream[l].version # 1
    <3>1. PICK k \in (i + 1)..(l - 1) : IsText(stream[k], f) /\ stream[k].version = 1
      BY <1>4, <2>2, <2>3, <2>5
    <3>2. k \in (i + 1)..(j - 1)
      BY <1>1, <2>3, <3>1
    <3> QED BY <1>3, <3>1, <3>2
  <2> QED BY <2>4, <2>5
<1> QED BY <1>1, <1>5, <1>6

LEMMA VersionsKept ==
  ASSUME Typed, VersionsConsecutive, NEW s \in Sessions, NEW m \in Messages, Says(s, m),
         \A f \in Files : \A i \in DOMAIN stream :
           IsText(m, f) /\ IsText(stream[i], f) =>
             /\ stream[i].version = 1 /\ m.version = 1 => ClosedAfter(stream, f, i)
             /\ IsLastText(stream, f, i) => m.version \in {1, stream[i].version + 1}
  PROVE  VersionsConsecutive'
<1>1. /\ appended \in Nat /\ Len(stream) = appended /\ DOMAIN stream = 1..appended
      /\ DOMAIN stream' = 1..(appended + 1)
      /\ \A k \in 1..appended : stream'[k] = stream[k]
      /\ stream'[appended + 1] = m
  BY SaidFacts
<1> SUFFICES ASSUME NEW i \in 1..(appended + 1), NEW j \in 1..(appended + 1), NEW f \in Files,
                    i < j, IsText(stream'[i], f), IsText(stream'[j], f)
             PROVE  /\ (stream'[i].version = 1 /\ stream'[j].version = 1) =>
                         \E k \in (i + 1)..(j - 1) : stream'[k] = DidClose(f)
                    /\ (\A k \in (i + 1)..(j - 1) : ~IsText(stream'[k], f)) =>
                         stream'[j].version \in {1, stream'[i].version + 1}
  BY <1>1 DEF VersionsConsecutive
<1>2. i \in 1..appended /\ stream'[i] = stream[i]
  BY <1>1
<1>3. \A k \in (i + 1)..(j - 1) : k \in 1..appended /\ stream'[k] = stream[k]
  BY <1>1
<1>4. CASE j <= appended
  <2>1. j \in 1..appended /\ stream'[j] = stream[j]
    BY <1>1, <1>4
  <2>2. /\ (stream[i].version = 1 /\ stream[j].version = 1) =>
             \E k \in (i + 1)..(j - 1) : stream[k] = DidClose(f)
        /\ (\A k \in (i + 1)..(j - 1) : ~IsText(stream[k], f)) =>
             stream[j].version \in {1, stream[i].version + 1}
    BY <1>1, <1>2, <2>1 DEF VersionsConsecutive
  <2> QED BY <1>2, <1>3, <2>1, <2>2
<1>5. CASE j = appended + 1
  <2>1. stream'[j] = m /\ j - 1 = appended
    BY <1>1, <1>5
  <2>2. (\A k \in (i + 1)..appended : ~IsText(stream[k], f)) => IsLastText(stream, f, i)
    BY <1>1, <1>2 DEF IsLastText
  <2>3. /\ stream[i].version = 1 /\ m.version = 1 => ClosedAfter(stream, f, i)
        /\ IsLastText(stream, f, i) => m.version \in {1, stream[i].version + 1}
    BY <1>1, <1>2, <2>1
  <2>4. (stream[i].version = 1 /\ m.version = 1) =>
          \E k \in (i + 1)..appended : stream[k] = DidClose(f)
    BY <1>1, <2>3 DEF ClosedAfter
  <2> QED BY <1>2, <1>3, <2>1, <2>2, <2>3, <2>4
<1> QED BY <1>1, <1>4, <1>5
----------------------------------------------------------------------------
(* The steps that change what ycmd or clangd believes of files.             *)

FilesInv == Current /\ Syncing /\ Forgetting

LEMMA OverlapFacts ==
  ASSUME Typed, Forgetting, NEW s \in Sessions, NEW m \in Messages, Says(s, m)
  PROVE  /\ ~overlapped' => ~overlapped
         /\ \A t \in Sessions : pc[t] = "sendClose" => overlapped'
         /\ \A t \in Sessions : t # s => op'[t] = op[t]
         /\ op'[s].n > 0
<1>1. /\ overlapped' = (overlapped \/ Outstanding # {})
      /\ \A t \in Sessions : t # s => op'[t] = op[t]
      /\ op'[s].n = appended + 1 - consumed
  BY SendFacts DEF Typed, TypeOK, Says
<1>2. op'[s].n > 0
  BY <1>1 DEF Typed, TypeOK, SendTypeOK
<1>3. \A t \in Sessions : pc[t] = "sendClose" => t \in Outstanding
  BY DEF Forgetting, Outstanding
<1>4. \A t \in Sessions : pc[t] = "sendClose" => overlapped'
  BY <1>1, <1>3, Zenon
<1>5. ~overlapped' => ~overlapped
  BY <1>1, Zenon
<1> QED BY <1>1, <1>2, <1>4, <1>5

(* Who sends without overlap sends while nobody is closing a file.          *)
LEMMA NoneClosing ==
  ASSUME Typed, Forgetting, NEW s \in Sessions, NEW m \in Messages, Says(s, m)
  PROVE  ~overlapped' => \A f \in Opened : StillOpen(stream, f)
  BY OverlapFacts DEF Forgetting

LEMMA FilesKept ==
  ASSUME Typed, FilesInv, UNCHANGED <<stream, wire, opened_files, at, dangling, overlapped>>,
         \A t \in Sessions : pc'[t] = "sendClose" => op'[t] = op[t],
         \A t \in Sessions : pc'[t] = "sendClose" <=> pc[t] = "sendClose",
         \A t \in Sessions : rest'[t] \subseteq Opened
  PROVE  FilesInv'
<1>1. Opened' = Opened
  BY DEF Opened
<1>2. Current'
  BY <1>1 DEF FilesInv, Current
<1>3. Syncing'
  BY <1>1 DEF FilesInv, Syncing
<1>4. Forgetting'
  BY <1>1 DEF FilesInv, Forgetting
<1> QED BY <1>2, <1>3, <1>4 DEF FilesInv

LEMMA FilesAsked ==
  ASSUME Typed, FilesInv, NEW s \in Sessions, NEW m \in Messages, Says(s, m),
         \A f \in Files : ~IsText(m, f) /\ m # DidClose(f),
         UNCHANGED <<opened_files, at, dangling, rest>>,
         \A t \in Sessions : pc'[t] = "sendClose" => t # s /\ pc[t] = "sendClose"
  PROVE  FilesInv'
<1>1. Opened' = Opened /\ Opened \subseteq Files
  BY DEF Opened, Typed, TypeOK
<1>2. Current'
  <2> SUFFICES ASSUME NEW f \in Opened
               PROVE  \E c \in DOMAIN stream' :
                        /\ IsLastText(stream', f, c) /\ IsLastRead(wire', stream', f, c)
                        /\ stream'[c].version = opened_files[f].version
                        /\ stream'[c].text = opened_files[f].hash
                        /\ opened_files[f].version >= 1
    BY <1>1 DEF Current
  <2>1. PICK c \in DOMAIN stream :
          /\ IsLastText(stream, f, c) /\ IsLastRead(wire, stream, f, c)
          /\ stream[c].version = opened_files[f].version
          /\ stream[c].text = opened_files[f].hash
          /\ opened_files[f].version >= 1
    BY DEF FilesInv, Current
  <2>2. /\ c \in DOMAIN stream' /\ stream'[c] = stream[c]
        /\ IsLastText(stream', f, c) /\ IsLastRead(wire', stream', f, c)
    BY <1>1, <2>1, CurrentKept
  <2> QED BY <2>1, <2>2
<1>3. \A f \in Files : Openable(stream, f) => Openable(stream', f)
  BY OpenableKept
<1>4. Syncing'
  BY <1>1, <1>3 DEF FilesInv, Syncing, Typed, TypeOK
<1>5. Forgetting'
  <2>1. \A t \in Sessions : pc'[t] = "sendClose" => op'[t].n > 0
    BY OverlapFacts DEF FilesInv, Forgetting
  <2>2. ~overlapped' => \A t \in Sessions : pc'[t] # "sendClose"
    BY OverlapFacts DEF FilesInv
  <2>3. ~overlapped' => \A f \in Files \ Opened' : Closed(stream', f)
    BY <1>1, OverlapFacts, ClosedKept DEF FilesInv, Forgetting
  <2>4. ~overlapped' => \A f \in Opened' : StillOpen(stream', f)
    BY <1>1, NoneClosing, StillKept DEF FilesInv
  <2> QED BY <2>1, <2>2, <2>3, <2>4 DEF Forgetting
<1> QED BY <1>2, <1>4, <1>5 DEF FilesInv

(* didOpen and didChange                                                    *)
LEMMA FilesSaid ==
  ASSUME Typed, FilesInv, NEW s \in Sessions, NEW m \in Messages, Says(s, m),
         NEW f \in Files, \A g \in Files : IsText(m, g) <=> g = f,
         m.version >= 1, m.version = 1 => f \notin Opened,
         Opened' = Opened \cup {f},
         opened_files'[f] = [version |-> m.version, hash |-> m.text],
         \A g \in Opened : g # f => opened_files'[g] = opened_files[g],
         UNCHANGED <<at, dangling>>,
         \A t \in Sessions : rest'[t] \subseteq Opened',
         \A t \in Sessions : pc'[t] = "sendClose" => t # s /\ pc[t] = "sendClose"
  PROVE  FilesInv'
<1>1. Opened \subseteq Files
  BY DEF Typed, TypeOK
<1>2. Current'
  <2> SUFFICES ASSUME NEW g \in Opened'
               PROVE  \E c \in DOMAIN stream' :
                        /\ IsLastText(stream', g, c) /\ IsLastRead(wire', stream', g, c)
                        /\ stream'[c].version = opened_files'[g].version
                        /\ stream'[c].text = opened_files'[g].hash
                        /\ opened_files'[g].version >= 1
    BY DEF Current
  <2>1. CASE g = f
    <3>1. opened_files'[g].version = m.version /\ opened_files'[g].hash = m.text
      BY <2>1
    <3> QED BY <2>1, <3>1, CurrentSaid
  <2>2. CASE g # f
    <3>1. g \in Opened /\ opened_files'[g] = opened_files[g] /\ ~IsText(m, g) /\ g \in Files
      BY <1>1, <2>2
    <3>2. PICK c \in DOMAIN stream :
            /\ IsLastText(stream, g, c) /\ IsLastRead(wire, stream, g, c)
            /\ stream[c].version = opened_files[g].version
            /\ stream[c].text = opened_files[g].hash
            /\ opened_files[g].version >= 1
      BY <3>1 DEF FilesInv, Current
    <3>3. /\ c \in DOMAIN stream' /\ stream'[c] = stream[c]
          /\ IsLastText(stream', g, c) /\ IsLastRead(wire', stream', g, c)
      BY <3>1, <3>2, CurrentKept
    <3> QED BY <3>1, <3>2, <3>3
  <2> QED BY <2>1, <2>2
<1>3. \A g \in Files : g # f \/ f \in Opened =>
        (Openable(stream, g) => Openable(stream', g))
  BY OpenableKept
<1>4. Syncing'
  <2>1. \A t \in Sessions : pc'[t] = "sendClose" /\ ~dangling'[t] =>
          \A g \in at'[t] : g \in Opened' /\ Openable(stream', g)
    BY <1>1, <1>3 DEF FilesInv, Syncing
  <2>2. \A g \in Files \ Opened' : Openable(stream', g)
    BY <1>3 DEF FilesInv, Syncing
  <2> QED BY <2>1, <2>2 DEF FilesInv, Syncing
<1>5. Forgetting'
  <2>1. \A t \in Sessions : pc'[t] = "sendClose" => op'[t].n > 0
    BY OverlapFacts DEF FilesInv, Forgetting
  <2>2. ~overlapped' => \A t \in Sessions : pc'[t] # "sendClose"
    BY OverlapFacts DEF FilesInv
  <2>3. ~overlapped' => \A g \in Files \ Opened' : Closed(stream', g)
    BY OverlapFacts, ClosedKept DEF FilesInv, Forgetting
  <2>4. ~overlapped' => \A g \in Opened' : StillOpen(stream', g)
    <3>1. \A g \in Opened' : g = f \/ (g \in Opened /\ g \in Files /\ m # DidClose(g))
      BY <1>1, TextFacts
    <3> QED BY <3>1, NoneClosing, StillKept, StillSaid DEF FilesInv
  <2> QED BY <2>1, <2>2, <2>3, <2>4 DEF Forgetting
<1> QED BY <1>2, <1>4, <1>5 DEF FilesInv

(* didClose is sent; the iterator stays at the file.                        *)
LEMMA FilesClosing ==
  ASSUME Typed, FilesInv, NEW s \in Sessions, NEW f \in Opened, Says(s, DidClose(f)),
         UNCHANGED <<opened_files, dangling>>,
         at' = [at EXCEPT ![s] = {f}],
         \A t \in Sessions : rest'[t] \subseteq rest[t],
         \A t \in Sessions : pc'[t] = "sendClose" => t = s \/ pc[t] = "sendClose",
         pc[s] # "sendClose", pc'[s] = "sendClose"
  PROVE  FilesInv'
<1>1. Opened' = Opened /\ Opened \subseteq Files /\ DidClose(f) \in Messages
  BY MessagesTyped DEF Opened, Typed, TypeOK
<1>2. \A g \in Files : ~IsText(DidClose(f), g)
  BY TextFacts
<1>3. at'[s] = {f} /\ \A t \in Sessions : t # s => at'[t] = at[t]
  BY DEF Typed, TypeOK
<1>4. Current'
  <2> SUFFICES ASSUME NEW g \in Opened
               PROVE  \E c \in DOMAIN stream' :
                        /\ IsLastText(stream', g, c) /\ IsLastRead(wire', stream', g, c)
                        /\ stream'[c].version = opened_files[g].version
                        /\ stream'[c].text = opened_files[g].hash
                        /\ opened_files[g].version >= 1
    BY <1>1 DEF Current
  <2>1. PICK c \in DOMAIN stream :
          /\ IsLastText(stream, g, c) /\ IsLastRead(wire, stream, g, c)
          /\ stream[c].version = opened_files[g].version
          /\ stream[c].text = opened_files[g].hash
          /\ opened_files[g].version >= 1
    BY DEF FilesInv, Current
  <2>2. /\ c \in DOMAIN stream' /\ stream'[c] = stream[c]
        /\ IsLastText(stream', g, c) /\ IsLastRead(wire', stream', g, c)
    BY <1>1, <1>2, <2>1, CurrentKept
  <2> QED BY <2>1, <2>2
<1>5. /\ Len(stream') > 0 /\ stream'[Len(stream')] = DidClose(f)
      /\ stream' \in Seq(Messages)
  <2>1. /\ appended \in Nat /\ Len(stream') = appended + 1
        /\ stream'[appended + 1] = DidClose(f)
    BY <1>1, SaidFacts
  <2>2. stream' \in Seq(Messages)
    BY <1>1, AppendFacts DEF Typed, Says
  <2> QED BY <2>1, <2>2
<1>6. Openable(stream', f)
  BY <1>1, <1>5, ClosedNow
<1>7. \A g \in Files : Openable(stream, g) => Openable(stream', g)
  BY <1>1, <1>2, OpenableKept
<1>8. Syncing'
  <2>1. \A t \in Sessions : at'[t] = {} \/ \E g \in Files : at'[t] = {g}
    BY <1>1, <1>3 DEF FilesInv, Syncing
  <2>2. \A t \in Sessions : pc'[t] = "sendClose" /\ ~dangling'[t] =>
          \A g \in at'[t] : g \in Opened' /\ Openable(stream', g)
    <3> SUFFICES ASSUME NEW t \in Sessions, pc'[t] = "sendClose", ~dangling[t], NEW g \in at'[t]
                 PROVE  g \in Opened /\ Openable(stream', g)
      BY <1>1
    <3>1. CASE t = s
      BY <1>3, <1>6, <3>1
    <3>2. CASE t # s
      <4>1. g \in Opened /\ Openable(stream, g)
        BY <1>3, <3>2 DEF FilesInv, Syncing
      <4> QED BY <1>1, <1>7, <4>1
    <3> QED BY <3>1, <3>2
  <2>3. \A t \in Sessions : rest'[t] \subseteq Opened'
    BY <1>1 DEF FilesInv, Syncing
  <2>4. \A g \in Files \ Opened' : Openable(stream', g)
    BY <1>1, <1>7 DEF FilesInv, Syncing
  <2> QED BY <2>1, <2>2, <2>3, <2>4 DEF Syncing
<1>9. Forgetting'
  <2>1. \A t \in Sessions : pc'[t] = "sendClose" => op'[t].n > 0
    BY <1>1, OverlapFacts DEF FilesInv, Forgetting
  <2>2. ~overlapped' => \A t \in Sessions : pc'[t] = "sendClose" => t = s
    BY <1>1, OverlapFacts DEF FilesInv
  <2>3. ~overlapped' => \A g \in Files \ Opened' : Closed(stream', g)
    BY <1>1, <1>2, OverlapFacts, ClosedKept DEF FilesInv, Forgetting
  <2>4. ~overlapped' => \A t \in Sessions : pc'[t] = "sendClose" =>
          \A g \in at'[t] : Len(stream') > 0 /\ stream'[Len(stream')] = DidClose(g)
    BY <1>3, <1>5, <2>2
  <2>5. ~overlapped' => \A g \in Opened' : g # f => StillOpen(stream', g)
    BY <1>1, NoneClosing, StillKept, CloseFacts DEF FilesInv
  <2>6. f \in at'[s]
    BY <1>3
  <2> QED BY <2>1, <2>3, <2>4, <2>5, <2>6 DEF Forgetting
<1> QED BY <1>4, <1>8, <1>9 DEF FilesInv

(* The write of the didClose is complete and the file is erased.            *)
LEMMA FilesErased ==
  ASSUME Typed, FilesInv, NEW s \in Sessions, Complete(s), EraseClosed(s),
         pc[s] = "sendClose", ~dangling[s], stream' = stream, Goto(s, "close")
  PROVE  FilesInv'
<1>1. /\ UNCHANGED <<wire, overlapped>>
      /\ \A t \in Sessions : t # s => op'[t] = op[t]
  BY CompleteFacts DEF Typed, TypeOK
<1>2. /\ Opened' = Opened \ at[s]
      /\ \A g \in Opened' : opened_files'[g] = opened_files[g]
  BY DEF EraseClosed, Opened
<1>3. /\ \A t \in Sessions : rest'[t] = rest[t] \ at[s]
      /\ at'[s] = {} /\ \A t \in Sessions : t # s => at'[t] = at[t]
  BY DEF EraseClosed, Typed, TypeOK
<1>4. \A t \in Sessions : ~dangling'[t] =>
        ~dangling[t] /\ ~(t # s /\ at[t] # {} /\ at[t] = at[s])
  BY Zenon DEF EraseClosed
<1>5. pc'[s] = "close" /\ \A t \in Sessions : t # s => pc'[t] = pc[t]
  BY DEF Goto, Typed, TypeOK
<1>6. Current'
  BY <1>1, <1>2 DEF FilesInv, Current
<1>7. Syncing'
  <2>1. \A t \in Sessions : rest'[t] \subseteq Opened'
    BY <1>2, <1>3 DEF FilesInv, Syncing
  <2>2. \A t \in Sessions : at'[t] = {} \/ \E g \in Files : at'[t] = {g}
    BY <1>3 DEF FilesInv, Syncing
  <2>3. \A t \in Sessions : pc'[t] = "sendClose" /\ ~dangling'[t] =>
          \A g \in at'[t] : g \in Opened' /\ Openable(stream', g)
    <3> SUFFICES ASSUME NEW t \in Sessions, pc'[t] = "sendClose", ~dangling'[t], NEW g \in at'[t]
                 PROVE  g \in Opened' /\ Openable(stream', g)
      OBVIOUS
    <3>1. t # s /\ pc[t] = "sendClose" /\ g \in at[t] /\ ~dangling[t] /\ at[t] # at[s]
      BY <1>3, <1>4, <1>5
    <3>2. g \in Opened /\ Openable(stream, g)
      BY <3>1 DEF FilesInv, Syncing
    <3>3. g \notin at[s]
      BY <3>1 DEF FilesInv, Syncing
    <3> QED BY <1>2, <3>2, <3>3
  <2>4. \A g \in Files \ Opened' : Openable(stream', g)
    BY <1>2 DEF FilesInv, Syncing
  <2> QED BY <2>1, <2>2, <2>3, <2>4 DEF Syncing
<1>8. Forgetting'
  <2>1. \A t \in Sessions : pc'[t] = "sendClose" => t # s /\ pc[t] = "sendClose"
    BY <1>5
  <2>2. \A t \in Sessions : pc'[t] = "sendClose" => op'[t].n > 0
    BY <1>1, <2>1 DEF FilesInv, Forgetting
  <2>3. ~overlapped' => \A t \in Sessions : pc'[t] = "sendClose" =>
          \A g \in at'[t] : Len(stream') > 0 /\ stream'[Len(stream')] = DidClose(g)
    BY <1>1, <1>3, <2>1 DEF FilesInv, Forgetting
  <2>4. ~overlapped' => \A g \in Files \ Opened' : Closed(stream', g)
    <3> SUFFICES ASSUME ~overlapped, NEW g \in Files \ Opened'
                 PROVE  Closed(stream, g)
      BY <1>1
    <3>1. CASE g \in at[s]
      <4>1. Len(stream) > 0 /\ stream[Len(stream)] = DidClose(g)
        BY <3>1 DEF FilesInv, Forgetting
      <4> QED BY <4>1, ClosedNow DEF Typed
    <3>2. CASE g \notin at[s]
      BY <1>2, <3>2 DEF FilesInv, Forgetting
    <3> QED BY <3>1, <3>2
  <2>5. ~overlapped' => \A g \in Opened' :
          (\A t \in Sessions : pc'[t] = "sendClose" => g \notin at'[t]) => StillOpen(stream', g)
    <3> SUFFICES ASSUME ~overlapped, NEW g \in Opened',
                        \A t \in Sessions : pc'[t] = "sendClose" => g \notin at'[t]
                 PROVE  StillOpen(stream, g)
      BY <1>1
    <3>1. \A t \in Sessions : pc[t] = "sendClose" => g \notin at[t]
      BY <1>2, <1>3, <1>5
    <3> QED BY <1>2, <3>1 DEF FilesInv, Forgetting
  <2> QED BY <2>2, <2>3, <2>4, <2>5 DEF Forgetting
<1> QED BY <1>6, <1>7, <1>8 DEF FilesInv

LEMMA FilesStep ==
  ASSUME Typed, VersionsConsecutive, ClosedStaysClosed, status = "up", child # "dead",
         FilesInv, Next
  PROVE  VersionsConsecutive' /\ ClosedStaysClosed' /\ (status' = "up" => FilesInv')
<1> DEFINE Ordered == VersionsConsecutive' /\ ClosedStaysClosed'
           Goal == Ordered /\ (status' = "up" => FilesInv')
           Quiet == UNCHANGED <<stream, senderVars>>
           SameClose == \A t \in Sessions : pc'[t] = "sendClose" <=> pc[t] = "sendClose"
           Elsewhere(s) ==
             \A t \in Sessions : pc'[t] = "sendClose" => t # s /\ pc[t] = "sendClose"
           RestOpened == \A t \in Sessions : rest'[t] \subseteq Opened
<1>a. stream' = stream /\ overlapped' = overlapped => Ordered
  BY DEF VersionsConsecutive, ClosedStaysClosed
<1>b. ASSUME Quiet, UNCHANGED <<opened_files, at, dangling>>, SameClose, RestOpened
      PROVE  Goal
  BY <1>a, <1>b, FilesKept DEF senderVars
<1>c. ASSUME stream' = stream, overlapped' = overlapped, status' # "up" PROVE Goal
  BY <1>a, <1>c
<1>d. ASSUME NEW s \in Sessions, NEW x \in Places \ {"sendClose"}, Goto(s, x)
      PROVE  Elsewhere(s) /\ (pc[s] # "sendClose" => SameClose)
  BY <1>d DEF Goto, Typed, TypeOK
<1>e. rest' = rest => RestOpened
  BY DEF FilesInv, Syncing
<1>f. ASSUME NEW s \in Sessions, NEW m \in Messages, Says(s, m), \A f \in Files : ~IsText(m, f)
      PROVE  VersionsConsecutive'
  BY <1>f, VersionsKept
<1>g. ASSUME NEW s \in Sessions, NEW m \in Messages, SendTo(s, m) PROVE Says(s, m)
  BY <1>g DEF SendTo, Says
<1>h. ASSUME NEW s \in Sessions, NEW m \in Messages, Says(s, m),
             \A f \in Files : m = DidClose(f) \/ (IsText(m, f) /\ m.version # 1) => f \in Opened
      PROVE  ClosedStaysClosed'
  BY <1>h, OverlapFacts, NoneClosing, OrderKept DEF FilesInv
<1> USE DEF Leave, Continue
<1>1. ASSUME NEW s \in Sessions, RequestArrives(s) PROVE Goal
  <2>1. CASE EventArrives(s) \/ CompletionArrives(s) \/ InitFindsNoClangd(s)
    <3>1. Quiet /\ UNCHANGED <<opened_files, at, dangling, rest>>
      BY <2>1 DEF EventArrives, CompletionArrives, InitFindsNoClangd
    <3>2. (Goto(s, "files") \/ Goto(s, "done")) /\ pc[s] = "idle"
      BY <2>1 DEF EventArrives, CompletionArrives, InitFindsNoClangd, FirstEvent,
                  HandleEventNotification
    <3>3. SameClose
      BY <3>2, <1>d DEF Places
    <3> QED BY <3>1, <3>3, <1>b, <1>e
  <2>2. CASE InitStartsClangd(s)
    <3>1. Says(s, Request("initialize", next_id)) /\ Goto(s, "awaitInit") /\ next_id \in Nat
          /\ UNCHANGED <<opened_files, at, dangling, rest>>
      BY <2>2 DEF InitStartsClangd, Says, Typed, TypeOK
    <3>2. Elsewhere(s)
      BY <3>1, <1>d DEF Places
    <3>3. FilesInv'
      BY <3>1, <3>2, MessagesTyped, TextFacts, CloseFacts, FilesAsked
    <3> QED BY <3>1, <3>3, <1>f, <1>h, MessagesTyped, TextFacts, CloseFacts
  <2>3. CASE InitCannotSpawn(s)
    BY <2>3, <1>c DEF InitCannotSpawn, senderVars
  <2> QED BY <1>1, <2>1, <2>2, <2>3 DEF RequestArrives
<1>2. ASSUME NEW s \in Sessions, SessionRuns(s) PROVE Goal
  <2>1. CASE AfterInit(s) \/ EventSynced(s)
    <3>1. Quiet /\ UNCHANGED <<opened_files, at, dangling, rest>>
      BY <2>1 DEF AfterInit, EventSynced
    <3>2. (Goto(s, "files") \/ Goto(s, "done")) /\ pc[s] # "sendClose"
      BY <2>1 DEF AfterInit, EventSynced, HandleEventNotification, Runs
    <3>3. SameClose
      BY <3>2, <1>d DEF Places
    <3> QED BY <3>1, <3>3, <1>b, <1>e
  <2>2. CASE BeginClosing(s)
    <3>1. Quiet /\ UNCHANGED <<opened_files, at, dangling>> /\ Goto(s, "close")
          /\ pc[s] # "sendClose"
      BY <2>2 DEF BeginClosing, Runs
    <3>2. SameClose
      BY <3>1, <1>d DEF Places
    <3>3. RestOpened
      BY <2>2 DEF BeginClosing, FilesInv, Syncing, Typed, TypeOK
    <3> QED BY <3>1, <3>2, <3>3, <1>b
  <2>3. CASE CompletionSynced(s)
    <3>1. /\ SendTo(s, Request("textDocument/completion", next_id)) /\ next_id \in Nat
          /\ Goto(s, "awaitCompletion") /\ UNCHANGED <<opened_files, at, dangling, rest>>
      BY <2>3 DEF CompletionSynced, AskClangd, Typed, TypeOK
    <3>2. Elsewhere(s)
      BY <3>1, <1>d DEF Places
    <3>3. Request("textDocument/completion", next_id) \in Messages
      BY <3>1, MessagesTyped
    <3>4. CASE Says(s, Request("textDocument/completion", next_id))
      <4>1. FilesInv'
        BY <3>1, <3>2, <3>3, <3>4, TextFacts, CloseFacts, FilesAsked
      <4> QED BY <3>3, <3>4, <4>1, <1>f, <1>h, TextFacts, CloseFacts
    <3> QED BY <3>1, <3>3, <3>4, <1>g
  <2>4. ASSUME NEW f \in Files, VisitFile(s, f) PROVE Goal
    <3>0. UNCHANGED <<at, dangling>>
      BY <2>4 DEF VisitFile
    <3>1. req[s].files[f] \in Contents
      BY <2>4, RequestTyped DEF VisitFile, Typed
    <3>2. CASE OpenFile(s, f)
      <4> DEFINE hash == req[s].files[f]
                 m == DidOpen(f, hash)
      <4>1. /\ m \in Messages /\ m.version = 1 /\ m.text = hash
            /\ \A g \in Files : IsText(m, g) <=> g = f
        BY <3>1, MessagesTyped, TextFacts
      <4>2. /\ f \notin Opened /\ Opened' = Opened \cup {f}
            /\ opened_files'[f] = [version |-> 1, hash |-> hash]
            /\ \A g \in Opened : g # f => opened_files'[g] = opened_files[g]
            /\ SendTo(s, m) /\ Goto(s, "sendFile")
        BY <3>2 DEF OpenFile, Opened
      <4>3. \A t \in Sessions : rest'[t] \subseteq Opened'
        <5>1. \A t \in Sessions : rest[t] \subseteq Opened
          BY DEF FilesInv, Syncing
        <5>2. \A t \in Sessions :
                \/ rest'[t] = rest[t]
                \/ rest'[t] \subseteq ((Opened \cup {f}) \ FileData(t)) \ at[t]
          BY <3>2 DEF OpenFile, IteratorsAfterEmplace
        <5> QED BY <4>2, <5>1, <5>2
      <4>4. Elsewhere(s)
        BY <4>2, <1>d DEF Places
      <4> HIDE DEF m, hash
      <4>5. CASE Says(s, m)
        <5>1. FilesInv'
          BY <3>0, <4>1, <4>2, <4>3, <4>4, <4>5, FilesSaid
        <5>2. \A i \in DOMAIN stream :
                IsText(stream[i], f) =>
                  /\ stream[i].version = 1 /\ m.version = 1 => ClosedAfter(stream, f, i)
                  /\ m.version \in {1, stream[i].version + 1}
          BY <4>1, <4>2 DEF FilesInv, Syncing, Openable
        <5>3. VersionsConsecutive'
          BY <4>1, <4>5, <5>2, VersionsKept
        <5>4. ClosedStaysClosed'
          <6>1. \A g \in Files : m # DidClose(g)
            BY <4>1, TextFacts
          <6> QED BY <4>1, <4>5, <6>1, <1>h
        <5> QED BY <5>1, <5>3, <5>4
      <4> QED BY <4>1, <4>2, <4>5, <1>g
    <3>3. CASE ChangeFile(s, f)
      <4> DEFINE hash == req[s].files[f]
                 version == opened_files[f].version
                 m == DidChange(f, version + 1, hash)
      <4>0. f \in Opened /\ version \in Nat /\ version >= 1
        BY <3>3 DEF ChangeFile, Typed, TypeOK, FilesInv, Current
      <4>1. /\ m \in Messages /\ m.version = version + 1 /\ m.text = hash
            /\ \A g \in Files : IsText(m, g) <=> g = f
        BY <3>1, <4>0, MessagesTyped, TextFacts
      <4>2. /\ Opened' = Opened \cup {f}
            /\ opened_files'[f] = [version |-> version + 1, hash |-> hash]
            /\ \A g \in Opened : g # f => opened_files'[g] = opened_files[g]
            /\ SendTo(s, m) /\ Goto(s, "sendFile") /\ rest' = rest
        BY <3>3 DEF ChangeFile, Opened
      <4>3. \A t \in Sessions : rest'[t] \subseteq Opened'
        BY <4>2 DEF FilesInv, Syncing
      <4>4. Elsewhere(s)
        BY <4>2, <1>d DEF Places
      <4>5. PICK c \in DOMAIN stream : IsLastText(stream, f, c) /\ stream[c].version = version
        BY <4>0 DEF FilesInv, Current
      <4> HIDE DEF m, hash, version
      <4>6. m.version >= 1 /\ m.version # 1
        BY <4>0, <4>1
      <4>7. CASE Says(s, m)
        <5>1. FilesInv'
          BY <3>0, <4>1, <4>2, <4>3, <4>4, <4>6, <4>7, FilesSaid
        <5>2. \A i \in DOMAIN stream : IsLastText(stream, f, i) => i = c
          <6>1. DOMAIN stream = 1..Len(stream) /\ Len(stream) \in Nat
            BY DEF Typed
          <6> QED BY <4>5, <6>1 DEF IsLastText
        <5>3. \A i \in DOMAIN stream :
                IsText(stream[i], f) =>
                  /\ stream[i].version = 1 /\ m.version = 1 => ClosedAfter(stream, f, i)
                  /\ IsLastText(stream, f, i) => m.version \in {1, stream[i].version + 1}
          BY <4>1, <4>5, <4>6, <5>2
        <5>4. VersionsConsecutive'
          BY <4>1, <4>7, <5>3, VersionsKept
        <5>5. ClosedStaysClosed'
          <6>1. \A g \in Files : m # DidClose(g)
            BY <4>1, TextFacts
          <6> QED BY <4>0, <4>1, <4>7, <6>1, <1>h
        <5> QED BY <5>1, <5>4, <5>5
      <4> QED BY <4>1, <4>2, <4>7, <1>g
    <3>4. CASE KeepFile(s, f)
      <4>1. Quiet /\ UNCHANGED <<opened_files, rest, pc>>
        BY <3>4 DEF KeepFile
      <4> QED BY <3>0, <4>1, <1>b, <1>e
    <3> QED BY <2>4, <3>2, <3>3, <3>4 DEF VisitFile
  <2>5. ASSUME NEW f \in Files, CloseFile(s, f) PROVE Goal
    <3>1. /\ SendTo(s, DidClose(f)) /\ UNCHANGED <<opened_files, dangling>>
          /\ at' = [at EXCEPT ![s] = {f}] /\ Goto(s, "sendClose") /\ pc[s] = "close"
          /\ f \in rest[s] /\ rest' = [rest EXCEPT ![s] = @ \ {f}]
      BY <2>5 DEF CloseFile, Runs
    <3>2. f \in Opened
      BY <3>1 DEF FilesInv, Syncing
    <3>3. \A t \in Sessions : rest'[t] \subseteq rest[t]
      BY <3>1 DEF Typed, TypeOK
    <3>4. /\ pc'[s] = "sendClose"
          /\ \A t \in Sessions : pc'[t] = "sendClose" => t = s \/ pc[t] = "sendClose"
      BY <3>1 DEF Goto, Typed, TypeOK
    <3>5. DidClose(f) \in Messages
      BY MessagesTyped
    <3>6. CASE Says(s, DidClose(f))
      <4>1. FilesInv'
        BY <3>1, <3>2, <3>3, <3>4, <3>6, FilesClosing
      <4>2. ClosedStaysClosed'
        <5>1. \A g \in Files : DidClose(f) = DidClose(g) => g \in Opened
          BY <3>2, CloseFacts
        <5> QED BY <3>5, <3>6, <5>1, <1>h, TextFacts
      <4> QED BY <3>5, <3>6, <4>1, <4>2, <1>f, TextFacts
    <3> QED BY <3>1, <3>5, <3>6, <1>g
  <2> QED BY <1>2, <2>1, <2>2, <2>3, <2>4, <2>5 DEF SessionRuns
<1>3. ASSUME NEW s \in Sessions, WriteDone(s) PROVE Goal
  <2>1. Complete(s) /\ stream' = stream
    BY <1>3 DEF WriteDone
  <2>2. /\ UNCHANGED <<wire, overlapped>>
        /\ \A t \in Sessions : t # s => op'[t] = op[t]
    BY <2>1, CompleteFacts DEF Typed, TypeOK
  <2>3. CASE pc[s] = "sendFile" /\ Continue(s, "files")
             /\ UNCHANGED <<opened_files, rest, at, dangling>>
    <3>1. Elsewhere(s) /\ SameClose
      BY <2>3, <1>d DEF Places
    <3> QED BY <2>1, <2>2, <2>3, <3>1, <1>a, <1>e, FilesKept
  <2>4. CASE pc[s] = "sendClose" /\ ~dangling[s] /\ Continue(s, "close") /\ EraseClosed(s)
    BY <2>1, <2>2, <2>4, <1>a, FilesErased
  <2>5. CASE status' = "aborted"
    BY <2>1, <2>2, <2>5, <1>c
  <2>6. CASE pc[s] \in {"awaitInit", "awaitCompletion"}
             /\ UNCHANGED <<pc, opened_files, rest, at, dangling>>
    <3>1. \A t \in Sessions : pc'[t] = "sendClose" => op'[t] = op[t]
      BY <2>2, <2>6
    <3> QED BY <2>1, <2>2, <2>6, <3>1, <1>a, <1>e, FilesKept
  <2> QED BY <1>3, <2>3, <2>4, <2>5, <2>6 DEF WriteDone
<1>4. ASSUME MessagePump PROVE Goal
  <2>1. ASSUME NEW p \in pending_requests, PumpAnswers(p) PROVE Goal
    <3>1. p.handler \in Sessions /\ Quiet /\ UNCHANGED <<opened_files, at, dangling, rest>>
      BY <2>1 DEF PumpAnswers, Typed, TypeOK
    <3>2. \/ pc' = pc
          \/ pc[p.handler] # "sendClose"
             /\ (Goto(p.handler, "afterInit") \/ Goto(p.handler, "done"))
      BY <2>1 DEF PumpAnswers, Resume
    <3>3. SameClose
      BY <3>1, <3>2, <1>d DEF Places
    <3> QED BY <3>1, <3>3, <1>b, <1>e
  <2>2. CASE PumpIgnores \/ PumpEnds
    <3>1. Quiet /\ UNCHANGED <<opened_files, at, dangling, rest, pc>>
      BY <2>2 DEF PumpIgnores, PumpEnds, sessionVars
    <3> QED BY <3>1, <1>b, <1>e
  <2> QED BY <1>4, <2>1, <2>2 DEF MessagePump
<1>5. ASSUME ClangdReads \/ Answering \/ ClangdDies PROVE Goal
  <2>1. Quiet /\ UNCHANGED <<opened_files, at, dangling, rest, pc>>
    BY <1>5 DEF ClangdReads, Answering, ClangdAnswers, ClangdDies, ycmdVars, sessionVars
  <2> QED BY <2>1, <1>b, <1>e
<1>6. \A s \in Sessions : ~WriteFails(s)
  BY DEF WriteFails
<1> QED BY <1>1, <1>2, <1>3, <1>4, <1>5, <1>6 DEF Next
----------------------------------------------------------------------------
(* A clangd that is dead stays so, and nothing more is said to it.          *)
Spawned == child # "none" => engaged

LEMMA SpawnedStep ==
  ASSUME Spawned, Next
  PROVE  Spawned' /\ (child = "dead" => child' = "dead" /\ UNCHANGED <<stream, overlapped>>)
<1> DEFINE Silent == UNCHANGED <<stream, overlapped>>
           Goal == Spawned' /\ (child = "dead" => child' = "dead" /\ Silent)
<1>a. UNCHANGED <<child, engaged>> /\ (Silent \/ child # "dead") => Goal
  BY DEF Spawned
<1>b. ASSUME NEW s \in Sessions, NEW m, SendTo(s, m) PROVE Silent \/ child # "dead"
  BY <1>b DEF SendTo, senderVars
<1>1. ASSUME NEW s \in Sessions, RequestArrives(s) PROVE Goal
  <2>1. CASE EventArrives(s) \/ CompletionArrives(s)
    BY <2>1, <1>a DEF EventArrives, CompletionArrives, clangdVars, senderVars
  <2>2. CASE InitStartsClangd(s)
    BY <2>2 DEF InitStartsClangd, FirstEvent, Spawned
  <2>3. CASE InitFindsNoClangd(s) \/ InitCannotSpawn(s)
    BY <2>3 DEF InitFindsNoClangd, InitCannotSpawn, FirstEvent, Spawned, clangdVars
  <2> QED BY <1>1, <2>1, <2>2, <2>3 DEF RequestArrives
<1>2. ASSUME NEW s \in Sessions, SessionRuns(s) PROVE Goal
  <2>1. CASE AfterInit(s) \/ BeginClosing(s) \/ EventSynced(s)
    BY <2>1, <1>a DEF AfterInit, BeginClosing, EventSynced, clangdVars, senderVars
  <2>2. CASE CompletionSynced(s)
    BY <2>2, <1>a, <1>b DEF CompletionSynced, AskClangd, clangdVars
  <2>3. ASSUME NEW f \in Files, VisitFile(s, f) PROVE Goal
    <3>1. Silent \/ child # "dead"
      BY <2>3, <1>b DEF VisitFile, OpenFile, ChangeFile, KeepFile, senderVars
    <3> QED BY <2>3, <3>1, <1>a DEF VisitFile, clangdVars
  <2>4. ASSUME NEW f \in Files, CloseFile(s, f) PROVE Goal
    BY <2>4, <1>a, <1>b DEF CloseFile, clangdVars
  <2> QED BY <1>2, <2>1, <2>2, <2>3, <2>4 DEF SessionRuns
<1>3. ASSUME NEW s \in Sessions, WriteDone(s) \/ WriteFails(s) PROVE Goal
  BY <1>3, <1>a DEF WriteDone, Complete, WriteFails, clangdVars, senderVars
<1>4. ASSUME MessagePump PROVE Goal
  BY <1>4, <1>a DEF MessagePump, PumpAnswers, PumpIgnores, PumpReads, PumpEnds,
                    clangdVars, senderVars
<1>5. ASSUME ClangdReads \/ Answering \/ ClangdDies PROVE Goal
  BY <1>5 DEF ClangdReads, Answering, ClangdAnswers, ClangdDies, ycmdVars, senderVars,
              Spawned
<1> QED BY <1>1, <1>2, <1>3, <1>4, <1>5 DEF Next

(* The invariant.  Once ycmd is down nothing happens any more, and once     *)
(* clangd is dead nothing reaches it, but what was said and read stays in   *)
(* order.                                                                   *)
ClangdInv ==
  /\ Typed
  /\ Spawned
  /\ PendingAwaited
  /\ InitializeFirst
  /\ VersionsConsecutive /\ ClosedStaysClosed
  /\ status = "up" => Readiness
  /\ status = "up" /\ child # "dead" => FilesInv

LEMMA InitInv == Init => ClangdInv
<1> SUFFICES ASSUME Init PROVE ClangdInv
  OBVIOUS
<1>1. Typed
  BY TypedInit
<1>2. PendingAwaited
  BY DEF Init, PendingAwaited, Awaiting
<1>3. appended = 0 /\ consumed = 0 /\ wire = <<>> /\ stream = <<>> /\ Opened = {}
  BY DEF Init, SendInit, Opened
<1>4. DOMAIN stream = {} /\ DOMAIN wire = {} /\ Len(wire) = 0
  BY <1>3
<1>5. InitializeFirst /\ VersionsConsecutive /\ ClosedStaysClosed
  BY <1>4 DEF InitializeFirst, VersionsConsecutive, ClosedStaysClosed
<1>6. Readiness
  BY <1>3 DEF Init, Readiness
<1>7. FilesInv
  <2>1. Current
    BY <1>3 DEF Current
  <2>2. Syncing
    BY <1>4 DEF Init, Syncing, Openable
  <2>3. Forgetting
    BY <1>3, <1>4 DEF Init, Forgetting, Closed
  <2> QED BY <2>1, <2>2, <2>3 DEF FilesInv
<1>8. Spawned
  BY DEF Init, Spawned
<1> QED BY <1>1, <1>2, <1>5, <1>6, <1>7, <1>8 DEF ClangdInv

LEMMA OnlyWhileUp ==
  ASSUME Next
  PROVE  status = "up"
<1>1. ASSUME NEW s \in Sessions, RequestArrives(s) PROVE status = "up"
  BY <1>1 DEF RequestArrives, EventArrives, CompletionArrives, InitStartsClangd,
              InitFindsNoClangd, InitCannotSpawn, FirstEvent, Free
<1>2. ASSUME NEW s \in Sessions, SessionRuns(s) PROVE status = "up"
  BY <1>2 DEF SessionRuns, AfterInit, VisitFile, CloseFile, BeginClosing, EventSynced,
              CompletionSynced, Runs
<1>3. ASSUME NEW s \in Sessions, WriteDone(s) PROVE status = "up"
  BY <1>3 DEF WriteDone, Free
<1>4. ASSUME MessagePump \/ ClangdReads \/ Answering \/ ClangdDies PROVE status = "up"
  BY <1>4 DEF MessagePump, PumpAnswers, PumpIgnores, PumpReads, PumpEnds, ClangdReads,
              Answering, ClangdAnswers, ClangdDies, Free
<1>5. ASSUME NEW s \in Sessions, WriteFails(s) PROVE status = "up"
  BY <1>5 DEF WriteFails, Free
<1> QED BY <1>1, <1>2, <1>3, <1>4, <1>5 DEF Next

LEMMA StepInv == ClangdInv /\ [Next]_vars => ClangdInv'
<1>1. ASSUME ClangdInv, Next PROVE ClangdInv'
  <2>1. /\ status = "up" /\ Typed /\ Spawned /\ PendingAwaited /\ InitializeFirst
        /\ VersionsConsecutive /\ ClosedStaysClosed /\ Readiness
        /\ child # "dead" => FilesInv
    BY <1>1, OnlyWhileUp DEF ClangdInv
  <2>2. Typed'
    BY <1>1, <2>1, TypedStep
  <2>3. PendingAwaited'
    BY <1>1, <2>1, PendingStep
  <2>4. InitializeFirst' /\ (status' = "up" => Readiness')
    BY <1>1, <2>1, HandshakeStep
  <2>5. Spawned' /\ (child = "dead" => child' = "dead" /\ UNCHANGED <<stream, overlapped>>)
    BY <1>1, <2>1, SpawnedStep
  <2>6. /\ VersionsConsecutive' /\ ClosedStaysClosed'
        /\ status' = "up" /\ child' # "dead" => FilesInv'
    <3>1. CASE child = "dead"
      BY <3>1, <2>1, <2>5 DEF VersionsConsecutive, ClosedStaysClosed
    <3>2. CASE child # "dead"
      BY <3>2, <1>1, <2>1, FilesStep
    <3> QED BY <3>1, <3>2
  <2> QED BY <2>2, <2>3, <2>4, <2>5, <2>6 DEF ClangdInv
<1>2. ASSUME ClangdInv, UNCHANGED vars PROVE ClangdInv'
  <2>1. Typed'
    BY <1>2, TypedStep DEF ClangdInv
  <2>2. PendingAwaited'
    BY <1>2 DEF ClangdInv, vars, sessionVars, PendingAwaited, Awaiting
  <2>3. InitializeFirst' /\ VersionsConsecutive' /\ ClosedStaysClosed' /\ Spawned'
    BY <1>2 DEF ClangdInv, vars, senderVars, clangdVars, InitializeFirst,
                VersionsConsecutive, ClosedStaysClosed, Spawned
  <2>4. status' = "up" => Readiness'
    BY <1>2 DEF ClangdInv, vars, sessionVars, senderVars, Readiness
  <2>5. status' = "up" /\ child' # "dead" => FilesInv'
    BY <1>2 DEF ClangdInv, vars, sessionVars, senderVars, clangdVars, FilesInv, Current,
                Syncing, Forgetting, Opened
  <2> QED BY <2>1, <2>2, <2>3, <2>4, <2>5 DEF ClangdInv
<1> QED BY <1>1, <1>2

LEMMA AlwaysClangdInv == Spec => []ClangdInv
  BY InitInv, StepInv, PTL DEF Spec

(* The variables of the completer, its sessions and its sender keep their   *)
(* shapes.                                                                  *)
THEOREM TypeCorrect == Spec => []TypeOK
<1>1. ClangdInv => TypeOK
  BY DEF ClangdInv, Typed
<1> QED BY <1>1, AlwaysClangdInv, PTL

(* The entries of pending_requests are the sessions that wait, one each: a  *)
(* response resumes the session that asked.                                 *)
THEOREM RequestsMatchWaiters == Spec => []PendingAwaited
<1>1. ClangdInv => PendingAwaited
  BY DEF ClangdInv
<1> QED BY <1>1, AlwaysClangdInv, PTL

(* initialize is the first message clangd reads, once, and nothing follows  *)
(* it before its response has arrived.                                      *)
THEOREM HandshakeComesFirst == Spec => []HandshakeFirst
<1>1. ClangdInv => HandshakeFirst
  BY HandshakeHolds DEF ClangdInv
<1> QED BY <1>1, AlwaysClangdInv, PTL

(* The texts of a file are numbered consecutively and a didClose is sent    *)
(* between two didOpens of it, by however many overlapping sync_files.      *)
THEOREM VersionsAreConsecutive == Spec => []VersionsConsecutive
<1>1. ClangdInv => VersionsConsecutive
  BY DEF ClangdInv
<1> QED BY <1>1, AlwaysClangdInv, PTL

(* Without overlapping sends, a closed file is neither changed nor closed   *)
(* again before it is opened again.                                         *)
THEOREM ClosedFilesStayClosed == Spec => []ClosedStaysClosed
<1>1. ClangdInv => ClosedStaysClosed
  BY DEF ClangdInv
<1> QED BY <1>1, AlwaysClangdInv, PTL

(* While ycmd is up and clangd lives, clangd reads last of a file what ycmd *)
(* has recorded in opened_files, although overlapping sends repeat older    *)
(* messages.                                                                *)
THEOREM TextsAreCurrent == Spec => []LastTextIsCurrent
<1>1. ASSUME ClangdInv PROVE LastTextIsCurrent
  <2> SUFFICES ASSUME status = "up", child # "dead", NEW f \in Opened
               PROVE  \E i \in DOMAIN wire :
                        /\ IsText(stream[wire[i]], f)
                        /\ stream[wire[i]].version = opened_files[f].version
                        /\ stream[wire[i]].text = opened_files[f].hash
                        /\ \A j \in (i + 1)..Len(wire) :
                             IsText(stream[wire[j]], f) => wire[j] = wire[i]
    BY DEF LastTextIsCurrent
  <2>1. PICK c \in DOMAIN stream :
          /\ IsLastText(stream, f, c) /\ IsLastRead(wire, stream, f, c)
          /\ stream[c].version = opened_files[f].version
          /\ stream[c].text = opened_files[f].hash
    BY <1>1 DEF ClangdInv, FilesInv, Current
  <2>2. PICK i \in DOMAIN wire :
          wire[i] = c /\ \A j \in (i + 1)..Len(wire) : IsText(stream[wire[j]], f) => wire[j] = c
    BY <2>1 DEF IsLastRead
  <2> QED BY <2>1, <2>2 DEF IsLastText
<1> QED BY <1>1, AlwaysClangdInv, PTL

(* While clangd lives and without overlapping sends, a file that is not in  *)
(* opened_files was closed after its last text.                             *)
THEOREM ForgottenFilesAreClosed == Spec => []ForgottenWasClosed
<1>1. ClangdInv => ForgottenWasClosed
  BY DEF ClangdInv, FilesInv, Forgetting, Closed, ClosedAfter, ForgottenWasClosed
<1> QED BY <1>1, AlwaysClangdInv, PTL
=============================================================================
