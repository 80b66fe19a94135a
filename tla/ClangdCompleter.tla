--------------------------- MODULE ClangdCompleter ---------------------------
(***************************************************************************)
(* The clangd completer (src/src/completers/cpp/clangd_completer.cpp), as  *)
(* driven by the handlers of event notifications and completions           *)
(* (src/src/handlers.cpp), and the language server behind it.              *)
(*                                                                         *)
(* All coroutines run on one asio io_context thread: `running` is the      *)
(* session whose code the thread is executing.  A session gives the thread *)
(* up only where the code suspends: in send_notification (until the write  *)
(* is complete) and in get_response (until the pump finds its response).   *)
(* While it runs, its loop steps are separate actions, but nothing else    *)
(* happens in between.                                                     *)
(*                                                                         *)
(* Messages to clangd go through the shared buffer of LspSend, here at     *)
(* message granularity: a frame is one cell and fits into the pipe, so a   *)
(* write transfers everything at once and only its completion is later.    *)
(*                                                                         *)
(* ycmd does not die of SIGPIPE: main holds a py::scoped_interpreter, and  *)
(* Python ignores that signal.  Writing to a clangd that has exited fails  *)
(* with an error, which throws in who awaits the write and is lost where   *)
(* nobody does.  A clangd that exits is never started again.               *)
(***************************************************************************)
EXTENDS Integers, Sequences, FiniteSets

CONSTANTS
  Sessions,      \* HTTP sessions; each serves one request
  Nobody,        \* the io_context thread is between handlers
  Files,
  Contents,      \* what XXH64 tells apart
  Requests,      \* the requests clients send: [kind, files]
  Workloads,     \* which session gets which request
  MaxMessages,   \* bound: messages sent to clangd in one behaviour
  Faults         \* what goes wrong around ycmd, see AllFaults

(* notFound: there is no clangd; spawnFails: process::child throws;        *)
(* dies: clangd exits; error: it answers a request with an error (without  *)
(* `data`, as clangd does); malformed: it sends something that is not      *)
(* JSON or not of the LSP type the pump converts it to.                    *)
AllFaults == {"notFound", "spawnFails", "dies", "error", "malformed"}

(* None: the client sends nothing.                                         *)
Kinds == {"FileReadyToParse", "OtherEvent", "Completion", "None"}

ASSUME FaultsAssumption == Faults \subseteq AllFaults
ASSUME WorkloadsAssumption == Workloads \subseteq [Sessions -> Requests]
ASSUME NobodyAssumption == Nobody \notin Sessions
ASSUME RequestsAssumption ==
  \A r \in Requests : /\ r.kind \in Kinds
                      /\ DOMAIN r.files \subseteq Files
                      /\ \A f \in DOMAIN r.files : r.files[f] \in Contents

VARIABLES
  status,             \* "up" or "aborted"
  running,
  engaged,            \* server.clangd_completer holds a completer
  initialised,
  next_id,
  pending_requests,   \* set of [id, handler]: handler is the awaiting session
  opened_files,       \* partial function from Files to [version, hash]
  pump,               \* message_pump: "off", "running" or "ended"
  pc, req,            \* per session: where it is, and its request
  todo,               \* per session: file_data still to visit
  rest,               \* per session: opened files iter has still to reach
  at,                 \* per session: the file iter points to
  dangling,           \* per session: another session erased that element
  stream,             \* what was sent to a clangd that lived, in call order
  appended, consumed, op, queue, wire, overlapped,   \* see LspSend
  child, rd, asked, replies, docs   \* clangd: process, messages read,
                                    \* ids to answer, answers, documents

INSTANCE LspSend WITH Writers <- Sessions, Lengths <- {1}, MaxCells <- MaxMessages

sessionVars == <<pc, req, todo, rest, at, dangling>>
senderVars == <<appended, consumed, op, queue, wire, overlapped>>
clangdVars == <<child, rd, asked, replies, docs>>
vars == <<status, running, engaged, initialised, next_id, pending_requests,
          opened_files, pump, sessionVars, stream, senderVars, clangdVars>>

Init ==
  /\ status = "up"
  /\ running = Nobody
  /\ engaged = FALSE
  /\ initialised = FALSE
  /\ next_id = 0
  /\ pending_requests = {}
  /\ opened_files = <<>>
  /\ pump = "off"
  /\ pc = [s \in Sessions |-> "idle"]
  /\ req \in Workloads
  /\ todo = [s \in Sessions |-> {}]
  /\ rest = [s \in Sessions |-> {}]
  /\ at = [s \in Sessions |-> {}]
  /\ dangling = [s \in Sessions |-> FALSE]
  /\ stream = <<>>
  /\ SendInit
  /\ child = "none" /\ rd = 0 /\ asked = <<>> /\ replies = <<>> /\ docs = {}

Opened == DOMAIN opened_files
FileData(s) == DOMAIN req[s].files
Free == status = "up" /\ running = Nobody
Runs(s, where) == status = "up" /\ running = s /\ pc[s] = where

(* One coroutine step: s goes on, suspends or finishes at `where`.         *)
Goto(s, where) == pc' = [pc EXCEPT ![s] = where]
Continue(s, where) == Goto(s, where) /\ running' = s
Leave(s, where) == Goto(s, where) /\ running' = Nobody
----------------------------------------------------------------------------
(* Messages to clangd.                                                     *)
URI(f) == [scheme |-> "file", path |-> f]
BarePath(f) == [scheme |-> "none", path |-> f]

Request(method, id) == [method |-> method, id |-> id]
DidOpen(f, hash) ==
  [method |-> "textDocument/didOpen", uri |-> URI(f), version |-> 1, text |-> hash]
DidChange(f, version, hash) ==
  [method |-> "textDocument/didChange", uri |-> URI(f), version |-> version,
   text |-> hash]
(* The code passes the file name where the type wants a DocumentURI.       *)
DidClose(f) == [method |-> "textDocument/didClose", uri |-> BarePath(f)]

(* send_message up to its suspension.  A write to a dead clangd transfers  *)
(* nothing and is not outstanding: it fails, see WriteFails.  (What it     *)
(* leaves in the buffer is read by no clangd.)                             *)
SendTo(s, m) ==
  \/ /\ child = "alive"
     /\ SendAtOnce(s, 1)
     /\ stream' = Append(stream, m)
  \/ /\ child = "dead"
     /\ UNCHANGED <<stream, senderVars>>

(* get_response up to its suspension: the pending entry is in place before *)
(* the request is sent, in the same handler.  The sender is spawned        *)
(* detached: if its write fails, the error is lost and s waits on.         *)
AskClangd(s, method) ==
  /\ next_id' = next_id + 1
  /\ pending_requests' = pending_requests \cup {[id |-> next_id, handler |-> s]}
  /\ SendTo(s, Request(method, next_id))
----------------------------------------------------------------------------
(* Handlers.                                                               *)

(* Mutant: a completer counts as ready before clangd's init response.       *)
ReadyWhenEngaged == engaged

(* The completer talks to clangd only once the init response is there.      *)
Ready == engaged /\ initialised

(* The completer exists: FileReadyToParse of an initialised completer      *)
(* starts sync_files, every other event is ignored.                        *)
HandleEventNotification(s) ==
  IF req[s].kind = "FileReadyToParse" /\ Ready
  THEN /\ Continue(s, "files")
       /\ todo' = [todo EXCEPT ![s] = FileData(s)]
  ELSE Leave(s, "done") /\ UNCHANGED todo

IsEvent(s) == req[s].kind \in {"FileReadyToParse", "OtherEvent"}

(* handle_event_notification when the optional is engaged (even if its     *)
(* init is still waiting for clangd).                                      *)
EventArrives(s) ==
  /\ Free /\ pc[s] = "idle" /\ IsEvent(s) /\ engaged
  /\ HandleEventNotification(s)
  /\ UNCHANGED <<status, engaged, initialised, next_id, pending_requests,
                 opened_files, pump, req, rest, at, dangling, stream, senderVars,
                 clangdVars>>

(* The first event of any kind engages the optional and runs init.         *)
FirstEvent(s) ==
  /\ Free /\ pc[s] = "idle" /\ IsEvent(s) /\ ~engaged
  /\ engaged' = TRUE

InitStartsClangd(s) ==
  /\ FirstEvent(s)
  /\ child' = "alive" /\ pump' = "running"
  /\ next_id' = next_id + 1
  /\ pending_requests' = pending_requests \cup {[id |-> next_id, handler |-> s]}
  /\ SendAtOnce(s, 1)
  /\ stream' = Append(stream, Request("initialize", next_id))
  /\ Leave(s, "awaitInit")
  /\ UNCHANGED <<status, initialised, opened_files, req, todo, rest, at, dangling,
                 rd, asked, replies, docs>>

InitFindsNoClangd(s) ==
  /\ "notFound" \in Faults
  /\ FirstEvent(s)
  /\ HandleEventNotification(s)
  /\ UNCHANGED <<status, initialised, next_id, pending_requests, opened_files, pump,
                 req, rest, at, dangling, stream, senderVars, clangdVars>>

(* An exception in a handler ends in abort(), see HttpServer.              *)
InitCannotSpawn(s) ==
  /\ "spawnFails" \in Faults
  /\ FirstEvent(s)
  /\ status' = "aborted"
  /\ UNCHANGED <<running, initialised, next_id, pending_requests, opened_files, pump,
                 sessionVars, stream, senderVars, clangdVars>>

(* init has returned: the event that started it is handled.                *)
AfterInit(s) ==
  /\ Runs(s, "afterInit")
  /\ HandleEventNotification(s)
  /\ UNCHANGED <<status, engaged, initialised, next_id, pending_requests,
                 opened_files, pump, req, rest, at, dangling, stream, senderVars,
                 clangdVars>>

(* compute_candiatdes.  Reading `initialised` through the disengaged       *)
(* optional is undefined; the server object is static and so zeroed, and   *)
(* the read gives false.                                                   *)
CompletionArrives(s) ==
  /\ Free /\ pc[s] = "idle" /\ req[s].kind = "Completion"
  /\ IF Ready
     THEN Continue(s, "files") /\ todo' = [todo EXCEPT ![s] = FileData(s)]
     ELSE Leave(s, "done") /\ UNCHANGED todo
  /\ UNCHANGED <<status, engaged, initialised, next_id, pending_requests,
                 opened_files, pump, req, rest, at, dangling, stream, senderVars,
                 clangdVars>>
----------------------------------------------------------------------------
(* sync_files.                                                             *)

(* Emplacing an element may rehash the table: what an iterator held across *)
(* a suspension has still to visit is then any set of the other elements   *)
(* (of those, the loop only acts on files that are not in its request).    *)
IteratorsAfterEmplace(s, f) ==
  rest' \in {r \in [Sessions -> SUBSET Files] :
               \A t \in Sessions :
                 IF t # s /\ pc[t] = "sendClose"
                 THEN r[t] \subseteq ((Opened \cup {f}) \ FileData(t)) \ at[t]
                 ELSE r[t] = rest[t]}

(* First loop, a file clangd does not know.                                *)
OpenFile(s, f) ==
  LET hash == req[s].files[f]
  IN  /\ f \notin Opened
      /\ opened_files' = [g \in Opened \cup {f} |->
                            IF g = f THEN [version |-> 1, hash |-> hash]
                            ELSE opened_files[g]]
      /\ SendTo(s, DidOpen(f, hash))
      /\ IteratorsAfterEmplace(s, f)
      /\ Leave(s, "sendFile")

(* Mutant: the new hash is not remembered.                                  *)
ChangeFileForgetsHash(s, f) ==
  LET hash == req[s].files[f]
      version == opened_files[f].version + 1
  IN  /\ f \in Opened
      /\ opened_files[f].hash # hash
      /\ opened_files' = [opened_files EXCEPT ![f].version = version]
      /\ SendTo(s, DidChange(f, version, hash))
      /\ UNCHANGED rest
      /\ Leave(s, "sendFile")

(* Mutant: the version is incremented after it was sent.                    *)
ChangeFileSendsOldVersion(s, f) ==
  LET hash == req[s].files[f]
      version == opened_files[f].version
  IN  /\ f \in Opened
      /\ opened_files[f].hash # hash
      /\ opened_files' = [opened_files EXCEPT
                            ![f] = [version |-> version + 1, hash |-> hash]]
      /\ SendTo(s, DidChange(f, version, hash))
      /\ UNCHANGED rest
      /\ Leave(s, "sendFile")

(* First loop, a file whose contents changed.                              *)
ChangeFile(s, f) ==
  LET hash == req[s].files[f]
      version == opened_files[f].version + 1
  IN  /\ f \in Opened
      /\ opened_files[f].hash # hash
      /\ opened_files' = [opened_files EXCEPT
                            ![f] = [version |-> version, hash |-> hash]]
      /\ SendTo(s, DidChange(f, version, hash))
      /\ UNCHANGED rest
      /\ Leave(s, "sendFile")

KeepFile(s, f) ==
  /\ f \in Opened
  /\ opened_files[f].hash = req[s].files[f]
  /\ UNCHANGED <<opened_files, stream, senderVars, rest, pc, running>>

VisitFile(s, f) ==
  /\ Runs(s, "files")
  /\ f \in todo[s]
  /\ OpenFile(s, f) \/ ChangeFile(s, f) \/ KeepFile(s, f)
  /\ todo' = [todo EXCEPT ![s] = @ \ {f}]
  /\ UNCHANGED <<status, engaged, initialised, next_id, pending_requests, pump, req,
                 at, dangling, clangdVars>>

(* iter = opened_files.begin(): only files missing from the request matter. *)
BeginClosing(s) ==
  /\ Runs(s, "files")
  /\ todo[s] = {}
  /\ Continue(s, "close")
  /\ rest' = [rest EXCEPT ![s] = Opened \ FileData(s)]
  /\ UNCHANGED <<status, engaged, initialised, next_id, pending_requests,
                 opened_files, pump, req, todo, at, dangling, stream, senderVars,
                 clangdVars>>

(* The close loop reaches f, which the request does not name: didClose is  *)
(* sent and iter keeps pointing at f while the session is suspended.       *)
CloseFile(s, f) ==
  /\ Runs(s, "close")
  /\ f \in rest[s]
  /\ SendTo(s, DidClose(f))
  /\ at' = [at EXCEPT ![s] = {f}]
  /\ rest' = [rest EXCEPT ![s] = @ \ {f}]
  /\ Leave(s, "sendClose")
  /\ UNCHANGED <<status, engaged, initialised, next_id, pending_requests,
                 opened_files, pump, req, todo, dangling, clangdVars>>

EventSynced(s) ==
  /\ Runs(s, "close")
  /\ rest[s] = {}
  /\ IsEvent(s)
  /\ Leave(s, "done")
  /\ UNCHANGED <<status, engaged, initialised, next_id, pending_requests,
                 opened_files, pump, req, todo, rest, at, dangling, stream, senderVars,
                 clangdVars>>

CompletionSynced(s) ==
  /\ Runs(s, "close")
  /\ rest[s] = {}
  /\ req[s].kind = "Completion"
  /\ AskClangd(s, "textDocument/completion")
  /\ Leave(s, "awaitCompletion")
  /\ UNCHANGED <<status, engaged, initialised, opened_files, pump, req, todo, rest,
                 at, dangling, clangdVars>>
----------------------------------------------------------------------------
(* What the io_context resumes.                                            *)

(* Completions of writes run in the order the writes were started.         *)
OldestWrite(s) == \A t \in Outstanding : op[s].next <= op[t].next

(* Mutants: the file closed is not erased; the elements the loop has yet to *)
(* visit are erased as well.                                                *)
LeaveClosed(s) ==
  /\ at' = [at EXCEPT ![s] = {}]
  /\ UNCHANGED <<opened_files, rest, dangling>>

EraseToEnd(s) ==
  /\ opened_files' = [g \in Opened \ (at[s] \cup rest[s]) |-> opened_files[g]]
  /\ rest' = [t \in Sessions |-> rest[t] \ (at[s] \cup rest[s])]
  /\ at' = [at EXCEPT ![s] = {}]
  /\ UNCHANGED dangling

(* erase(iter), for an iterator nobody else has invalidated.               *)
EraseClosed(s) ==
  /\ opened_files' = [g \in Opened \ at[s] |-> opened_files[g]]
  /\ rest' = [t \in Sessions |-> rest[t] \ at[s]]
  /\ dangling' = [t \in Sessions |->
                    dangling[t] \/ (t # s /\ at[t] # {} /\ at[t] = at[s])]
  /\ at' = [at EXCEPT ![s] = {}]

(* send_message has consumed what it wrote and the sender goes on: from    *)
(* didOpen and didChange to the next file, from didClose to erase(iter);   *)
(* nobody waits for the write of a request.                                *)
WriteDone(s) ==
  /\ Free
  /\ s \in Outstanding /\ OldestWrite(s)
  /\ Complete(s)
  /\ \/ /\ pc[s] = "sendFile"
        /\ Continue(s, "files")
        /\ UNCHANGED <<status, opened_files, rest, at, dangling>>
     \/ /\ pc[s] = "sendClose" /\ ~dangling[s]
        /\ Continue(s, "close")
        /\ EraseClosed(s)
        /\ UNCHANGED status
     \/ /\ pc[s] = "sendClose" /\ dangling[s]   \* caught by the address sanitizer
        /\ status' = "aborted"
        /\ UNCHANGED <<running, pc, opened_files, rest, at, dangling>>
     \/ /\ pc[s] \in {"awaitInit", "awaitCompletion"}
        /\ UNCHANGED <<status, running, pc, opened_files, rest, at, dangling>>
  /\ UNCHANGED <<engaged, initialised, next_id, pending_requests, pump, req, todo,
                 stream, clangdVars>>

(* The write of a notification that found clangd dead fails: the exception *)
(* leaves send_notification and sync_files, and ends in abort() like every *)
(* other that leaves a handler.                                            *)
WriteFails(s) ==
  /\ Free /\ child = "dead"
  /\ pc[s] \in {"sendFile", "sendClose"}
  /\ Outstanding = {}   \* those of clangd's lifetime complete first
  /\ status' = "aborted"
  /\ UNCHANGED <<running, engaged, initialised, next_id, pending_requests,
                 opened_files, pump, sessionVars, stream, senderVars, clangdVars>>

(* A session gets its response: init takes over the capabilities, a        *)
(* completion is answered; converting an error without data throws.        *)
Resume(s, kind) ==
  \/ /\ kind = "error"
     /\ status' = "aborted"
     /\ UNCHANGED <<running, pc, initialised>>
  \/ /\ kind \in {"result", "null"} /\ pc[s] = "awaitInit"
     /\ initialised' = (initialised \/ kind = "result")
     /\ Continue(s, "afterInit")
     /\ UNCHANGED status
  \/ /\ kind \in {"result", "null"} /\ pc[s] = "awaitCompletion"
     /\ Leave(s, "done")
     /\ UNCHANGED <<status, initialised>>

(* Mutants: the wrong entry is found, the entry found is not erased.        *)
WaitersOffByOne(id) == {p \in pending_requests : p.id = id + 1}
EntryKept(p) == pending_requests

Waiters(id) == {p \in pending_requests : p.id = id}

EntryErased(p) == pending_requests \ {p}

PumpReads ==
  /\ Free /\ pump = "running" /\ replies # <<>>
  /\ replies' = Tail(replies)
  /\ UNCHANGED <<child, rd, asked, docs>>

(* message_pump, a response: the entry is erased and its session resumed   *)
(* in the same handler.  A response comes after the completion of the      *)
(* write that carried its request.                                         *)
PumpAnswers(p) ==
  /\ PumpReads
  /\ p \in Waiters(Head(replies).id)
  /\ op[p.handler].n = 0
  /\ Head(replies).kind # "malformed"
  /\ pending_requests' = EntryErased(p)
  /\ Resume(p.handler, Head(replies).kind)
  /\ UNCHANGED <<engaged, next_id, opened_files, pump, req, todo, rest, at, dangling,
                 stream, senderVars>>

(* A response nobody waits for (or a notification) is ignored.             *)
PumpIgnores ==
  /\ PumpReads
  /\ Waiters(Head(replies).id) = {}
  /\ Head(replies).kind # "malformed"
  /\ UNCHANGED <<status, running, engaged, initialised, next_id, pending_requests,
                 opened_files, pump, sessionVars, stream, senderVars>>

(* End of file or an exception ends the pump; it is detached, so nobody    *)
(* learns of it, least of all those who wait.                              *)
PumpEnds ==
  /\ Free /\ pump = "running"
  /\ \/ replies = <<>> /\ child = "dead"
     \/ replies # <<>> /\ Head(replies).kind = "malformed"
  /\ pump' = "ended"
  /\ UNCHANGED <<status, running, engaged, initialised, next_id, pending_requests,
                 opened_files, sessionVars, stream, senderVars, clangdVars>>
----------------------------------------------------------------------------
(* clangd: reads its stdin in order, answers every request (in any order), *)
(* and may exit.                                                           *)
ycmdVars == <<status, running, engaged, initialised, next_id, pending_requests,
              opened_files, pump, sessionVars, stream, senderVars>>

ClangdReads ==
  /\ Free /\ child = "alive" /\ rd < Len(wire)
  /\ rd' = rd + 1
  /\ LET m == stream[wire[rd + 1]]
     IN  CASE m.method \in {"initialize", "textDocument/completion"} ->
                asked' = Append(asked, m.id) /\ UNCHANGED docs
           [] m.method = "textDocument/didOpen" ->
                docs' = docs \cup {m.uri} /\ UNCHANGED asked
           [] m.method = "textDocument/didClose" ->
                docs' = docs \ {m.uri} /\ UNCHANGED asked
           [] OTHER -> UNCHANGED <<asked, docs>>
  /\ UNCHANGED <<ycmdVars, child, replies>>

Without(seq, i) == [j \in 1..(Len(seq) - 1) |-> IF j < i THEN seq[j] ELSE seq[j + 1]]

AnswerKinds == {"result", "null"} \cup (Faults \cap {"error", "malformed"})

ClangdAnswers(i, kind) ==
  /\ Free /\ child = "alive"
  /\ i \in DOMAIN asked
  /\ kind \in AnswerKinds
  /\ asked' = Without(asked, i)
  /\ replies' = Append(replies, [id |-> asked[i], kind |-> kind])
  /\ UNCHANGED <<ycmdVars, child, rd, docs>>

ClangdDies ==
  /\ "dies" \in Faults
  /\ Free /\ child = "alive"
  /\ child' = "dead"
  /\ UNCHANGED <<ycmdVars, rd, asked, replies, docs>>
----------------------------------------------------------------------------
(* What session s does while the thread is its own, and what resumes it.   *)
SessionRuns(s) ==
  \/ AfterInit(s)
  \/ \E f \in Files : VisitFile(s, f) \/ CloseFile(s, f)
  \/ BeginClosing(s) \/ EventSynced(s) \/ CompletionSynced(s)

RequestArrives(s) ==
  \/ EventArrives(s) \/ CompletionArrives(s)
  \/ InitStartsClangd(s) \/ InitFindsNoClangd(s) \/ InitCannotSpawn(s)

MessagePump ==
  \/ \E p \in pending_requests : PumpAnswers(p)
  \/ PumpIgnores
  \/ PumpEnds

Answering == \E i \in DOMAIN asked, kind \in AnswerKinds : ClangdAnswers(i, kind)

Next ==
  \/ \E s \in Sessions : \/ RequestArrives(s) \/ SessionRuns(s)
                         \/ WriteDone(s) \/ WriteFails(s)
  \/ MessagePump
  \/ ClangdReads \/ Answering \/ ClangdDies

Spec == Init /\ [][Next]_vars

(* Fairness: the io_context runs what is ready, and a clangd that lives    *)
(* reads its stdin and answers.  Nothing makes a request arrive or clangd  *)
(* exit.                                                                   *)
Fairness ==
  /\ \A s \in Sessions : /\ WF_vars(SessionRuns(s))
                         /\ WF_vars(WriteDone(s)) /\ WF_vars(WriteFails(s))
  /\ WF_vars(MessagePump)
  /\ WF_vars(ClangdReads) /\ WF_vars(Answering)

FairSpec == Spec /\ Fairness
----------------------------------------------------------------------------
Places == {"idle", "afterInit", "files", "sendFile", "close", "sendClose",
           "awaitInit", "awaitCompletion", "done"}

(* The shapes of the completer's state.                                    *)
TypeOK ==
  /\ status \in {"up", "aborted"}
  /\ running \in Sessions \cup {Nobody}
  /\ engaged \in BOOLEAN /\ initialised \in BOOLEAN
  /\ next_id \in Nat
  /\ pending_requests \subseteq [id : Nat, handler : Sessions]
  /\ Opened \subseteq Files
  /\ \A f \in Opened : opened_files[f] \in [version : Nat, hash : Contents]
  /\ pump \in {"off", "running", "ended"}
  /\ pc \in [Sessions -> Places]
  /\ req \in [Sessions -> Requests]
  /\ todo \in [Sessions -> SUBSET Files]
  /\ rest \in [Sessions -> SUBSET Files]
  /\ at \in [Sessions -> SUBSET Files]
  /\ dangling \in [Sessions -> BOOLEAN]
  /\ child \in {"none", "alive", "dead"}
  /\ SendTypeOK

Awaiting(s) == pc[s] \in {"awaitInit", "awaitCompletion"}

(* Requests and their waiters match: while ycmd is up, the entries of      *)
(* pending_requests are exactly the sessions suspended in get_response,    *)
(* one each, under different ids that were all given out.  A response      *)
(* therefore resumes one session at most, and one that waits for it.       *)
PendingAwaited ==
  status = "up" =>
    /\ \A p \in pending_requests : Awaiting(p.handler) /\ p.id < next_id
    /\ \A p, q \in pending_requests :
         p.id = q.id \/ p.handler = q.handler => p = q
    /\ \A s \in Sessions :
         Awaiting(s) => \E p \in pending_requests : p.handler = s

(* clangd gets exactly one initialize request, before anything else, and   *)
(* nothing more until its response has arrived, although requests of other *)
(* sessions are handled meanwhile and writes may repeat the buffer.        *)
HandshakeFirst ==
  /\ \A i \in DOMAIN wire : stream[wire[i]].method = "initialize" => i = 1
  /\ Len(wire) > 0 => stream[wire[1]].method = "initialize"
  /\ Len(wire) > 1 => initialised

Texts == {"textDocument/didOpen", "textDocument/didChange"}
IsText(m, f) == m.method \in Texts /\ m.uri = URI(f)

(* What clangd reads last about a file ycmd holds open is the version and  *)
(* the contents ycmd believes it has, however sync_files of several        *)
(* sessions interleave and messages are repeated, as long as clangd lives. *)
LastTextIsCurrent ==
  (status = "up" /\ child # "dead") =>
    \A f \in Opened : \E i \in DOMAIN wire :
      /\ IsText(stream[wire[i]], f)
      /\ stream[wire[i]].version = opened_files[f].version
      /\ stream[wire[i]].text = opened_files[f].hash
      /\ \A j \in (i + 1)..Len(wire) :
           IsText(stream[wire[j]], f) => wire[j] = wire[i]

(* sync_files numbers the texts of a file consecutively: between two       *)
(* didOpens of it there is a didClose, and from a didOpen on the versions  *)
(* are 1, 2, 3, ... in the order of the calls, however the sessions        *)
(* interleave.  It does not say that a didChange comes while the file is   *)
(* open: with overlapping sessions it may follow the didClose, see         *)
(* ClosedStaysClosed.                                                      *)
VersionsConsecutive ==
  \A i, j \in DOMAIN stream : \A f \in Files :
    (i < j /\ IsText(stream[i], f) /\ IsText(stream[j], f)) =>
      /\ (stream[i].version = 1 /\ stream[j].version = 1) =>
            \E k \in (i + 1)..(j - 1) : stream[k] = DidClose(f)
      /\ (\A k \in (i + 1)..(j - 1) : ~IsText(stream[k], f)) =>
            stream[j].version \in {1, stream[i].version + 1}

(* While clangd lives and the sends of different sessions do not overlap,  *)
(* a file that ycmd no longer holds open was closed after its last text.   *)
ForgottenWasClosed ==
  (~overlapped /\ status = "up" /\ child # "dead") =>
    \A f \in Files \ Opened : \A i \in DOMAIN stream :
      IsText(stream[i], f) => \E k \in (i + 1)..Len(stream) : stream[k] = DidClose(f)

(* While the sends of different sessions do not overlap, a didChange or a  *)
(* didClose of a file that was closed comes only after a new didOpen of    *)
(* it: the close loop erases what it has closed before anyone looks again. *)
ClosedStaysClosed ==
  ~overlapped =>
    \A i, j \in DOMAIN stream : \A f \in Files :
      /\ i < j
      /\ stream[i] = DidClose(f)
      /\ stream[j] = DidClose(f) \/ (IsText(stream[j], f) /\ stream[j].version # 1)
      => \E k \in (i + 1)..(j - 1) : IsText(stream[k], f) /\ stream[k].version = 1

(* Every request is answered or ends ycmd, but for one kind: only a        *)
(* session that waits for a response when the pump has ended waits for     *)
(* ever, with ycmd up, whether its request was ever written or not.  No    *)
(* response is lost between get_response and the pump, and no session is   *)
(* left suspended in a write or by anything but get_response, also after   *)
(* clangd or the pump is gone.                                             *)
Answered ==
  \A s \in Sessions :
    pc[s] # "idle" ~> \/ pc[s] = "done"
                      \/ status # "up"
                      \/ pump = "ended" /\ Awaiting(s)

(* "// delete": a file sync_files has deleted is closed for clangd, once   *)
(* clangd has read everything (clangd_completer.cpp, the third loop).      *)
DeletedIsClosed ==
  (status = "up" /\ child = "alive" /\ rd = Len(wire)) =>
    \A f \in Files \ Opened : URI(f) \notin docs
============================================================================
