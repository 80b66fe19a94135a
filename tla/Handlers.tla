------------------------------ MODULE Handlers ------------------------------
(***************************************************************************)
(* What is in the messages: the request handlers (src/src/handlers.cpp)    *)
(* between the JSON of a client and the JSON of clangd.  A completion      *)
(* waits for clangd's response; meanwhile other requests are handled, one  *)
(* of which may replace the user's options.                                *)
(*                                                                         *)
(* Other modules model how a request is routed and how an exception ends   *)
(* the process (HttpServer), when clangd runs and what it is told          *)
(* (ClangdCompleter), columns and query (RequestColumns), and which        *)
(* identifiers match (IdentifierCompleter, Matching, Ranking).             *)
(***************************************************************************)
EXTENDS LspTypes, ApiTypes

CONSTANTS
  Sessions,             \* numbers, which are the ids of their LSP requests
  OptionsFiles,         \* the options the server may start with
  Requests,             \* session -> what a client may send: target and body
  ClangdMessages,       \* what clangd may send
  ColumnCodepoint(_), StartCodepoint(_), StartColumn(_),
                        \* of a request: its columns (RequestColumns) ...
  LineLength(_),        \* ... and the code points of its line
  QueryIsCut(_),        \* whether its query_bytes are not whole characters
  FiletypeIsKnown(_),   \* whether the identifiers of its filetype were learnt,
  Identifiers(_),       \* which of them match, in order,
  LengthOf(_),          \* and how long one is
  FilterAndSort(_, _)   \* of texts and a query: the indices that remain

(* The requests that can be read and have the text of their file           *)
Read(s) ==
  {req \in UNION {{get_SimpleRequest(r.body)[i] : i \in DOMAIN get_SimpleRequest(r.body)} :
                     r \in Requests[s]} :
     req.filepath \in DOMAIN req.file_data}

(* The identifiers that match a request are a sequence.                    *)
ASSUME IdentifiersAssumption ==
  \A s \in Sessions : \A req \in Read(s) : Identifiers(req) \in Seq(STRING)

(* An identifier that ends at the cursor starts no later.                  *)
ASSUME ColumnsAssumption ==
  \A s \in Sessions : \A req \in Read(s) :
    /\ {StartCodepoint(req), ColumnCodepoint(req), LineLength(req)} \subseteq Nat
    /\ StartCodepoint(req) <= ColumnCodepoint(req)

VARIABLES
  user_options,
  pump,        \* message_pump: "reads", or "ended" by an exception
  read,        \* the last message it read
  alive,       \* no handler has thrown: handle_session would abort
  session      \* what each session does

vars == <<user_options, pump, read, alive, session>>

Idle == [at |-> "idle"]

Init ==
  /\ user_options \in OptionsFiles
  /\ pump = "reads" /\ read = Null
  /\ alive = TRUE
  /\ session = [s \in Sessions |-> Idle]

Answered(s, target, body, reply) ==
  session' = [session EXCEPT ![s] =
                [at |-> "answered", target |-> target, body |-> body, reply |-> reply]]

(* A handler that throws takes the process down.                           *)
Throws(s, target, body) ==
  /\ alive' = FALSE
  /\ session' = [session EXCEPT ![s] =
                   [at |-> "threw", target |-> target, body |-> body]]
----------------------------------------------------------------------------
(* Handlers that do not look at the request                                *)
FixedReply ==
  [healthy |-> Bool(TRUE), ready |-> Bool(TRUE),
   run_completer_command |-> Null,
   semantic_completion_available |-> Bool(FALSE),
   signature_help_available |-> Bool(FALSE),
   defined_subcommands |-> Arr(<<>>),
   detailed_diagnostic |-> Str(""),
   receive_messages |-> Bool(FALSE),
   semantic_tokens |->
     json_SemanticTokensResponse([semantic_tokens |-> [tokens |-> <<>>], errors |-> <<>>]),
   inlay_hints |-> json_InlayHintsResponse([inlay_hints |-> <<>>, errors |-> <<>>])]

Fixed(s, target, body) ==
  /\ Answered(s, target, body, FixedReply[target])
  /\ UNCHANGED <<user_options, pump, read, alive>>

handle_initialize(s, body) ==
  LET r == get_InitializeRequest(body)
  IN  /\ IF Threw(r)
         THEN Throws(s, "initialize", body) /\ UNCHANGED user_options
         ELSE /\ user_options' = r[1].user_options
              /\ Answered(s, "initialize", body, Bool(TRUE))
              /\ UNCHANGED alive
      /\ UNCHANGED <<pump, read>>

DebugInfo ==
  [python |-> [executable |-> "python", version |-> <<"3">>],
   clang |-> [has_support |-> FALSE, version |-> <<>>],
   extra_conf |-> [path |-> "", is_loaded |-> FALSE],
   completer |-> Null]

handle_debug_info(s, body) ==
  /\ IF Threw(get_SimpleRequest(body))
     THEN Throws(s, "debug_info", body)
     ELSE /\ Answered(s, "debug_info", body, json_DebugInfoResponse(DebugInfo))
          /\ UNCHANGED alive
  /\ UNCHANGED <<user_options, pump, read>>

(* The candidates are any objects that have the property with a string.    *)
handle_filter_and_sort_candidates(s, body) ==
  LET r == get_FilterAndSortCandidatesRequest(body)
      candidates == r[1].candidates
      property == r[1].sort_property
      Sortable(c) == /\ property # <<>> /\ contains(c, property[1])
                     /\ Is(at(c, property[1]), "string")
      strings == [i \in DOMAIN candidates |-> at(candidates[i], property[1])[2]]
      kept == FilterAndSort(strings, r[1].query)
  IN  /\ IF Threw(r) \/ \E i \in DOMAIN candidates : ~Sortable(candidates[i])
         THEN Throws(s, "filter_and_sort_candidates", body)
         ELSE /\ Answered(s, "filter_and_sort_candidates", body,
                          Arr([i \in DOMAIN kept |-> candidates[kept[i]]]))
              /\ UNCHANGED alive
      /\ UNCHANGED <<user_options, pump, read>>

(* event_name is asked for in a log statement, file_data by the completers. *)
handle_event_notification(s, body) ==
  LET r == get_EventNotification(body)
  IN  /\ IF \/ Threw(r)
            \/ ~contains(body, "event_name")
            \/ r[1].filepath \notin DOMAIN r[1].file_data
         THEN Throws(s, "event_notification", body)
         ELSE /\ Answered(s, "event_notification", body, Obj(<<>>))
              /\ UNCHANGED alive
      /\ UNCHANGED <<user_options, pump, read>>
----------------------------------------------------------------------------
(* completions.                                                            *)

(* operator< of JSON: values of different kinds are in the order of kinds. *)
KindOrder ==
  [null |-> 0, boolean |-> 1, number |-> 2, object |-> 3, array |-> 4, string |-> 5]
LessThanJson(n, j) == IF Is(j, "number") THEN n < j[2] ELSE 2 < KindOrder[j[1]]
GreaterThanJson(n, j) == IF Is(j, "number") THEN n > j[2] ELSE KindOrder[j[1]] < 2

(* operator[] of an object that is not const inserts a null, and makes an  *)
(* object of null.                                                         *)
OptionsWith(name) ==
  IF user_options = Null THEN Obj([n \in {name} |-> Null])
  ELSE IF contains(user_options, name) THEN user_options
  ELSE Obj([n \in DOMAIN user_options[2] \cup {name} |->
              IF n = name THEN Null ELSE at(user_options, n)])

first_filetype(req) == req.file_data[req.filepath].filetypes[1]

(* What clangd is sent about a request, whichever of it is due             *)
URI(path) == <<"file://", path>>

InitializeParams ==
  [processId |-> <<1>>, rootUri |-> "/foo", initializationOptions |-> Null,
   workspaceFolders |-> <<>>,
   capabilities |-> [workspace |-> [applyEdit |-> FALSE],
                     textDocument |-> [completion |-> [snippetSupport |-> FALSE]]]]
DidOpen(req, path) ==
  [textDocument |-> [uri |-> URI(path), languageId |-> req.file_data[path].filetypes[1],
                     version |-> 1, text |-> req.file_data[path].contents]]
DidChange(req, path) ==
  [textDocument |-> [uri |-> URI(path), version |-> 2],
   contentChanges |-> <<[text |-> req.file_data[path].contents]>>]
DidClose(path) == [textDocument |-> [uri |-> path]]

(* Mutant: LSP's columns counted from 1, like ycmd's.                      *)
PositionFromOne(req) ==
  [textDocument |-> [uri |-> URI(req.filepath)],
   position |-> [line |-> req.line_num - 1, character |-> ColumnCodepoint(req)],
   context |-> <<>>]

CompletionParams(req) ==
  [textDocument |-> [uri |-> URI(req.filepath)],
   position |-> [line |-> req.line_num - 1, character |-> ColumnCodepoint(req) - 1],
   context |-> <<>>]

AsRequest(s, method, params) ==
  [jsonrpc |-> "2.0", id |-> <<2, s>>, method |-> method, params |-> <<params>>]
AsNotification(method, params) ==
  [jsonrpc |-> "2.0", method |-> method, params |-> <<params>>]

Handshake(s) == AsRequest(s, "initialize", InitializeParams)
Opened(req, path) == AsNotification("textDocument/didOpen", DidOpen(req, path))
Changed(req, path) == AsNotification("textDocument/didChange", DidChange(req, path))
Closed(path) == AsNotification("textDocument/didClose", DidClose(path))
Completion(s, req) == AsRequest(s, "textDocument/completion", CompletionParams(req))

CompletionReply(req, candidates) ==
  json_CompletionsResponse(
    [completions |-> candidates, completion_start_column |-> StartColumn(req),
     errors |-> <<>>])

(* `response` (not in the code): clangd's message, if it was asked         *)
Completed(s, body, req, candidates, response) ==
  /\ session' = [session EXCEPT ![s] =
                   [at |-> "answered", target |-> "completions", body |-> body,
                    candidates |-> candidates, response |-> response,
                    reply |-> CompletionReply(req, candidates)]]
  /\ UNCHANGED alive

(* Mutant: whatever its length, an identifier is suggested.                *)
AllIdentifiers(req, options) ==
  [i \in DOMAIN Identifiers(req) |->
     [insertion_text |-> Identifiers(req)[i], menu_text |-> <<>>,
      extra_menu_info |-> <<"[ID]">>, detailed_info |-> <<>>, kind |-> <<>>,
      extra_data |-> <<>>, doc_string |-> <<>>, fixits |-> <<>>]]

(* The identifier completer reads its option by operator[] of a const      *)
(* object, which asserts that the member is there.  Other kinds throw.     *)
LengthOption == "min_num_identifier_candidate_chars"
LongEnough(texts, min) ==
  LET kept[n \in 0..Len(texts)] ==
        IF n = 0 THEN <<>>
        ELSE IF GreaterThanJson(LengthOf(texts[n]), min) THEN Append(kept[n - 1], texts[n])
        ELSE kept[n - 1]
  IN  kept[Len(texts)]

IdentifierCandidates(req, options) ==
  LET long == LongEnough(Identifiers(req), at(options, LengthOption))
  IN  [i \in DOMAIN long |->
         [insertion_text |-> long[i], menu_text |-> <<>>,
          extra_menu_info |-> <<"[ID]">>, detailed_info |-> <<>>, kind |-> <<>>,
          extra_data |-> <<>>, doc_string |-> <<>>, fixits |-> <<>>]]

(* Word(query), in the search of the database, throws if the query is cut: *)
(* the query of an identifier whose first letter has several bytes begins  *)
(* inside it (start_column, in RequestColumns).                            *)
SearchThrows(req) == FiletypeIsKnown(req) /\ QueryIsCut(req)

Fallback(s, body, req, options, response) ==
  IF \/ SearchThrows(req)
     \/ Identifiers(req) # <<>> /\ ~contains(options, LengthOption)
  THEN Throws(s, "completions", body)
  ELSE Completed(s, body, req, IdentifierCandidates(req, options), response)

force_semantic(body) == contains(body, "force_semantic") /\ at(body, "force_semantic")[2]

MinChars == "min_num_of_chars_for_completion"
AsksOptions(body) == ~force_semantic(body)
Options(body) == IF AsksOptions(body) THEN OptionsWith(MinChars) ELSE user_options

(* query() is substr(start_codepoint - 1, column_codepoint -               *)
(* start_codepoint) of the line, which throws if that starts past its end. *)
QueryThrows(req) == StartCodepoint(req) - 1 > LineLength(req)
QueryLength(req) ==
  LET wanted == ColumnCodepoint(req) - StartCodepoint(req)
      rest == LineLength(req) - (StartCodepoint(req) - 1)
  IN  IF wanted < rest THEN wanted ELSE rest

TooShort(body, req) ==
  AsksOptions(body) /\ LessThanJson(QueryLength(req), at(Options(body), MinChars))

handle_completions(s, body) ==
  LET r == get_SimpleRequest(body)
      req == r[1]
  IN  /\ IF \/ Threw(r)
            \/ contains(body, "force_semantic") /\ ~Is(at(body, "force_semantic"), "boolean")
            \/ AsksOptions(body) /\ ~Is(user_options, "object") /\ user_options # Null
            \/ req.filepath \notin DOMAIN req.file_data
            \/ AsksOptions(body) /\ QueryThrows(req)
         THEN Throws(s, "completions", body) /\ UNCHANGED user_options
         ELSE /\ user_options' = Options(body)
              /\ CASE TooShort(body, req) ->
                        Answered(s, "completions", body, Arr(<<>>)) /\ UNCHANGED alive
                   [] ~TooShort(body, req) /\ first_filetype(req) = "cpp" ->
                        /\ session' = [session EXCEPT ![s] =
                             [at |-> "semantic", body |-> body, req |-> req,
                              sent |-> json_RequestMessage(json_CompletionParams,
                                                           Completion(s, req))]]
                        /\ UNCHANGED alive
                   [] OTHER -> IF force_semantic(body) THEN Completed(s, body, req, <<>>, Null)
                               ELSE Fallback(s, body, req, Options(body), Null)
      /\ UNCHANGED <<pump, read>>
----------------------------------------------------------------------------
(* clangd's response becomes candidates.                                   *)
KindNames ==
  <<"text", "method", "function", "constructor", "field", "variable", "class",
    "interface", "module", "property", "unit", "value", "enum", "keyword", "snippet",
    "color", "file", "reference", "folder", "enum-member", "constant", "struct",
    "event", "operator", "type-parameter">>
KindName(kind) ==
  IF kind # <<>> /\ kind[1] \in DOMAIN KindNames THEN KindNames[kind[1]] ELSE "unknown"

value_or(o, default) == IF o = <<>> THEN default ELSE o[1]

(* Mutant: the text edit is only looked at if there is no insertText.      *)
InsertTextFirst(item) ==
  IF item.insertText # <<>> \/ item.textEdit = <<>>
  THEN value_or(item.insertText, item.label)
  ELSE item.textEdit[1].newText

InsertionText(item) ==
  IF item.textEdit # <<>> THEN item.textEdit[1].newText
  ELSE value_or(item.insertText, item.label)

DetailedInfo(item) ==
  IF item.documentation = <<>> THEN value_or(item.detail, "")
  ELSE LET doc == item.documentation[1]
       IN  IF doc[1] = 1 THEN doc[2] ELSE doc[2].value

CandidateOf(item) ==
  [insertion_text |-> InsertionText(item), menu_text |-> <<item.label>>,
   extra_menu_info |-> <<>>, detailed_info |-> <<DetailedInfo(item)>>,
   kind |-> <<KindName(item.kind)>>, extra_data |-> <<>>, doc_string |-> <<>>,
   fixits |-> <<>>]

Items(response) ==
  IF response.error # <<>> \/ response.result = <<>> THEN <<>>
  ELSE LET result == response.result[1]
       IN  IF result[1] = 1 THEN result[2] ELSE result[2].items

SemanticCandidates(response) ==
  [i \in DOMAIN Items(response) |-> CandidateOf(Items(response)[i])]

(* The waiting session goes on with the message.                           *)
Resume(s, message) ==
  LET r == get_ResponseMessage(get_CompletionsResponse, message)
      p == session[s]
  IN  IF Threw(r) THEN Throws(s, "completions", p.body)
      ELSE IF Items(r[1]) = <<>> /\ ~force_semantic(p.body)
      THEN Fallback(s, p.body, p.req, user_options, message)
      ELSE Completed(s, p.body, p.req, SemanticCandidates(r[1]), message)

IdOf(message) == get_ID(at(message, "id"))[1]
Waiting(id) == {s \in Sessions : session[s].at = "semantic" /\ id = <<2, s>>}

IsNotification(message) == contains(message, "method") /\ ~contains(message, "id")

(* get<std::string_view>, and the conversion of the parameters             *)
EndsPump(message) ==
  /\ contains(message, "method")
  /\ \/ ~Is(at(message, "method"), "string")
     \/ /\ IsNotification(message)
        /\ at(message, "method") = Str("textDocument/publishDiagnostics")
        /\ Threw(get_NotificationMessage(get_PublishDiagnosticsParams, message))

message_pump(message) ==
  /\ pump = "reads"
  /\ read' = message
  /\ pump' = IF EndsPump(message) THEN "ended" ELSE "reads"
  /\ IF /\ ~contains(message, "method") /\ contains(message, "id")
        /\ Waiting(IdOf(message)) # {}
     THEN \E s \in Waiting(IdOf(message)) : Resume(s, message)
     ELSE UNCHANGED <<alive, session>>
  /\ UNCHANGED user_options

Handle(s) ==
  /\ session[s] = Idle
  /\ \E r \in Requests[s] :
       \/ r.target \in DOMAIN FixedReply /\ Fixed(s, r.target, r.body)
       \/ r.target = "initialize" /\ handle_initialize(s, r.body)
       \/ r.target = "debug_info" /\ handle_debug_info(s, r.body)
       \/ r.target = "filter_and_sort_candidates"
            /\ handle_filter_and_sort_candidates(s, r.body)
       \/ r.target = "event_notification" /\ handle_event_notification(s, r.body)
       \/ r.target = "completions" /\ handle_completions(s, r.body)

Next ==
  /\ alive
  /\ \/ \E s \in Sessions : Handle(s)
     \/ \E message \in ClangdMessages : message_pump(message)

Spec == Init /\ [][Next]_vars
----------------------------------------------------------------------------
(* What a member is, said without the types                                *)
Has(j, name, kind) == contains(j, name) /\ Is(at(j, name), kind)
Given(j, name) == contains(j, name) /\ at(j, name) # Null
IfGiven(j, name, kind) == Given(j, name) => Is(at(j, name), kind)
Elements(j) == {j[2][i] : i \in DOMAIN j[2]}
AreStrings(j) == Is(j, "array") /\ \A e \in Elements(j) : Is(e, "string")

FileOK(f) ==
  Has(f, "contents", "string") /\ contains(f, "filetypes") /\ AreStrings(at(f, "filetypes"))
RequestOK(body) ==
  /\ Has(body, "line_num", "number") /\ Has(body, "column_num", "number")
  /\ Has(body, "filepath", "string") /\ Has(body, "file_data", "object")
  /\ contains(at(body, "file_data"), at(body, "filepath")[2])
  /\ \A f \in DOMAIN at(body, "file_data")[2] : FileOK(at(at(body, "file_data"), f))
  /\ contains(body, "force_semantic") => Has(body, "force_semantic", "boolean")
  /\ \A n \in {"completer_target", "working_dir"} : contains(body, n) => Has(body, n, "string")
  /\ contains(body, "extra_conf_data") => Has(body, "extra_conf_data", "object")

FilterOK(body) ==
  /\ Has(body, "candidates", "array") /\ Has(body, "query", "string")
  /\ IfGiven(body, "sort_property", "string")
  /\ \A c \in Elements(at(body, "candidates")) :
       Given(body, "sort_property") /\ Has(c, at(body, "sort_property")[2], "string")

PositionOK(p) == Has(p, "line", "number") /\ Has(p, "character", "number")
RangeOK(j) == /\ contains(j, "range")
              /\ \A n \in {"start", "end"} : /\ contains(at(j, "range"), n)
                                             /\ PositionOK(at(at(j, "range"), n))

EditOK(e) == Has(e, "newText", "string") /\ RangeOK(e)
CommandOK(c) ==
  Has(c, "title", "string") /\ Has(c, "command", "string") /\ IfGiven(c, "arguments", "array")

(* What this client can read of a completion item, and of a response       *)
ItemOK(i) ==
  /\ Is(i, "object")
  /\ \A n \in {"uri", "label"} : contains(i, n) => Has(i, n, "string")
  /\ \A n \in {"kind", "insertTextFormat"} : IfGiven(i, n, "number")
  /\ \A n \in {"deprecated", "preselect"} : IfGiven(i, n, "boolean")
  /\ \A n \in {"detail", "sortText", "filterText", "insertText", "commitCharacters"} :
       IfGiven(i, n, "string")
  /\ Given(i, "textEdit") => EditOK(at(i, "textEdit"))
  /\ Given(i, "additionalTextEdits") =>
       /\ Is(at(i, "additionalTextEdits"), "array")
       /\ \A e \in Elements(at(i, "additionalTextEdits")) : EditOK(e)
  /\ Given(i, "command") => CommandOK(at(i, "command"))
ResponseOK(m) ==
  /\ Has(m, "jsonrpc", "string")
  /\ Given(m, "error") => /\ Has(at(m, "error"), "code", "number")
                          /\ Has(at(m, "error"), "message", "string")
                          /\ contains(at(m, "error"), "data")

ResultItems(m) ==
  IF Given(m, "error") \/ ~Given(m, "result") THEN <<>>
  ELSE LET r == at(m, "result")
       IN  IF Is(r, "array") THEN r[2]
           ELSE IF Has(r, "items", "array") /\ Has(r, "isIncomplete", "boolean")
           THEN at(r, "items")[2] ELSE <<>>

(* What an item asks to insert, and what explains it                       *)
TextOf(item) ==
  CASE Given(item, "textEdit") -> at(at(item, "textEdit"), "newText")
    [] ~Given(item, "textEdit") /\ Given(item, "insertText") -> at(item, "insertText")
    [] OTHER -> IF contains(item, "label") THEN at(item, "label") ELSE Str("")

InfoOf(item) ==
  LET doc == at(item, "documentation")
      detail == IF Given(item, "detail") THEN at(item, "detail") ELSE Str("")
      markup == IF Has(doc, "kind", "number") /\ Has(doc, "value", "string")
                THEN at(doc, "value") ELSE Str("")
  IN  IF ~Given(item, "documentation") THEN detail ELSE IF Is(doc, "string") THEN doc ELSE markup

Replied(s) == session[s].at = "answered" /\ session[s].target = "completions"
Completions(s) == at(session[s].reply, "completions")[2]
----------------------------------------------------------------------------
(* clangd's completions reach the client one for one and in their order,   *)
(* each inserting what the item's text edit says, else its insertText,     *)
(* else its label, and explained by its documentation, else its detail; a  *)
(* documentation that is an object is only read if its kind is a number    *)
(* (LSP has names), and else hides the detail.  One item that cannot be    *)
(* read makes the whole response count as empty (the variant keeps its     *)
(* default): then, as after an error or without a result, what the client  *)
(* gets are identifiers.                                                   *)
SuggestsWhatClangdSent ==
  \A s \in Sessions :
    Replied(s) /\ Is(session[s].reply, "object") /\ session[s].response # Null =>
      LET items == ResultItems(session[s].response)
          all == Completions(s)
      IN  IF DOMAIN items # {} /\ \A i \in DOMAIN items : ItemOK(items[i])
          THEN /\ DOMAIN all = DOMAIN items
               /\ \A i \in DOMAIN all :
                    /\ at(all[i], "insertion_text") = TextOf(items[i])
                    /\ at(all[i], "detailed_info") = InfoOf(items[i])
          ELSE \A i \in DOMAIN all : at(all[i], "extra_menu_info") = Str("[ID]")

(* A client that reads the reply has the candidates of the completers,     *)
(* menu_text excepted, and no member that is null: what is not set is not  *)
(* there.                                                                  *)
ClientReadsSame ==
  \A s \in Sessions :
    Replied(s) /\ Is(session[s].reply, "object") =>
      /\ get_array(get_Candidate, at(session[s].reply, "completions"))
           = <<[i \in DOMAIN session[s].candidates |->
                  [n \in DOMAIN session[s].candidates[i] \ {"menu_text"} |->
                     session[s].candidates[i][n]]]>>
      /\ \A i \in DOMAIN Completions(s) :
           Null \notin {at(Completions(s)[i], n) : n \in DOMAIN Completions(s)[i][2]}

(* The request sent to clangd asks about the cursor of a well-formed       *)
(* request, in LSP's positions from 0, under the id the session waits for, *)
(* and has no null in place of the context, which is not given.            *)
AsksAboutCursor ==
  \A s \in Sessions :
    session[s].at = "semantic" /\ RequestOK(session[s].body) =>
      LET sent == session[s].sent
          params == at(sent, "params")
      IN  /\ DOMAIN sent[2] = {"jsonrpc", "id", "method", "params"}
          /\ at(sent, "id") = Num(s)
          /\ DOMAIN params[2] = {"textDocument", "position"}
          /\ at(at(params, "position"), "line") = Num(at(session[s].body, "line_num")[2] - 1)
          /\ at(at(params, "position"), "character") = Num(ColumnCodepoint(session[s].req) - 1)
          /\ at(at(params, "textDocument"), "uri")[2][2] = at(session[s].body, "filepath")[2]

(* Whatever ycmd sends clangd is read back as what it meant: no member is  *)
(* lost on the way, none appears.                                          *)
SentIsReadBack ==
  \A s \in Sessions :
    session[s].at = "semantic" =>
      LET req == session[s].req
      IN  /\ get_RequestMessage(get_InitializeParams,
                                json_RequestMessage(json_InitializeParams, Handshake(s)))
               = <<Handshake(s)>>
          /\ get_RequestMessage(get_CompletionParams, session[s].sent) = <<Completion(s, req)>>
          /\ \A path \in DOMAIN req.file_data :
               /\ get_NotificationMessage(get_DidOpenTextDocumentParams,
                    json_NotificationMessage(json_DidOpenTextDocumentParams, Opened(req, path)))
                    = <<Opened(req, path)>>
               /\ get_NotificationMessage(get_DidChangeTextDocumentParams,
                    json_NotificationMessage(json_DidChangeTextDocumentParams, Changed(req, path)))
                    = <<Changed(req, path)>>
               /\ get_NotificationMessage(get_DidCloseTextDocumentParams,
                    json_NotificationMessage(json_DidCloseTextDocumentParams, Closed(path)))
                    = <<Closed(path)>>

(* An exception of a handler, which ends the process, has one of these     *)
(* causes: a request that is not well-formed, options without the length   *)
(* of identifiers, a message of clangd that is no response (an error       *)
(* without data), a cursor past the end of its line in a completion that   *)
(* is not forced, and a query that is cut inside a character, in a file    *)
(* whose type is known.                                                    *)
PastLine(req) == ColumnCodepoint(req) > LineLength(req) + 1
HasNoQuery(body) ==
  /\ ~force_semantic(body)
  /\ \E req \in {get_SimpleRequest(body)[1]} :
       PastLine(req) \/ (FiletypeIsKnown(req) /\ QueryIsCut(req))
ThrowsForCause ==
  ~alive =>
    \E s \in Sessions :
      /\ session[s].at = "threw"
      /\ \/ session[s].target \in {"completions", "event_notification", "debug_info"}
              /\ ~RequestOK(session[s].body)
         \/ session[s].target = "event_notification" /\ ~contains(session[s].body, "event_name")
         \/ session[s].target = "initialize" /\ ~contains(session[s].body, "user_options")
         \/ session[s].target = "filter_and_sort_candidates" /\ ~FilterOK(session[s].body)
         \/ session[s].target = "completions" /\ ~contains(user_options, LengthOption)
         \/ session[s].target = "completions" /\ ~ResponseOK(read)
         \/ session[s].target = "completions" /\ HasNoQuery(session[s].body)

(* The pump outlives every message but a method that is no string and      *)
(* diagnostics it cannot read: those with a code that is not a number      *)
(* (which LSP allows), without a message or a range.                       *)
DiagnosticsOK(m) ==
  /\ Has(m, "jsonrpc", "string")
  /\ Given(m, "params") =>
       /\ Has(at(m, "params"), "uri", "string") /\ IfGiven(at(m, "params"), "version", "number")
       /\ Has(at(m, "params"), "diagnostics", "array")
       /\ \A d \in Elements(at(at(m, "params"), "diagnostics")) :
            /\ RangeOK(d) /\ Has(d, "message", "string") /\ IfGiven(d, "source", "string")
            /\ \A n \in {"severity", "code"} : IfGiven(d, n, "number")
PumpEndsForCause ==
  pump = "ended" <=>
    /\ contains(read, "method")
    /\ \/ ~Has(read, "method", "string")
       \/ /\ at(read, "method") = Str("textDocument/publishDiagnostics")
          /\ ~contains(read, "id") /\ ~DiagnosticsOK(read)

(* Identifiers are suggested by the options at the time of the answer: a   *)
(* completion that waited for clangd while a client sent new options uses  *)
(* the new ones.                                                           *)
UsesCurrentOptions ==
  [][\A s \in Sessions :
       session[s].at # "answered" /\ Replied(s)' /\ Is(session'[s].reply, "object") =>
         \A i \in DOMAIN session'[s].candidates :
           LET c == session'[s].candidates[i]
           IN  c.extra_menu_info = <<"[ID]">> =>
                 GreaterThanJson(LengthOf(c.insertion_text), at(user_options', LengthOption))
    ]_vars
=============================================================================
