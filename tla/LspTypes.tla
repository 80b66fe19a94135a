------------------------------ MODULE LspTypes ------------------------------
(* The messages and types of the Language Server Protocol that ycmd        *)
(* declares (src/src/lsp/lsp_types.hpp), member by member: read from JSON, *)
(* and written if ycmd sends them.                                         *)
EXTENDS Json

get_DocumentURI(j) == get_string(j)

(* one_of<string, number>                                                  *)
get_ID(j) == one_of(get_string(j), get_integer(j), "")
json_ID(v) == IF v[1] = 1 THEN Str(v[2]) ELSE Num(v[2])

(* Messages.                                                               *)
get_Message(j) == Mandatory([jsonrpc |-> mandatory(j, "jsonrpc", get_string)])
RequestMessage(j, params) ==
  AndBase(get_Message(j), j,
          [id |-> value(j, "id", get_ID, <<1, "">>),
           method |-> value(j, "method", get_string, ""), params |-> params])
get_RequestMessage(get_Payload(_), j) == RequestMessage(j, optional(j, "params", get_Payload))
RequestObject(v, params) ==
  Obj(Written([jsonrpc |-> <<Str(v.jsonrpc)>>, id |-> <<json_ID(v.id)>>,
               method |-> <<Str(v.method)>>, params |-> params]))
json_RequestMessage(json_Payload(_), v) == RequestObject(v, if_set(json_Payload, v.params))
get_ResponseError(j) ==
  Mandatory([code |-> mandatory(j, "code", get_integer),
             message |-> mandatory(j, "message", get_string),
             data |-> mandatory(j, "data", get_any)])
ResponseMessage(j, result) ==
  AndBase(get_Message(j), j,
          [id |-> value(j, "id", get_ID, <<1, "">>), result |-> result,
           error |-> optional(j, "error", get_ResponseError)])
get_ResponseMessage(get_ResultType(_), j) ==
  ResponseMessage(j, optional(j, "result", get_ResultType))
NotificationMessage(j, params) ==
  AndBase(get_Message(j), j, [method |-> value(j, "method", get_string, ""), params |-> params])
get_NotificationMessage(get_Params(_), j) ==
  NotificationMessage(j, optional(j, "params", get_Params))
NotificationObject(v, params) ==
  Obj(Written([jsonrpc |-> <<Str(v.jsonrpc)>>, method |-> <<Str(v.method)>>, params |-> params]))
json_NotificationMessage(json_Params(_), v) ==
  NotificationObject(v, if_set(json_Params, v.params))

(* Places.                                                                 *)
get_Position(j) == Mandatory([line |-> mandatory(j, "line", get_integer),
                              character |-> mandatory(j, "character", get_integer)])
json_Position(v) == Obj([line |-> Num(v.line), character |-> Num(v.character)])
get_Range(j) == Mandatory([start |-> mandatory(j, "start", get_Position),
                           end |-> mandatory(j, "end", get_Position)])

(* The handshake.                                                          *)
get_WorkspaceFolder(j) == Mandatory([uri |-> mandatory(j, "uri", get_DocumentURI),
                                     name |-> mandatory(j, "name", get_string)])
get_WorkspaceFolders(j) == get_array(get_WorkspaceFolder, j)
json_WorkspaceFolder(v) == Obj([uri |-> Str(v.uri), name |-> Str(v.name)])
json_WorkspaceFolders(v) == json_array(json_WorkspaceFolder, v)

get_Workspace(j) ==
  WithDefault(j, [applyEdit |-> value(j, "applyEdit", get_bool, IndeterminateBool)])
get_CompletionClientCapabilities(j) ==
  WithDefault(j, [snippetSupport |-> value(j, "snippetSupport", get_bool, IndeterminateBool)])
get_TextDocumentClientCapabilities(j) ==
  WithDefault(j, [completion |-> value(j, "completion", get_CompletionClientCapabilities,
                                       [snippetSupport |-> IndeterminateBool])])
get_ClientCapabilities(j) ==
  WithDefault(j,
    [workspace |-> value(j, "workspace", get_Workspace, [applyEdit |-> IndeterminateBool]),
     textDocument |-> value(j, "textDocument", get_TextDocumentClientCapabilities,
                            [completion |-> [snippetSupport |-> IndeterminateBool]])])
json_ClientCapabilities(v) ==
  Obj([workspace |-> Obj([applyEdit |-> Bool(v.workspace.applyEdit)]),
       textDocument |->
         Obj([completion |->
                Obj([snippetSupport |-> Bool(v.textDocument.completion.snippetSupport)])])])

get_InitializeParams(j) ==
  Mandatory([processId |-> optional(j, "processId", get_integer),
             rootUri |-> mandatory(j, "rootUri", get_string),
             initializationOptions |-> mandatory(j, "initializationOptions", get_any),
             workspaceFolders |-> optional(j, "workspaceFolders", get_WorkspaceFolders),
             capabilities |-> mandatory(j, "capabilities", get_ClientCapabilities)])
json_InitializeParams(v) ==
  Obj([processId |-> or_null(Num, v.processId), rootUri |-> Str(v.rootUri),
       initializationOptions |-> v.initializationOptions,
       workspaceFolders |-> or_null(json_WorkspaceFolders, v.workspaceFolders),
       capabilities |-> json_ClientCapabilities(v.capabilities)])

get_ServerInfo(j) == Mandatory([name |-> mandatory(j, "name", get_string),
                                version |-> mandatory(j, "version", get_string)])
get_InitializeResult(j) == Mandatory([capabilities |-> mandatory(j, "capabilities", get_any),
                                      serverInfo |-> optional(j, "serverInfo", get_ServerInfo)])

(* Documents.                                                              *)
get_TextDocumentItem(j) ==
  WithDefault(j, [uri |-> value(j, "uri", get_DocumentURI, ""),
                  languageId |-> value(j, "languageId", get_string, ""),
                  version |-> value(j, "version", get_integer, IndeterminateInt),
                  text |-> value(j, "text", get_string, "")])
json_TextDocumentItem(v) ==
  Obj([uri |-> Str(v.uri), languageId |-> Str(v.languageId), version |-> Num(v.version),
       text |-> Str(v.text)])
get_TextDocumentIdentifier(j) ==
  WithDefault(j, [uri |-> value(j, "uri", get_DocumentURI, "")])
json_TextDocumentIdentifier(v) == Obj([uri |-> Str(v.uri)])
get_VersionedTextDocumentIdentifier(j) ==
  AndBase(get_TextDocumentIdentifier(j), j,
          [version |-> value(j, "version", get_integer, IndeterminateInt)])

(* Mutant: the version is missing in the list of members.                  *)
WithoutVersion(v) == Obj([uri |-> Str(v.uri)])

json_VersionedTextDocumentIdentifier(v) == Obj([uri |-> Str(v.uri), version |-> Num(v.version)])

get_DidOpenTextDocumentParams(j) ==
  Mandatory([textDocument |-> mandatory(j, "textDocument", get_TextDocumentItem)])
json_DidOpenTextDocumentParams(v) ==
  Obj([textDocument |-> json_TextDocumentItem(v.textDocument)])
get_TextDocumentChangeEvent(j) == Mandatory([text |-> mandatory(j, "text", get_string)])
get_TextDocumentChangeEvents(j) == get_array(get_TextDocumentChangeEvent, j)
json_TextDocumentChangeEvent(v) == Obj([text |-> Str(v.text)])
get_DidChangeTextDocumentParams(j) ==
  Mandatory([textDocument |-> mandatory(j, "textDocument", get_VersionedTextDocumentIdentifier),
             contentChanges |-> mandatory(j, "contentChanges", get_TextDocumentChangeEvents)])
json_DidChangeTextDocumentParams(v) ==
  Obj([textDocument |-> json_VersionedTextDocumentIdentifier(v.textDocument),
       contentChanges |-> json_array(json_TextDocumentChangeEvent, v.contentChanges)])
get_DidCloseTextDocumentParams(j) ==
  Mandatory([textDocument |-> mandatory(j, "textDocument", get_TextDocumentIdentifier)])
json_DidCloseTextDocumentParams(v) ==
  Obj([textDocument |-> json_TextDocumentIdentifier(v.textDocument)])

(* Completion.                                                             *)
get_TextDocumentPositionParams(j) ==
  Mandatory([textDocument |-> mandatory(j, "textDocument", get_TextDocumentIdentifier),
             position |-> mandatory(j, "position", get_Position)])
get_CompletionContext(j) ==
  Mandatory([triggerKind |-> mandatory(j, "triggerKind", get_integer),
             triggerCharacter |-> optional(j, "triggerCharacter", get_string)])
json_CompletionContext(v) ==
  Obj(Written([triggerKind |-> <<Num(v.triggerKind)>>,
               triggerCharacter |-> if_set(Str, v.triggerCharacter)]))
get_CompletionParams(j) ==
  AndBase(get_TextDocumentPositionParams(j), j,
          [context |-> optional(j, "context", get_CompletionContext)])
json_CompletionParams(v) ==
  Obj(Written([textDocument |-> <<json_TextDocumentIdentifier(v.textDocument)>>,
               position |-> <<json_Position(v.position)>>,
               context |-> if_set(json_CompletionContext, v.context)]))

get_TextEdit(j) == Mandatory([newText |-> mandatory(j, "newText", get_string),
                              range |-> mandatory(j, "range", get_Range)])
get_TextEdits(j) == get_array(get_TextEdit, j)
get_anys(j) == get_array(get_any, j)
get_Command(j) == Mandatory([title |-> mandatory(j, "title", get_string),
                             command |-> mandatory(j, "command", get_string),
                             arguments |-> optional(j, "arguments", get_anys)])

(* MarkupKind is an enum without names: a number is expected on the wire.  *)
get_MarkupContent(j) == Mandatory([kind |-> mandatory(j, "kind", get_integer),
                                   value |-> mandatory(j, "value", get_string)])
get_documentation(j) == one_of(get_string(j), get_MarkupContent(j), "")
get_CompletionItem(j) ==
  AndBase(get_TextDocumentIdentifier(j), j,
    [label |-> value(j, "label", get_string, ""),
     kind |-> optional(j, "kind", get_integer),
     detail |-> optional(j, "detail", get_string),
     documentation |-> optional(j, "documentation", get_documentation),
     deprecated |-> optional(j, "deprecated", get_bool),
     preselect |-> optional(j, "preselect", get_bool),
     sortText |-> optional(j, "sortText", get_string),
     filterText |-> optional(j, "filterText", get_string),
     insertText |-> optional(j, "insertText", get_string),
     insertTextFormat |-> optional(j, "insertTextFormat", get_integer),
     textEdit |-> optional(j, "textEdit", get_TextEdit),
     additionalTextEdits |-> optional(j, "additionalTextEdits", get_TextEdits),
     commitCharacters |-> optional(j, "commitCharacters", get_string),
     command |-> optional(j, "command", get_Command),
     data |-> optional(j, "data", get_any)])
get_CompletionItems(j) == get_array(get_CompletionItem, j)
get_CompletionList(j) == Mandatory([items |-> mandatory(j, "items", get_CompletionItems),
                                    isIncomplete |-> mandatory(j, "isIncomplete", get_bool)])
get_CompletionsResponse(j) == one_of(get_CompletionItems(j), get_CompletionList(j), <<>>)

(* Diagnostics.                                                            *)
(* Mutant: a diagnostic must have a code.                                  *)
CodedDiagnostic(j) ==
  Mandatory([range |-> mandatory(j, "range", get_Range),
             severity |-> optional(j, "severity", get_integer),
             code |-> mandatory(j, "code", get_integer),
             source |-> optional(j, "source", get_string),
             message |-> mandatory(j, "message", get_string)])

get_Diagnostic(j) ==
  Mandatory([range |-> mandatory(j, "range", get_Range),
             severity |-> optional(j, "severity", get_integer),
             code |-> optional(j, "code", get_integer),
             source |-> optional(j, "source", get_string),
             message |-> mandatory(j, "message", get_string)])
get_Diagnostics(j) == get_array(get_Diagnostic, j)
get_PublishDiagnosticsParams(j) ==
  Mandatory([uri |-> mandatory(j, "uri", get_DocumentURI),
             version |-> optional(j, "version", get_integer),
             diagnostics |-> mandatory(j, "diagnostics", get_Diagnostics)])
=============================================================================
