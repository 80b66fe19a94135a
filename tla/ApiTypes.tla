------------------------------ MODULE ApiTypes ------------------------------
(* The requests ycmd takes and the responses it gives (src/src/api.hpp),   *)
(* member by member: requests are read from JSON, responses are written,   *)
(* and a client reads the candidates in them.                              *)
EXTENDS Json

(* std::filesystem::path                                                   *)
get_FilePath(j) == get_string(j)

(* The places in a fix-it (Location and Range are also types of LSP)       *)
NoLocation == [line_num |-> IndeterminateInt, column_number |-> IndeterminateInt, filepath |-> ""]
NoRange == [start |-> NoLocation, end |-> NoLocation]
get_api_Location(j) ==
  WithDefault(j, [line_num |-> value(j, "line_num", get_int, IndeterminateInt),
                  column_number |-> value(j, "column_number", get_int, IndeterminateInt),
                  filepath |-> value(j, "filepath", get_FilePath, "")])
json_api_Location(v) ==
  Obj([line_num |-> Num(v.line_num), column_number |-> Num(v.column_number),
       filepath |-> Str(v.filepath)])
get_api_Range(j) == WithDefault(j, [start |-> value(j, "start", get_api_Location, NoLocation),
                                    end |-> value(j, "end", get_api_Location, NoLocation)])
json_api_Range(v) == Obj([start |-> json_api_Location(v.start), end |-> json_api_Location(v.end)])

get_Chunk(j) == WithDefault(j, [replacement_text |-> value(j, "replacement_text", get_string, ""),
                                range |-> value(j, "range", get_api_Range, NoRange)])
get_Chunks(j) == get_array(get_Chunk, j)
json_Chunk(v) ==
  Obj([replacement_text |-> Str(v.replacement_text), range |-> json_api_Range(v.range)])
get_FixIt(j) ==
  WithDefault(j, [text |-> value(j, "text", get_string, ""),
                  location |-> value(j, "location", get_api_Location, NoLocation),
                  resolve |-> optional(j, "resolve", get_bool),
                  kind |-> value(j, "kind", get_string, ""),
                  chunks |-> value(j, "chunks", get_Chunks, <<>>)])
get_FixIts(j) == get_array(get_FixIt, j)
json_FixIt(v) ==
  Obj(Written([text |-> <<Str(v.text)>>, location |-> <<json_api_Location(v.location)>>,
               resolve |-> if_set(Bool, v.resolve), kind |-> <<Str(v.kind)>>,
               chunks |-> <<json_array(json_Chunk, v.chunks)>>]))
json_FixIts(v) == json_array(json_FixIt, v)

(* Mutant: kind is missing there, too.                                     *)
CandidateWithoutKind(v) ==
  Obj(Written([insertion_text |-> <<Str(v.insertion_text)>>,
               extra_menu_info |-> if_set(Str, v.extra_menu_info),
               detailed_info |-> if_set(Str, v.detailed_info),
               extra_data |-> if_set(Str, v.extra_data),
               doc_string |-> if_set(Str, v.doc_string),
               fixits |-> if_set(json_FixIts, v.fixits)]))

(* menu_text is a member of the struct and missing in its conversions.     *)
get_Candidate(j) ==
  WithDefault(j, [insertion_text |-> value(j, "insertion_text", get_string, ""),
                  extra_menu_info |-> optional(j, "extra_menu_info", get_string),
                  detailed_info |-> optional(j, "detailed_info", get_string),
                  kind |-> optional(j, "kind", get_string),
                  extra_data |-> optional(j, "extra_data", get_string),
                  doc_string |-> optional(j, "doc_string", get_string),
                  fixits |-> optional(j, "fixits", get_FixIts)])
json_Candidate(v) ==
  Obj(Written([insertion_text |-> <<Str(v.insertion_text)>>,
               extra_menu_info |-> if_set(Str, v.extra_menu_info),
               detailed_info |-> if_set(Str, v.detailed_info),
               kind |-> if_set(Str, v.kind),
               extra_data |-> if_set(Str, v.extra_data),
               doc_string |-> if_set(Str, v.doc_string),
               fixits |-> if_set(json_FixIts, v.fixits)]))

(* Requests.                                                               *)
get_strings(j) == get_array(get_string, j)
get_jsons(j) == get_array(get_any, j)
get_FileData(j) == WithDefault(j, [filetypes |-> value(j, "filetypes", get_strings, <<>>),
                                   contents |-> value(j, "contents", get_string, "")])
get_FileDataMap(j) == get_map(get_FileData, j)

(* Mutant: every member is mandatory.                                      *)
StrictRequest(j) ==
  Mandatory([line_num |-> mandatory(j, "line_num", get_int),
             column_num |-> mandatory(j, "column_num", get_int),
             filepath |-> mandatory(j, "filepath", get_FilePath),
             file_data |-> mandatory(j, "file_data", get_FileDataMap),
             completer_target |-> mandatory(j, "completer_target", get_string),
             working_dir |-> mandatory(j, "working_dir", get_string),
             extra_conf_data |-> mandatory(j, "extra_conf_data", get_object)])

get_SimpleRequest(j) ==
  WithDefault(j, [line_num |-> value(j, "line_num", get_int, IndeterminateInt),
                  column_num |-> value(j, "column_num", get_int, IndeterminateInt),
                  filepath |-> value(j, "filepath", get_FilePath, ""),
                  file_data |-> value(j, "file_data", get_FileDataMap, <<>>),
                  completer_target |-> value(j, "completer_target", get_string, ""),
                  working_dir |-> value(j, "working_dir", get_string, ""),
                  extra_conf_data |-> value(j, "extra_conf_data", get_object, <<>>)])
get_FilterAndSortCandidatesRequest(j) ==
  Mandatory([candidates |-> mandatory(j, "candidates", get_jsons),
             sort_property |-> optional(j, "sort_property", get_string),
             query |-> mandatory(j, "query", get_string)])
get_InitializeRequest(j) == Mandatory([user_options |-> mandatory(j, "user_options", get_any)])
get_Event(j) == get_named(<<"FileReadyToParse", "FileSave", "BufferVisit", "BufferUnload",
                            "InsertLeave", "CurrentIdentifierFinished">>, j)
get_EventNotification(j) ==
  AndBase(get_SimpleRequest(j), j,
          [event_name |-> value(j, "event_name", get_Event, IndeterminateName)])

(* Responses.                                                              *)
json_Error(v) ==
  Obj([exception |-> Str(v.exception), message |-> Str(v.message), traceback |-> Str(v.traceback)])
json_Errors(v) == json_array(json_Error, v)
json_CompletionsResponse(v) ==
  Obj([completions |-> json_array(json_Candidate, v.completions),
       completion_start_column |-> Num(v.completion_start_column),
       errors |-> json_Errors(v.errors)])
json_SemanticTokensResponse(v) ==
  Obj([semantic_tokens |-> Obj([tokens |-> json_array(Num, v.semantic_tokens.tokens)]),
       errors |-> json_Errors(v.errors)])
json_InlayHint(v) == Obj([hint |-> Str(v.hint)])
json_InlayHintsResponse(v) ==
  Obj([inlay_hints |-> json_array(json_InlayHint, v.inlay_hints),
       errors |-> json_Errors(v.errors)])
json_DebugInfoResponse(v) ==
  Obj([python |-> Obj([executable |-> Str(v.python.executable),
                       version |-> or_null(Str, v.python.version)]),
       clang |-> Obj([has_support |-> Bool(v.clang.has_support),
                      version |-> or_null(Str, v.clang.version)]),
       extra_conf |-> Obj([path |-> Str(v.extra_conf.path),
                           is_loaded |-> Bool(v.extra_conf.is_loaded)]),
       completer |-> v.completer])
=============================================================================
