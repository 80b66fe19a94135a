----------------------------- MODULE MCHandlers -----------------------------
(* Requests about two files, and what clangd may send.                     *)
EXTENDS Handlers, TLC

TwoSessions == 1..2

OptionsOf(min, length) == Obj([min_num_of_chars_for_completion |-> Num(min),
                               min_num_identifier_candidate_chars |-> Num(length)])
Files == {OptionsOf(2, 1), Obj(<<>>), Null,
          Obj([min_num_identifier_candidate_chars |-> Num(0)])}

Contents == Obj(("a.cpp" :> Obj([filetypes |-> Arr(<<Str("cpp")>>), contents |-> Str("text")]))
             @@ ("b.txt" :> Obj([filetypes |-> Arr(<<Str("text")>>), contents |-> Str("text")]))
             @@ ("u.txt" :> Obj([filetypes |-> Arr(<<Str("text")>>), contents |-> Str("umlaut")]))
             @@ ("new.md" :> Obj([filetypes |-> Arr(<<Str("md")>>), contents |-> Str("umlaut")])))
Request(path, column) ==
  [line_num |-> Num(1), column_num |-> Num(column), filepath |-> Str(path),
   file_data |-> Contents]
Without(f, n) == [m \in DOMAIN f \ {n} |-> f[m]]
With(f, n, j) == (n :> j) @@ f

CompletionBodies ==
  {Obj(Request("a.cpp", 4)), Obj(Request("a.cpp", 2)), Obj(Request("b.txt", 4)),
   Obj(With(Request("a.cpp", 4), "force_semantic", Bool(TRUE))),
   Obj(With(Request("b.txt", 4), "force_semantic", Bool(TRUE))),
   Obj(Request("b.txt", 9)), Obj(Request("u.txt", 4)), Obj(Request("new.md", 4)),
   Obj(With(Request("b.txt", 9), "force_semantic", Bool(TRUE))),
   Obj(Without(Request("a.cpp", 4), "line_num")),
   Obj(Request("c.cpp", 4)),
   Obj(With(Request("a.cpp", 4), "line_num", Str("1")))}
EventBodies ==
  {Obj(With(Request("b.txt", 4), "event_name", Str("FileSave"))),
   Obj(With(Request("b.txt", 4), "event_name", Str("none of them"))),
   Obj(Request("b.txt", 4))}
InitializeBodies ==
  {Obj([user_options |-> OptionsOf(0, 3)]), Obj([user_options |-> Obj(<<>>)]), Obj(<<>>)}
Sorted == Arr(<<Obj([name |-> Str("ab"), more |-> Num(1)]), Obj([name |-> Str("b")])>>)
FilterBodies ==
  {Obj([candidates |-> Sorted, sort_property |-> Str("name"), query |-> Str("b")]),
   Obj([candidates |-> Sorted, sort_property |-> Str("more"), query |-> Str("b")]),
   Obj([candidates |-> Sorted, query |-> Str("b")]),
   Obj([candidates |-> Arr(<<>>), query |-> Str("b")]),
   Obj([candidates |-> Sorted, sort_property |-> Str("name")])}

Calls(target, bodies) == {[target |-> target, body |-> b] : b \in bodies}
TwoClients ==
  <<Calls("completions", CompletionBodies),
    Calls("completions", {Obj(Request("a.cpp", 4))})
      \cup Calls("event_notification", EventBodies)
      \cup Calls("initialize", InitializeBodies)
      \cup Calls("filter_and_sort_candidates", FilterBodies)
      \cup Calls("debug_info", {Obj(Request("a.cpp", 4))})
      \cup {[target |-> t, body |-> Null] : t \in {"ready", "semantic_tokens"}}>>

(* What clangd answers                                                     *)
Zero == Obj([line |-> Num(0), character |-> Num(0)])
OneRange == Obj([start |-> Zero, end |-> Zero])
Edit == Obj([newText |-> Str("edited"), range |-> OneRange])
Good ==
  <<Obj([label |-> Str("f()"), kind |-> Num(3), insertText |-> Str("f"), detail |-> Str("int")]),
    Obj([label |-> Str("g"), kind |-> Num(99), textEdit |-> Edit, insertText |-> Str("h"),
         detail |-> Str("int"), documentation |-> Str("about g")])>>
Documented ==
  <<Obj([label |-> Str("f"), insertText |-> Null, detail |-> Str("int"),
         documentation |-> Obj([kind |-> Str("markdown"), value |-> Str("about f")])]),
    Obj([label |-> Str("g"), documentation |-> Obj([kind |-> Num(1), value |-> Str("x")]),
         additionalTextEdits |-> Arr(<<Edit>>)])>>
BadCharacters ==
  <<Obj([label |-> Str("f")]),
    Obj([label |-> Str("g"), commitCharacters |-> Arr(<<Str(".")>>)])>>
BadSortText == <<Obj([label |-> Str("f"), sortText |-> Num(1)])>>
BadEdit == <<Obj([label |-> Str("f"), textEdit |-> Obj([newText |-> Str("f")])])>>
Response(id, more) == Obj([jsonrpc |-> Str("2.0"), id |-> Num(id)] @@ more)
Responses(id) ==
  {Response(id, [result |-> Arr(items)]) : items \in {Good, BadEdit, BadSortText}}
  \cup {Response(id, [result |-> Obj([items |-> Arr(items), isIncomplete |-> Bool(FALSE)])]) :
         items \in {Good, Documented, BadCharacters}}
  \cup {Response(id, [result |-> Null]), Response(id, [result |-> Arr(<<>>)]),
        Response(id, [error |-> Obj([code |-> Num(1), message |-> Str("no"), data |-> Null])]),
        Response(id, [error |-> Obj([code |-> Num(1), message |-> Str("no")])])}

Notification(method, params) ==
  Obj([jsonrpc |-> Str("2.0"), method |-> Str(method), params |-> params])
Diagnostics(d) ==
  Notification("textDocument/publishDiagnostics",
               Obj([uri |-> Str("a.cpp"), diagnostics |-> Arr(<<d>>)]))
Problem == [range |-> OneRange, message |-> Str("problem")]
Others ==
  {Diagnostics(Obj(With(Problem, "code", Num(1)))),
   Diagnostics(Obj(With(Problem, "code", Str("unused")))),
   Diagnostics(Obj(With(Problem, "severity", Str("error")))),
   Diagnostics(Obj(Problem)), Diagnostics(Obj(Without(Problem, "message"))),
   Notification("$/progress", Null),
   Obj([jsonrpc |-> Str("2.0"), method |-> Num(1)]),
   Obj([jsonrpc |-> Str("2.0"), method |-> Str("workspace/configuration"), id |-> Num(1)]),
   Response(3, [result |-> Null]),
   Obj([jsonrpc |-> Str("2.0"), id |-> Null, result |-> Null]),
   Arr(<<>>)}
Messages == (UNION {Responses(s) : s \in Sessions}) \cup Others

(* Lines of four letters, the first of "umlaut" of two bytes.  A column    *)
(* past the end of the line starts at itself.  Nothing was learnt from     *)
(* files of type md.  Two identifiers match, of two and four characters.   *)
Four(req) == 4
IsUmlaut(req) == req.file_data[req.filepath].contents = "umlaut"
Column(req) == IF IsUmlaut(req) THEN req.column_num - 1 ELSE req.column_num
First(req) == IF Column(req) <= 5 THEN 1 ELSE Column(req)
FirstByte(req) == IF IsUmlaut(req) THEN First(req) + 1 ELSE First(req)
IsLearnt(req) == req.file_data[req.filepath].filetypes # <<"md">>
TwoIdentifiers(req) == IF req.filepath = "new.md" THEN <<>> ELSE <<"ab", "abcd">>
TextLength(i) == IF i = "ab" THEN 2 ELSE 4
EveryOther(strings, query) == IF strings = <<>> THEN <<>> ELSE <<Len(strings)>>
=============================================================================
