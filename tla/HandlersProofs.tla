--------------------------- MODULE HandlersProofs ---------------------------
(* Proofs about Handlers, for any requests and any messages of clangd:     *)
(* what can be read of a JSON value, what is written and read back, and an *)
(* inductive invariant about what every session asked and answered.        *)
EXTENDS Handlers, WellFoundedInduction, TLAPS

(* What can be read: a conversion throws unless the value has the members  *)
(* its type asks for.                                                      *)
LEMMA PositionRead == \A j : Threw(get_Position(j)) <=> ~PositionOK(j)
BY DEF get_Position, Mandatory, All, mandatory, get_integer, get_scalar, Threw, PositionOK, Has,
    from_member

RangeIn(j) == \A n \in {"start", "end"} : contains(j, n) /\ PositionOK(at(j, n))

LEMMA RangeRead == \A j : Threw(get_Range(j)) <=> ~RangeIn(j)
BY PositionRead DEF get_Range, Mandatory, All, mandatory, Threw, RangeIn, from_member

LEMMA EditRead == \A j : Threw(get_TextEdit(j)) <=> ~EditOK(j)
BY RangeRead
   DEF get_TextEdit, Mandatory, All, mandatory, get_string, get_scalar, Threw, EditOK, RangeOK,
       RangeIn, Has, from_member

LEMMA EditsRead ==
  \A j : Threw(get_TextEdits(j)) <=> ~(Is(j, "array") /\ \A e \in Elements(j) : EditOK(e))
<1> SUFFICES ASSUME NEW j
             PROVE  Threw(get_TextEdits(j))
                      <=> ~(Is(j, "array") /\ \A e \in Elements(j) : EditOK(e))
  OBVIOUS
<1>1. (\A e \in Elements(j) : EditOK(e)) <=> \A i \in DOMAIN j[2] : EditOK(j[2][i])
  BY DEF Elements
<1>2. (\E i \in DOMAIN j[2] : Threw(get_TextEdit(j[2][i])))
        <=> \E i \in DOMAIN j[2] : ~EditOK(j[2][i])
  BY EditRead
<1> QED
  BY <1>1, <1>2 DEF get_TextEdits, get_array, get_elements, All, Threw

LEMMA AnysRead == \A j : Threw(get_anys(j)) <=> ~Is(j, "array")
BY DEF get_anys, get_array, get_elements, All, get_any, Threw

LEMMA CommandRead == \A j : Threw(get_Command(j)) <=> ~CommandOK(j)
BY AnysRead
   DEF get_Command, Mandatory, All, mandatory, optional, get_optional, get_string, get_scalar,
       Threw, CommandOK, Has, IfGiven, Given, from_member

(* The members of a struct, read one by one                                *)
LEMMA AllThrows == \A rs : Threw(All(rs)) <=> \E n \in DOMAIN rs : Threw(rs[n])
BY DEF All, Threw

LEMMA AllGives ==
  ASSUME NEW rs, ~Threw(All(rs))
  PROVE  All(rs)[1] = [n \in DOMAIN rs |-> rs[n][1]]
BY DEF All, Threw

LEMMA WithDefaultThrows ==
  \A j, members : Threw(WithDefault(j, members))
                    <=> ~Is(j, "object") \/ \E n \in DOMAIN members : Threw(members[n])
BY DEF WithDefault, All, Threw

LEMMA AndBaseThrows ==
  \A base, j, members :
    Threw(AndBase(base, j, members)) <=> Threw(base) \/ Threw(WithDefault(j, members))
BY DEF AndBase, Threw

(* A variant never throws.                                                 *)
LEMMA DocumentationRead == \A j : ~Threw(get_documentation(j))
BY DEF get_documentation, one_of, Threw

LEMMA IdRead == \A j : ~Threw(get_ID(j))
BY DEF get_ID, one_of, Threw

OwnMembers(j) ==
    [label |-> value(j, "label", get_string, ""),
     kind |-> optional(j, "kind", get_integer),
     detail |-> optional(j, "detail", get_string),
     documentation |-> optional(j, "documentation", get_documentation),
     deprecated |-> optional(j, "deprecated", get_bool),
     preselect |-> optional(j, "preselect", get_bool),
     sortText |-> optional(j, "sortText", get_string),
     filterText |-> optional(j, "filterText", get_string),
     insertText |-> optional(j, "insertText", get_string),
     insertTextFormat |-> optional(j, "insertTextFormat", get_integer),
     textEdit |-> optional(j, "textEdit", get_TextEdit),
     additionalTextEdits |-> optional(j, "additionalTextEdits", get_TextEdits),
     commitCharacters |-> optional(j, "commitCharacters", get_string),
     command |-> optional(j, "command", get_Command),
     data |-> optional(j, "data", get_any)]

LEMMA OwnMembersRead ==
  ASSUME NEW j, Is(j, "object"), contains(j, "uri") => Has(j, "uri", "string")
  PROVE  (\E n \in DOMAIN OwnMembers(j) : Threw(OwnMembers(j)[n])) <=> ~ItemOK(j)
<1> DEFINE m == OwnMembers(j)
<1>1. Threw(m.label) <=> contains(j, "label") /\ ~Has(j, "label", "string")
  BY DEF OwnMembers, value, get_string, get_scalar, Threw, Has, from_member
<1>2. /\ Threw(m.kind) <=> ~IfGiven(j, "kind", "number")
      /\ Threw(m.insertTextFormat) <=> ~IfGiven(j, "insertTextFormat", "number")
  BY DEF OwnMembers, optional, get_optional, get_integer, get_scalar, Threw, IfGiven, Given,
      from_member
<1>3. /\ Threw(m.deprecated) <=> ~IfGiven(j, "deprecated", "boolean")
      /\ Threw(m.preselect) <=> ~IfGiven(j, "preselect", "boolean")
  BY DEF OwnMembers, optional, get_optional, get_bool, get_scalar, Threw, IfGiven, Given,
      from_member
<1>4. /\ Threw(m.detail) <=> ~IfGiven(j, "detail", "string")
      /\ Threw(m.sortText) <=> ~IfGiven(j, "sortText", "string")
      /\ Threw(m.filterText) <=> ~IfGiven(j, "filterText", "string")
      /\ Threw(m.insertText) <=> ~IfGiven(j, "insertText", "string")
      /\ Threw(m.commitCharacters) <=> ~IfGiven(j, "commitCharacters", "string")
  BY DEF OwnMembers, optional, get_optional, get_string, get_scalar, Threw, IfGiven, Given,
      from_member
<1>5. Threw(m.textEdit) <=> Given(j, "textEdit") /\ ~EditOK(at(j, "textEdit"))
  BY EditRead DEF OwnMembers, optional, get_optional, Threw, Given, from_member
<1>6. Threw(m.additionalTextEdits) <=>
        /\ Given(j, "additionalTextEdits")
        /\ ~ /\ Is(at(j, "additionalTextEdits"), "array")
             /\ \A e \in Elements(at(j, "additionalTextEdits")) : EditOK(e)
  BY EditsRead DEF OwnMembers, optional, get_optional, Threw, Given, from_member
<1>7. Threw(m.command) <=> Given(j, "command") /\ ~CommandOK(at(j, "command"))
  BY CommandRead DEF OwnMembers, optional, get_optional, Threw, Given, from_member
<1>8. ~Threw(m.documentation) /\ ~Threw(m.data)
  BY DocumentationRead DEF OwnMembers, optional, get_optional, get_any, Threw, from_member
<1>9. DOMAIN m = {"label", "kind", "detail", "documentation", "deprecated", "preselect",
                  "sortText", "filterText", "insertText", "insertTextFormat", "textEdit",
                  "additionalTextEdits", "commitCharacters", "command", "data"}
  BY DEF OwnMembers
<1> HIDE DEF m
<1>10. (\E n \in DOMAIN m : Threw(m[n])) <=>
         \/ Threw(m.label) \/ Threw(m.kind) \/ Threw(m.detail) \/ Threw(m.deprecated)
         \/ Threw(m.preselect) \/ Threw(m.sortText) \/ Threw(m.filterText)
         \/ Threw(m.insertText) \/ Threw(m.insertTextFormat) \/ Threw(m.textEdit)
         \/ Threw(m.additionalTextEdits) \/ Threw(m.commitCharacters) \/ Threw(m.command)
  BY <1>8, <1>9
<1>11. (\E n \in DOMAIN m : Threw(m[n])) <=> ~ItemOK(j)
  BY <1>1, <1>2, <1>3, <1>4, <1>5, <1>6, <1>7, <1>10 DEF ItemOK
<1> QED
  BY <1>11 DEF m

LEMMA ItemRead == \A j : Threw(get_CompletionItem(j)) <=> ~ItemOK(j)
<1> SUFFICES ASSUME NEW j PROVE Threw(get_CompletionItem(j)) <=> ~ItemOK(j)
  OBVIOUS
<1>1. Threw(get_TextDocumentIdentifier(j))
        <=> ~Is(j, "object") \/ (contains(j, "uri") /\ ~Has(j, "uri", "string"))
  <2> DEFINE uri == value(j, "uri", get_DocumentURI, "")
             m == [uri |-> uri]
  <2>1. Threw(uri) <=> contains(j, "uri") /\ ~Has(j, "uri", "string")
    BY DEF value, get_DocumentURI, get_string, get_scalar, Threw, Has, from_member
  <2>2. get_TextDocumentIdentifier(j) = WithDefault(j, m)
    BY DEF get_TextDocumentIdentifier
  <2> HIDE DEF uri
  <2>3. (\E n \in DOMAIN m : Threw(m[n])) <=> Threw(uri)
    OBVIOUS
  <2> HIDE DEF m
  <2> QED
    BY <2>1, <2>2, <2>3, WithDefaultThrows DEF Threw
<1>2. get_CompletionItem(j) = AndBase(get_TextDocumentIdentifier(j), j, OwnMembers(j))
  BY DEF get_CompletionItem, OwnMembers
<1>3. Threw(get_CompletionItem(j)) <=>
        \/ Threw(get_TextDocumentIdentifier(j))
        \/ ~Is(j, "object") \/ \E n \in DOMAIN OwnMembers(j) : Threw(OwnMembers(j)[n])
  <2>1. Threw(get_CompletionItem(j))
          <=> Threw(get_TextDocumentIdentifier(j)) \/ Threw(WithDefault(j, OwnMembers(j)))
    BY <1>2, AndBaseThrows DEF Threw
  <2> QED
    BY <2>1, WithDefaultThrows DEF Threw
<1>4. ItemOK(j) => Is(j, "object") /\ (contains(j, "uri") => Has(j, "uri", "string"))
  BY DEF ItemOK
<1> QED
  BY <1>1, <1>3, <1>4, OwnMembersRead

LEMMA AndBaseGives ==
  ASSUME NEW base, NEW j, NEW members, ~Threw(AndBase(base, j, members)),
         NEW n \in DOMAIN members
  PROVE  AndBase(base, j, members)[1][n] = members[n][1]
BY DEF AndBase, WithDefault, All, Threw, Joined

(* What is read of a completion item                                       *)
LEMMA ItemMembers ==
  ASSUME NEW j, ItemOK(j), NEW n \in DOMAIN OwnMembers(j)
  PROVE  get_CompletionItem(j)[1][n] = OwnMembers(j)[n][1]
<1>1. get_CompletionItem(j) = AndBase(get_TextDocumentIdentifier(j), j, OwnMembers(j))
  BY DEF get_CompletionItem, OwnMembers
<1>2. ~Threw(AndBase(get_TextDocumentIdentifier(j), j, OwnMembers(j)))
  BY <1>1, ItemRead DEF Threw
<1> QED
  BY <1>1, <1>2, AndBaseGives

LEMMA TextRead == ASSUME NEW j, ItemOK(j)
                  PROVE  Str(InsertionText(get_CompletionItem(j)[1])) = TextOf(j)
<1> DEFINE v == get_CompletionItem(j)[1]
<1>1. /\ v.textEdit = OwnMembers(j).textEdit[1]
      /\ v.insertText = OwnMembers(j).insertText[1]
      /\ v.label = OwnMembers(j).label[1]
  BY ItemMembers DEF OwnMembers
<1>2. v.label = IF contains(j, "label") THEN at(j, "label")[2] ELSE ""
  BY <1>1 DEF OwnMembers, value, get_string, get_scalar, ItemOK, Has, from_member
<1>3. v.insertText = IF Given(j, "insertText") THEN <<at(j, "insertText")[2]>> ELSE <<>>
  BY <1>1 DEF OwnMembers, optional, get_optional, get_string, get_scalar, Threw, ItemOK, IfGiven,
      Given, from_member
<1>4. ~Given(j, "textEdit") => v.textEdit = <<>>
  BY <1>1 DEF OwnMembers, optional, get_optional, Given, from_member
<1>5. ASSUME Given(j, "textEdit")
      PROVE  v.textEdit # <<>> /\ v.textEdit[1].newText = at(at(j, "textEdit"), "newText")[2]
  <2> DEFINE e == at(j, "textEdit")
  <2>1. EditOK(e)
    BY <1>5 DEF ItemOK
  <2>2. ~Threw(get_TextEdit(e))
    BY <2>1, EditRead
  <2>3. v.textEdit = get_TextEdit(e)
    BY <1>1, <1>5, <2>2 DEF OwnMembers, optional, get_optional, Given, Threw, from_member
  <2>4. get_TextEdit(e)[1].newText = e[2].newText[2]
    BY <2>1, <2>2 DEF get_TextEdit, Mandatory, All, mandatory, get_string, get_scalar, EditOK,
        Has, Threw, at, from_member
  <2> QED
    BY <2>2, <2>3, <2>4 DEF Threw, at
<1>6. \A k \in {"label", "insertText"} : Given(j, k) => Is(at(j, k), "string")
  BY DEF ItemOK, IfGiven, Has, Given
<1>7. CASE Given(j, "textEdit")
  BY <1>5, <1>7 DEF TextOf, InsertionText, Str, ItemOK, EditOK, Has, Is
<1>8. CASE ~Given(j, "textEdit") /\ Given(j, "insertText")
  BY <1>3, <1>4, <1>6, <1>8 DEF TextOf, InsertionText, value_or, Str, Is
<1>9. CASE ~Given(j, "textEdit") /\ ~Given(j, "insertText")
  <2>1. contains(j, "label") => Is(at(j, "label"), "string")
    BY DEF ItemOK, Has
  <2> QED
    BY <1>2, <1>3, <1>4, <1>9, <2>1 DEF TextOf, InsertionText, value_or, Str, Is
<1> QED
  BY <1>7, <1>8, <1>9

LEMMA InfoRead == ASSUME NEW j, ItemOK(j)
                  PROVE  Str(DetailedInfo(get_CompletionItem(j)[1])) = InfoOf(j)
<1> DEFINE v == get_CompletionItem(j)[1]
           doc == at(j, "documentation")
<1>1. /\ v.documentation = OwnMembers(j).documentation[1]
      /\ v.detail = OwnMembers(j).detail[1]
  BY ItemMembers DEF OwnMembers
<1>2. v.detail = IF Given(j, "detail") THEN <<at(j, "detail")[2]>> ELSE <<>>
  BY <1>1 DEF OwnMembers, optional, get_optional, get_string, get_scalar, Threw, ItemOK, IfGiven,
      Given, from_member
<1>3. Given(j, "detail") => Is(at(j, "detail"), "string")
  BY DEF ItemOK, IfGiven
<1>4. v.documentation = IF Given(j, "documentation") THEN get_documentation(doc) ELSE <<>>
  BY <1>1, DocumentationRead DEF OwnMembers, optional, get_optional, Given, Threw, from_member
<1>5. CASE ~Given(j, "documentation")
  <2>1. DetailedInfo(v) = value_or(v.detail, "")
    BY <1>4, <1>5 DEF DetailedInfo
  <2>2. InfoOf(j) = IF Given(j, "detail") THEN at(j, "detail") ELSE Str("")
    BY <1>5 DEF InfoOf
  <2>3. CASE Given(j, "detail")
    <3>1. Str(at(j, "detail")[2]) = at(j, "detail")
      BY <1>3, <2>3 DEF Str, Is
    <3>2. value_or(v.detail, "") = at(j, "detail")[2]
      BY <1>2, <2>3 DEF value_or
    <3> QED
      BY <2>1, <2>2, <2>3, <3>1, <3>2
  <2>4. CASE ~Given(j, "detail")
    <3>1. value_or(v.detail, "") = ""
      BY <1>2, <2>4 DEF value_or
    <3> QED
      BY <2>1, <2>2, <2>4, <3>1
  <2> QED
    BY <2>3, <2>4
<1>6. ASSUME Given(j, "documentation")
      PROVE  Str(DetailedInfo(v)) = Str(LET d == get_documentation(doc)[1]
                                        IN  IF d[1] = 1 THEN d[2] ELSE d[2].value)
  BY <1>4, <1>6, DocumentationRead DEF DetailedInfo, Threw
<1>7. /\ Threw(get_MarkupContent(doc))
           <=> ~(Has(doc, "kind", "number") /\ Has(doc, "value", "string"))
      /\ ~Threw(get_MarkupContent(doc)) => get_MarkupContent(doc)[1].value = at(doc, "value")[2]
  BY DEF get_MarkupContent, Mandatory, All, mandatory, get_string, get_integer, get_scalar, Threw,
      Has, from_member
<1>8. CASE Given(j, "documentation") /\ ~Threw(get_MarkupContent(doc))
  <2>1. get_documentation(doc)[1] = <<2, get_MarkupContent(doc)[1]>>
    BY <1>8 DEF get_documentation, one_of
  <2>2. Has(doc, "kind", "number") /\ Has(doc, "value", "string") /\ ~Is(doc, "string")
    BY <1>7, <1>8 DEF Has, contains, Is
  <2>3. InfoOf(j) = at(doc, "value")
    BY <1>8, <2>2 DEF InfoOf
  <2> QED
    BY <1>6, <1>7, <1>8, <2>1, <2>2, <2>3 DEF Str, Has, Is
<1>9. CASE Given(j, "documentation") /\ Threw(get_MarkupContent(doc))
  <2>1. get_documentation(doc)[1] = IF Is(doc, "string") THEN <<1, doc[2]>> ELSE <<1, "">>
    BY <1>9 DEF get_documentation, one_of, get_string, get_scalar, Threw
  <2>2. ~(Has(doc, "kind", "number") /\ Has(doc, "value", "string"))
    BY <1>7, <1>9
  <2>3. InfoOf(j) = IF Is(doc, "string") THEN doc ELSE Str("")
    BY <1>9, <2>2 DEF InfoOf
  <2>4. CASE Is(doc, "string")
    <3>1. Str(doc[2]) = doc
      BY <2>4 DEF Str, Is
    <3>2. get_documentation(doc)[1] = <<1, doc[2]>>
      BY <2>1, <2>4
    <3>3. (LET d == get_documentation(doc)[1] IN IF d[1] = 1 THEN d[2] ELSE d[2].value) = doc[2]
      BY <3>2
    <3> QED
      BY <1>6, <1>9, <2>3, <2>4, <3>1, <3>3
  <2>5. CASE ~Is(doc, "string")
    <3> DEFINE none == ""
    <3>1. get_documentation(doc)[1] = <<1, none>>
      BY <2>1, <2>5
    <3> HIDE DEF none
    <3>2. (LET d == get_documentation(doc)[1] IN IF d[1] = 1 THEN d[2] ELSE d[2].value) = none
      BY <3>1
    <3> QED
      BY <1>6, <1>9, <2>3, <2>5, <3>2 DEF none
  <2> QED
    BY <2>4, <2>5
<1> QED
  BY <1>5, <1>8, <1>9

(* Responses                                                               *)
LEMMA ItemsRead ==
  \A j : Threw(get_CompletionItems(j))
           <=> ~(Is(j, "array") /\ \A i \in DOMAIN j[2] : ItemOK(j[2][i]))
<1> SUFFICES ASSUME NEW j
             PROVE  Threw(get_CompletionItems(j))
                      <=> ~(Is(j, "array") /\ \A i \in DOMAIN j[2] : ItemOK(j[2][i]))
  OBVIOUS
<1>1. (\E i \in DOMAIN j[2] : Threw(get_CompletionItem(j[2][i])))
        <=> \E i \in DOMAIN j[2] : ~ItemOK(j[2][i])
  BY ItemRead
<1> QED
  BY <1>1 DEF get_CompletionItems, get_array, get_elements, All, Threw

LEMMA ItemsGiven ==
  ASSUME NEW j, ~Threw(get_CompletionItems(j))
  PROVE  get_CompletionItems(j)[1] = [i \in DOMAIN j[2] |-> get_CompletionItem(j[2][i])[1]]
BY DEF get_CompletionItems, get_array, get_elements, All, Threw

(* What a list is but for its items                                        *)
IsList(j) == Has(j, "items", "array") /\ Has(j, "isIncomplete", "boolean")

LEMMA ListRead ==
  ASSUME NEW j
  PROVE  /\ Threw(get_CompletionList(j))
              <=> ~(IsList(j) /\ ~Threw(get_CompletionItems(at(j, "items"))))
         /\ ~Threw(get_CompletionList(j)) =>
              get_CompletionList(j)[1].items = get_CompletionItems(at(j, "items"))[1]
<1>1. Is(at(j, "items"), "array") \/ Threw(get_CompletionItems(at(j, "items")))
  BY ItemsRead
<1>2. Threw(get_CompletionList(j))
        <=> ~(IsList(j) /\ ~Threw(get_CompletionItems(at(j, "items"))))
  BY <1>1 DEF get_CompletionList, Mandatory, All, mandatory, get_bool, get_scalar, Threw, Has,
      IsList, from_member
<1>3. ~Threw(get_CompletionList(j)) =>
              get_CompletionList(j)[1].items = get_CompletionItems(at(j, "items"))[1]
  BY <1>1 DEF get_CompletionList, Mandatory, All, mandatory, get_bool, get_scalar, Threw, Has,
      from_member
<1> QED
  BY <1>2, <1>3

OwnResponse(m) == [id |-> value(m, "id", get_ID, <<1, "">>),
                   result |-> optional(m, "result", get_CompletionsResponse),
                   error |-> optional(m, "error", get_ResponseError)]
TheResponse(m) == get_ResponseMessage(get_CompletionsResponse, m)

LEMMA MessageRead == \A j : Threw(get_Message(j)) <=> ~Has(j, "jsonrpc", "string")
<1> SUFFICES ASSUME NEW j PROVE Threw(get_Message(j)) <=> ~Has(j, "jsonrpc", "string")
  OBVIOUS
<1> DEFINE version == mandatory(j, "jsonrpc", get_string)
           m == [jsonrpc |-> version]
<1>1. Threw(version) <=> ~Has(j, "jsonrpc", "string")
  BY DEF mandatory, get_string, get_scalar, Threw, Has, from_member
<1>2. get_Message(j) = All(m)
  BY DEF get_Message, Mandatory
<1> HIDE DEF version
<1>3. (\E n \in DOMAIN m : Threw(m[n])) <=> Threw(version)
  OBVIOUS
<1> HIDE DEF m
<1> QED
  BY <1>1, <1>2, <1>3, AllThrows DEF Threw

ErrorOK(e) == Has(e, "code", "number") /\ Has(e, "message", "string") /\ contains(e, "data")

LEMMA ErrorRead == \A j : Threw(get_ResponseError(j)) <=> ~ErrorOK(j)
BY DEF get_ResponseError, Mandatory, All, mandatory, get_integer, get_string, get_scalar, get_any,
    Threw, ErrorOK, Has, from_member

LEMMA CompletionsRead == \A j : ~Threw(get_CompletionsResponse(j))
BY DEF get_CompletionsResponse, one_of, Threw

LEMMA ResponseRead ==
  ASSUME NEW m
  PROVE  /\ Threw(TheResponse(m)) <=> ~ResponseOK(m)
         /\ ResponseOK(m) => /\ TheResponse(m)[1].result = OwnResponse(m).result[1]
                             /\ TheResponse(m)[1].error = OwnResponse(m).error[1]
<1> DEFINE own == OwnResponse(m)
<1>1. TheResponse(m) = AndBase(get_Message(m), m, own)
  BY DEF TheResponse, get_ResponseMessage, ResponseMessage, OwnResponse
<1>2. ~Threw(own.id) /\ ~Threw(own.result)
  BY IdRead, CompletionsRead DEF OwnResponse, value, optional, get_optional, Threw, from_member
<1>3. Threw(own.error) <=> Given(m, "error") /\ ~ErrorOK(at(m, "error"))
  BY ErrorRead DEF OwnResponse, optional, get_optional, Threw, Given, from_member
<1>4. DOMAIN own = {"id", "result", "error"}
  BY DEF OwnResponse
<1> HIDE DEF own
<1>5. (\E n \in DOMAIN own : Threw(own[n])) <=> Threw(own.error)
  BY <1>2, <1>4
<1>6. Threw(TheResponse(m)) <=> ~ResponseOK(m)
  <2>1. Threw(TheResponse(m)) <=> Threw(get_Message(m)) \/ Threw(WithDefault(m, own))
    BY <1>1, AndBaseThrows DEF Threw
  <2>2. Threw(WithDefault(m, own)) <=> ~Is(m, "object") \/ Threw(own.error)
    BY <1>5, WithDefaultThrows DEF Threw
  <2>3. Has(m, "jsonrpc", "string") => Is(m, "object")
    BY DEF Has, contains
  <2> QED
    BY <1>3, <2>1, <2>2, <2>3, MessageRead DEF ResponseOK, ErrorOK
<1>7. ASSUME ResponseOK(m)
      PROVE  TheResponse(m)[1].result = own.result[1] /\ TheResponse(m)[1].error = own.error[1]
  BY <1>1, <1>4, <1>6, <1>7, AndBaseGives DEF Threw
<1> QED
  BY <1>6, <1>7 DEF own

(* The items of clangd's response: those that can be read, if all can be   *)
LEMMA ResponseItems ==
  ASSUME NEW m, ResponseOK(m)
  PROVE  LET items == ResultItems(m)
             read_items == Items(TheResponse(m)[1])
         IN  IF \A i \in DOMAIN items : ItemOK(items[i])
             THEN /\ DOMAIN read_items = DOMAIN items
                  /\ \A i \in DOMAIN items : read_items[i] = get_CompletionItem(items[i])[1]
             ELSE read_items = <<>>
<1> DEFINE r == TheResponse(m)[1]
           items == ResultItems(m)
           result == at(m, "result")
           AllOK == \A i \in DOMAIN items : ItemOK(items[i])
<1>1. /\ r.error = IF Given(m, "error") THEN get_ResponseError(at(m, "error")) ELSE <<>>
      /\ ~Threw(get_ResponseError(at(m, "error"))) \/ ~Given(m, "error")
  <2>1. Given(m, "error") => ~Threw(get_ResponseError(at(m, "error")))
    BY ErrorRead DEF ResponseOK, ErrorOK
  <2> QED
    BY <2>1, ResponseRead DEF OwnResponse, optional, get_optional, Given, Threw, from_member
<1>2. r.result = IF Given(m, "result") THEN get_CompletionsResponse(result) ELSE <<>>
  BY ResponseRead, CompletionsRead DEF OwnResponse, optional, get_optional, Given, Threw,
      from_member
<1>3. CASE Given(m, "error") \/ ~Given(m, "result")
  <2>1. Items(r) = <<>>
    BY <1>1, <1>2, <1>3 DEF Items, Threw
  <2>2. items = <<>>
    BY <1>3 DEF ResultItems
  <2> QED
    BY <2>1, <2>2
<1>4. ASSUME ~Given(m, "error"), Given(m, "result")
      PROVE  Items(r) = LET v == get_CompletionsResponse(result)[1]
                        IN  IF v[1] = 1 THEN v[2] ELSE v[2].items
  BY <1>1, <1>2, <1>4, CompletionsRead DEF Items, Threw
<1> DEFINE list == get_CompletionList(result)
           array == get_CompletionItems(result)
<1>5. CASE ~Given(m, "error") /\ Given(m, "result") /\ ~Threw(list)
  <2>1. IsList(result) /\ ~Threw(get_CompletionItems(at(result, "items")))
    BY <1>5, ListRead
  <2>2. items = at(result, "items")[2]
    <3>1. ~Is(result, "array")
      BY <2>1 DEF IsList, Has, contains, Is
    <3> QED
      BY <1>5, <2>1, <3>1 DEF ResultItems, IsList
  <2>3. AllOK
    BY <2>1, <2>2, ItemsRead
  <2>4. get_CompletionsResponse(result)[1] = <<2, list[1]>>
    BY <1>5 DEF get_CompletionsResponse, one_of
  <2> HIDE DEF list
  <2>5. Items(r) = list[1].items
    BY <1>4, <1>5, <2>4
  <2>6. list[1].items = get_CompletionItems(at(result, "items"))[1]
    BY <1>5, ListRead DEF list
  <2>7. Items(r) = [i \in DOMAIN items |-> get_CompletionItem(items[i])[1]]
    BY <2>1, <2>2, <2>5, <2>6, ItemsGiven
  <2> QED
    BY <2>3, <2>7
<1>6. CASE ~Given(m, "error") /\ Given(m, "result") /\ Threw(list) /\ ~Threw(array)
  <2>1. Is(result, "array")
    BY <1>6, ItemsRead
  <2>2. items = result[2]
    BY <1>6, <2>1 DEF ResultItems
  <2>3. AllOK
    BY <1>6, <2>2, ItemsRead
  <2>4. get_CompletionsResponse(result)[1] = <<1, array[1]>>
    BY <1>6 DEF get_CompletionsResponse, one_of
  <2> HIDE DEF array
  <2>5. Items(r) = array[1]
    BY <1>4, <1>6, <2>4
  <2>6. Items(r) = [i \in DOMAIN items |-> get_CompletionItem(items[i])[1]]
    BY <1>6, <2>2, <2>5, ItemsGiven DEF array
  <2> QED
    BY <2>3, <2>6
<1>7. CASE ~Given(m, "error") /\ Given(m, "result") /\ Threw(list) /\ Threw(array)
  <2> DEFINE none == <<>>
  <2>1. get_CompletionsResponse(result)[1] = <<1, none>>
    BY <1>7 DEF get_CompletionsResponse, one_of
  <2> HIDE DEF none
  <2>2. Items(r) = none
    BY <1>4, <1>7, <2>1
  <2>3. CASE Is(result, "array")
    <3>1. items = result[2]
      BY <1>7, <2>3 DEF ResultItems
    <3>2. ~AllOK
      BY <1>7, <2>3, <3>1, ItemsRead
    <3> QED
      BY <2>2, <3>2 DEF none
  <2>4. CASE ~Is(result, "array") /\ IsList(result)
    <3>1. items = at(result, "items")[2]
      BY <1>7, <2>4 DEF ResultItems, IsList
    <3>2. Threw(get_CompletionItems(at(result, "items")))
      BY <1>7, <2>4, ListRead
    <3>3. ~AllOK
      BY <2>4, <3>1, <3>2, ItemsRead DEF IsList, Has
    <3> QED
      BY <2>2, <3>3 DEF none
  <2>5. CASE ~Is(result, "array") /\ ~IsList(result)
    <3>1. items = <<>>
      BY <1>7, <2>5 DEF ResultItems, IsList
    <3> QED
      BY <2>2, <3>1 DEF none
  <2> QED
    BY <2>3, <2>4, <2>5
<1> QED
  BY <1>3, <1>5, <1>6, <1>7

(* Diagnostics                                                             *)
DiagnosticOK(d) ==
  /\ RangeOK(d) /\ Has(d, "message", "string") /\ IfGiven(d, "source", "string")
  /\ \A n \in {"severity", "code"} : IfGiven(d, n, "number")

LEMMA DiagnosticRead == \A d : Threw(get_Diagnostic(d)) <=> ~DiagnosticOK(d)
<1> SUFFICES ASSUME NEW d PROVE Threw(get_Diagnostic(d)) <=> ~DiagnosticOK(d)
  OBVIOUS
<1> DEFINE m == [range |-> mandatory(d, "range", get_Range),
                 severity |-> optional(d, "severity", get_integer),
                 code |-> optional(d, "code", get_integer),
                 source |-> optional(d, "source", get_string),
                 message |-> mandatory(d, "message", get_string)]
<1>1. Threw(m.range) <=> ~RangeOK(d)
  BY RangeRead DEF mandatory, Threw, RangeOK, RangeIn, from_member
<1>2. /\ Threw(m.severity) <=> ~IfGiven(d, "severity", "number")
      /\ Threw(m.code) <=> ~IfGiven(d, "code", "number")
  BY DEF optional, get_optional, get_integer, get_scalar, Threw, IfGiven, Given, from_member
<1>3. /\ Threw(m.source) <=> ~IfGiven(d, "source", "string")
      /\ Threw(m.message) <=> ~Has(d, "message", "string")
  BY DEF mandatory, optional, get_optional, get_string, get_scalar, Threw, IfGiven, Given, Has,
      from_member
<1>4. get_Diagnostic(d) = All(m)
  BY DEF get_Diagnostic, Mandatory
<1>5. DOMAIN m = {"range", "severity", "code", "source", "message"}
  OBVIOUS
<1> HIDE DEF m
<1>6. Threw(All(m)) <=> \/ Threw(m.range) \/ Threw(m.severity) \/ Threw(m.code)
                        \/ Threw(m.source) \/ Threw(m.message)
  BY <1>5, AllThrows
<1> QED
  BY <1>1, <1>2, <1>3, <1>4, <1>6 DEF DiagnosticOK

LEMMA DiagnosticsRead ==
  \A j : Threw(get_Diagnostics(j))
           <=> ~(Is(j, "array") /\ \A d \in Elements(j) : DiagnosticOK(d))
<1> SUFFICES ASSUME NEW j
             PROVE  Threw(get_Diagnostics(j))
                      <=> ~(Is(j, "array") /\ \A d \in Elements(j) : DiagnosticOK(d))
  OBVIOUS
<1>1. (\A d \in Elements(j) : DiagnosticOK(d)) <=> \A i \in DOMAIN j[2] : DiagnosticOK(j[2][i])
  BY DEF Elements
<1>2. (\E i \in DOMAIN j[2] : Threw(get_Diagnostic(j[2][i])))
        <=> \E i \in DOMAIN j[2] : ~DiagnosticOK(j[2][i])
  BY DiagnosticRead
<1> QED
  BY <1>1, <1>2 DEF get_Diagnostics, get_array, get_elements, All, Threw

ParamsOK(p) ==
  /\ Has(p, "uri", "string") /\ IfGiven(p, "version", "number")
  /\ Has(p, "diagnostics", "array")
  /\ \A d \in Elements(at(p, "diagnostics")) : DiagnosticOK(d)

LEMMA ParamsRead == \A p : Threw(get_PublishDiagnosticsParams(p)) <=> ~ParamsOK(p)
BY DiagnosticsRead
   DEF get_PublishDiagnosticsParams, get_DocumentURI, Mandatory, All, mandatory, optional,
       get_optional, get_string, get_integer, get_scalar, Threw, ParamsOK, Has, IfGiven, Given,
       from_member

LEMMA NotificationRead ==
  \A m : Has(m, "method", "string") =>
           (Threw(get_NotificationMessage(get_PublishDiagnosticsParams, m)) <=> ~DiagnosticsOK(m))
<1> SUFFICES ASSUME NEW m, Has(m, "method", "string")
             PROVE  Threw(get_NotificationMessage(get_PublishDiagnosticsParams, m))
                      <=> ~DiagnosticsOK(m)
  OBVIOUS
<1> DEFINE own == [method |-> value(m, "method", get_string, ""),
                   params |-> optional(m, "params", get_PublishDiagnosticsParams)]
           notification == get_NotificationMessage(get_PublishDiagnosticsParams, m)
<1>1. notification = AndBase(get_Message(m), m, own)
  BY DEF get_NotificationMessage, NotificationMessage
<1>2. ~Threw(own.method)
  BY DEF value, get_string, get_scalar, Threw, Has, from_member
<1>3. Threw(own.params) <=> Given(m, "params") /\ ~ParamsOK(at(m, "params"))
  BY ParamsRead DEF optional, get_optional, Threw, Given, from_member
<1>4. DOMAIN own = {"method", "params"}
  OBVIOUS
<1> HIDE DEF own, notification
<1>5. (\E n \in DOMAIN own : Threw(own[n])) <=> Threw(own.params)
  BY <1>2, <1>4
<1>6. Threw(notification) <=> Threw(get_Message(m)) \/ Threw(WithDefault(m, own))
  BY <1>1, AndBaseThrows DEF Threw
<1>7. Threw(WithDefault(m, own)) <=> ~Is(m, "object") \/ Threw(own.params)
  BY <1>5, WithDefaultThrows DEF Threw
<1>8. Has(m, "jsonrpc", "string") => Is(m, "object")
  BY DEF Has, contains
<1>9. DiagnosticsOK(m)
        <=> Has(m, "jsonrpc", "string") /\ (Given(m, "params") => ParamsOK(at(m, "params")))
  BY DEF DiagnosticsOK, ParamsOK, DiagnosticOK
<1>10. Threw(notification) <=> ~DiagnosticsOK(m)
  BY <1>3, <1>6, <1>7, <1>8, <1>9, MessageRead
<1> QED
  BY <1>10 DEF notification

(* Requests                                                                *)
RequestMembers(j) ==
  [line_num |-> value(j, "line_num", get_int, IndeterminateInt),
   column_num |-> value(j, "column_num", get_int, IndeterminateInt),
   filepath |-> value(j, "filepath", get_FilePath, ""),
   file_data |-> value(j, "file_data", get_FileDataMap, <<>>),
   completer_target |-> value(j, "completer_target", get_string, ""),
   working_dir |-> value(j, "working_dir", get_string, ""),
   extra_conf_data |-> value(j, "extra_conf_data", get_object, <<>>)]

LEMMA FileRead == \A f : FileOK(f) => ~Threw(get_FileData(f))
<1> SUFFICES ASSUME NEW f, FileOK(f) PROVE ~Threw(get_FileData(f))
  OBVIOUS
<1> DEFINE types == at(f, "filetypes")
<1>1. (\A e \in Elements(types) : Is(e, "string"))
        => \A i \in DOMAIN types[2] : Is(types[2][i], "string")
  BY DEF Elements
<1>2. Is(types, "array") /\ \A i \in DOMAIN types[2] : ~Threw(get_string(types[2][i]))
  BY <1>1 DEF FileOK, AreStrings, get_string, get_scalar, Threw
<1>3. ~Threw(get_strings(types))
  BY <1>2 DEF get_strings, get_array, get_elements, All, Threw
<1> DEFINE m == [filetypes |-> value(f, "filetypes", get_strings, <<>>),
                 contents |-> value(f, "contents", get_string, "")]
<1>4. ~Threw(m.filetypes)
  BY <1>3 DEF value, Threw, FileOK, from_member
<1>5. ~Threw(m.contents)
  BY DEF value, get_string, get_scalar, Threw, FileOK, Has, from_member
<1>6. get_FileData(f) = WithDefault(f, m) /\ Is(f, "object")
  BY DEF get_FileData, FileOK, contains
<1>7. DOMAIN m = {"filetypes", "contents"}
  OBVIOUS
<1> HIDE DEF m
<1> QED
  BY <1>4, <1>5, <1>6, <1>7, WithDefaultThrows DEF Threw

LEMMA FilesRead ==
  ASSUME NEW j, Is(j, "object"), \A n \in DOMAIN j[2] : FileOK(at(j, n))
  PROVE  ~Threw(get_FileDataMap(j)) /\ DOMAIN get_FileDataMap(j)[1] = DOMAIN j[2]
<1>1. \A n \in DOMAIN j[2] : ~Threw(get_FileData(j[2][n]))
  BY FileRead DEF at
<1> QED
  BY <1>1 DEF get_FileDataMap, get_map, get_elements, All, Threw

LEMMA RequestRead ==
  ASSUME NEW body, RequestOK(body)
  PROVE  /\ ~Threw(get_SimpleRequest(body))
         /\ {"filepath", "file_data"} \subseteq DOMAIN get_SimpleRequest(body)[1]
         /\ get_SimpleRequest(body)[1].line_num = at(body, "line_num")[2]
         /\ get_SimpleRequest(body)[1].filepath = at(body, "filepath")[2]
         /\ get_SimpleRequest(body)[1].filepath \in DOMAIN get_SimpleRequest(body)[1].file_data
<1> DEFINE m == RequestMembers(body)
           files == at(body, "file_data")
           r == get_SimpleRequest(body)
<1>1. ~Threw(get_FileDataMap(files)) /\ DOMAIN get_FileDataMap(files)[1] = DOMAIN files[2]
  BY FilesRead DEF RequestOK, Has
<1>2. m.file_data = get_FileDataMap(files)
  BY DEF RequestMembers, value, RequestOK, Has, from_member
<1>3. /\ ~Threw(m.line_num) /\ ~Threw(m.column_num) /\ m.line_num[1] = at(body, "line_num")[2]
      /\ ~Threw(m.filepath) /\ m.filepath[1] = at(body, "filepath")[2]
  BY DEF RequestMembers, value, get_int, get_integer, get_FilePath, get_string, get_scalar, Threw,
      RequestOK, Has, Is, from_member
<1>4. ~Threw(m.completer_target) /\ ~Threw(m.working_dir) /\ ~Threw(m.extra_conf_data)
  BY DEF RequestMembers, value, get_string, get_object, get_scalar, Threw, RequestOK, Has,
      from_member
<1>5. DOMAIN m = {"line_num", "column_num", "filepath", "file_data", "completer_target",
                  "working_dir", "extra_conf_data"}
  BY DEF RequestMembers
<1>6. r = WithDefault(body, m) /\ Is(body, "object")
  BY DEF get_SimpleRequest, RequestMembers, RequestOK, Has, contains
<1>7. contains(files, at(body, "filepath")[2])
  BY DEF RequestOK
<1> HIDE DEF m, r, files
<1>8. \A n \in DOMAIN m : ~Threw(m[n])
  BY <1>1, <1>2, <1>3, <1>4, <1>5
<1>9. ~Threw(r)
  BY <1>6, <1>8, WithDefaultThrows DEF Threw
<1>10. r[1] = [n \in DOMAIN m |-> m[n][1]]
  BY <1>6, <1>8 DEF WithDefault, All
<1>11. r[1].line_num = m.line_num[1] /\ r[1].filepath = m.filepath[1]
       /\ r[1].file_data = m.file_data[1]
  BY <1>5, <1>10
<1>12. r[1].filepath \in DOMAIN r[1].file_data
  BY <1>1, <1>2, <1>3, <1>7, <1>11 DEF contains, at
<1> QED
  BY <1>3, <1>5, <1>9, <1>10, <1>11, <1>12 DEF r

LEMMA EventRead ==
  ASSUME NEW body, RequestOK(body)
  PROVE  /\ ~Threw(get_EventNotification(body))
         /\ get_EventNotification(body)[1].filepath
              \in DOMAIN get_EventNotification(body)[1].file_data
<1> DEFINE event == value(body, "event_name", get_Event, IndeterminateName)
           own == [event_name |-> event]
           base == get_SimpleRequest(body)
           r == get_EventNotification(body)
<1>1. ~Threw(event)
  BY DEF value, get_Event, get_named, Threw, from_member
<1>2. r = AndBase(base, body, own) /\ Is(body, "object")
  BY DEF get_EventNotification, RequestOK, Has, contains
<1> HIDE DEF event
<1>3. (\E n \in DOMAIN own : Threw(own[n])) <=> Threw(event)
  OBVIOUS
<1>4. DOMAIN own = {"event_name"}
  OBVIOUS
<1> HIDE DEF own, r, base
<1>5. ~Threw(WithDefault(body, own))
  BY <1>1, <1>2, <1>3, WithDefaultThrows DEF Threw
<1>6. ~Threw(base) /\ base[1].filepath \in DOMAIN base[1].file_data
  BY RequestRead DEF base
<1>7. ~Threw(r)
  BY <1>2, <1>5, <1>6, AndBaseThrows DEF Threw
<1>8. r[1] = Joined(base[1], WithDefault(body, own)[1])
  BY <1>2, <1>5, <1>6 DEF AndBase
<1>9. WithDefault(body, own)[1] = [n \in DOMAIN own |-> own[n][1]]
  BY <1>5 DEF WithDefault, All, Threw
<1>10. {"filepath", "file_data"} \subseteq DOMAIN base[1]
  BY RequestRead DEF base
<1>11. r[1].filepath = base[1].filepath /\ r[1].file_data = base[1].file_data
  BY <1>4, <1>8, <1>9, <1>10 DEF Joined
<1> QED
  BY <1>6, <1>7, <1>11 DEF r

LEMMA AnysGiven == \A j : Is(j, "array") => get_jsons(j) = <<[i \in DOMAIN j[2] |-> j[2][i]]>>
BY DEF get_jsons, get_array, get_elements, All, get_any, Threw

Filter(body) == get_FilterAndSortCandidatesRequest(body)

LEMMA FilterRead ==
  ASSUME NEW body, FilterOK(body)
  PROVE  /\ ~Threw(Filter(body))
         /\ \A i \in DOMAIN Filter(body)[1].candidates :
              /\ Filter(body)[1].sort_property # <<>>
              /\ contains(Filter(body)[1].candidates[i], Filter(body)[1].sort_property[1])
              /\ Is(at(Filter(body)[1].candidates[i], Filter(body)[1].sort_property[1]), "string")
<1> DEFINE m == [candidates |-> mandatory(body, "candidates", get_jsons),
                 sort_property |-> optional(body, "sort_property", get_string),
                 query |-> mandatory(body, "query", get_string)]
           j == at(body, "candidates")
           property == at(body, "sort_property")
           r == Filter(body)
<1>1. m.candidates = <<[i \in DOMAIN j[2] |-> j[2][i]]>>
  BY AnysGiven DEF mandatory, FilterOK, Has, from_member
<1>2. m.sort_property = IF Given(body, "sort_property") THEN <<<<property[2]>>>> ELSE <<<<>>>>
  BY DEF optional, get_optional, get_string, get_scalar, Threw, FilterOK, IfGiven, Given,
      from_member
<1>3. m.query = <<at(body, "query")[2]>>
  BY DEF mandatory, get_string, get_scalar, FilterOK, Has, from_member
<1>4. r = All(m) /\ DOMAIN m = {"candidates", "sort_property", "query"}
  BY DEF Filter, get_FilterAndSortCandidatesRequest, Mandatory
<1> HIDE DEF m, r
<1>5. \A n \in DOMAIN m : ~Threw(m[n])
  BY <1>1, <1>2, <1>3, <1>4 DEF Threw
<1>6. ~Threw(r)
  BY <1>4, <1>5, AllThrows
<1>7. r[1] = [n \in DOMAIN m |-> m[n][1]]
  BY <1>4, <1>6, AllGives
<1>8. r[1].candidates = [i \in DOMAIN j[2] |-> j[2][i]]
      /\ r[1].sort_property = IF Given(body, "sort_property") THEN <<property[2]>> ELSE <<>>
  BY <1>1, <1>2, <1>4, <1>7
<1>9. \A i \in DOMAIN j[2] : /\ Given(body, "sort_property")
                             /\ contains(j[2][i], property[2])
                             /\ Is(at(j[2][i], property[2]), "string")
  BY DEF FilterOK, Elements, Has
<1>10. \A i \in DOMAIN r[1].candidates :
         /\ r[1].sort_property # <<>>
         /\ contains(r[1].candidates[i], r[1].sort_property[1])
         /\ Is(at(r[1].candidates[i], r[1].sort_property[1]), "string")
  BY <1>8, <1>9
<1> QED
  BY <1>6, <1>10 DEF r

LEMMA InitializeRead ==
  \A body : Threw(get_InitializeRequest(body)) <=> ~contains(body, "user_options")
<1> SUFFICES ASSUME NEW body
             PROVE  Threw(get_InitializeRequest(body)) <=> ~contains(body, "user_options")
  OBVIOUS
<1> DEFINE options == mandatory(body, "user_options", get_any)
           m == [user_options |-> options]
<1>1. Threw(options) <=> ~contains(body, "user_options")
  BY DEF mandatory, get_any, Threw, from_member
<1>2. get_InitializeRequest(body) = All(m)
  BY DEF get_InitializeRequest, Mandatory
<1> HIDE DEF options
<1>3. (\E n \in DOMAIN m : Threw(m[n])) <=> Threw(options)
  OBVIOUS
<1> HIDE DEF m
<1> QED
  BY <1>1, <1>2, <1>3, AllThrows DEF Threw

(* What is written                                                         *)
LEMMA WrittenRead ==
  ASSUME NEW ms, NEW n
  PROVE  LET j == Obj(Written(ms))
         IN  /\ Is(j, "object")
             /\ contains(j, n) <=> n \in DOMAIN ms /\ ms[n] # <<>>
             /\ contains(j, n) => at(j, n) = ms[n][1]
BY DEF Obj, Written, Is, contains, at

LEMMA ScalarsRead ==
  /\ \A x : get_string(Str(x)) = <<x>> /\ get_integer(Num(x)) = <<x>> /\ get_bool(Bool(x)) = <<x>>
  /\ \A x : Str(x) # Null /\ Num(x) # Null /\ Bool(x) # Null /\ Obj(x) # Null /\ Arr(x) # Null
BY DEF get_string, get_integer, get_bool, get_scalar, Str, Num, Bool, Obj, Arr, Null, Is

OptionalNames == {"extra_menu_info", "detailed_info", "kind", "extra_data", "doc_string"}
CandidateNames == {"insertion_text", "menu_text", "fixits"} \cup OptionalNames

(* A candidate of the completers: it has no fix-its.                       *)
CandidateOK(c) ==
  /\ c = [n \in CandidateNames |-> c[n]]
  /\ c.fixits = <<>>
  /\ \A n \in OptionalNames : c[n] = <<>> \/ c[n] = <<c[n][1]>>

CandidateMembers(c) ==
  [insertion_text |-> <<Str(c.insertion_text)>>,
   extra_menu_info |-> if_set(Str, c.extra_menu_info),
   detailed_info |-> if_set(Str, c.detailed_info),
   kind |-> if_set(Str, c.kind),
   extra_data |-> if_set(Str, c.extra_data),
   doc_string |-> if_set(Str, c.doc_string),
   fixits |-> if_set(json_FixIts, c.fixits)]

string_member(j, n) == optional(j, n, get_string)
text_member(j) == value(j, "insertion_text", get_string, "")
fixits_member(j) == optional(j, "fixits", get_FixIts)
CandidateRead(j) ==
  [insertion_text |-> text_member(j),
   extra_menu_info |-> string_member(j, "extra_menu_info"),
   detailed_info |-> string_member(j, "detailed_info"),
   kind |-> string_member(j, "kind"),
   extra_data |-> string_member(j, "extra_data"),
   doc_string |-> string_member(j, "doc_string"),
   fixits |-> fixits_member(j)]

LEMMA OptionalString ==
  ASSUME NEW j, NEW n, NEW o, o = <<>> \/ o = <<o[1]>>,
         contains(j, n) <=> o # <<>>, contains(j, n) => at(j, n) = Str(o[1])
  PROVE  string_member(j, n) = <<o>>
BY ScalarsRead DEF string_member, optional, get_optional, Threw, from_member

LEMMA CandidateReadBack ==
  ASSUME NEW c, CandidateOK(c)
  PROVE  /\ get_Candidate(json_Candidate(c)) = <<[n \in DOMAIN c \ {"menu_text"} |-> c[n]]>>
         /\ Null \notin {at(json_Candidate(c), n) : n \in DOMAIN json_Candidate(c)[2]}
         /\ contains(json_Candidate(c), "insertion_text")
         /\ at(json_Candidate(c), "insertion_text") = Str(c.insertion_text)
         /\ \A n \in OptionalNames :
              c[n] # <<>> => at(json_Candidate(c), n) = Str(c[n][1])
<1> DEFINE j == json_Candidate(c)
           ms == CandidateMembers(c)
           r == CandidateRead(j)
<1>1. j = Obj(Written(ms))
  BY DEF json_Candidate, CandidateMembers
<1>2. DOMAIN ms = {"insertion_text", "fixits"} \cup OptionalNames
  BY DEF CandidateMembers, OptionalNames
<1>3. ms.insertion_text = <<Str(c.insertion_text)>> /\ ms.fixits = <<>>
  BY DEF CandidateMembers, if_set, CandidateOK
<1>4. \A n \in OptionalNames : ms[n] = IF c[n] = <<>> THEN <<>> ELSE <<Str(c[n][1])>>
  BY DEF CandidateMembers, OptionalNames, if_set
<1> HIDE DEF ms
<1>5. /\ Is(j, "object")
      /\ \A n : contains(j, n) <=> n \in DOMAIN ms /\ ms[n] # <<>>
      /\ \A n : contains(j, n) => at(j, n) = ms[n][1]
  BY <1>1, WrittenRead
<1> HIDE DEF j
<1>6. /\ contains(j, "insertion_text") /\ at(j, "insertion_text") = Str(c.insertion_text)
      /\ ~contains(j, "fixits")
      /\ \A n \in OptionalNames : /\ contains(j, n) <=> c[n] # <<>>
                                  /\ contains(j, n) => at(j, n) = Str(c[n][1])
  BY <1>2, <1>3, <1>4, <1>5
<1>7. ASSUME NEW n \in OptionalNames PROVE string_member(j, n) = <<c[n]>>
  BY <1>6, OptionalString DEF CandidateOK
<1>8. /\ r.insertion_text = <<c.insertion_text>> /\ r.fixits = <<c.fixits>>
      /\ \A n \in OptionalNames : r[n] = <<c[n]>>
  <2>1. r.insertion_text = <<c.insertion_text>>
    BY <1>6, ScalarsRead DEF CandidateRead, text_member, value, from_member
  <2>2. r.fixits = <<c.fixits>>
    BY <1>6 DEF CandidateRead, fixits_member, optional, CandidateOK, from_member
  <2>3. \A n \in OptionalNames : r[n] = string_member(j, n)
    BY DEF CandidateRead, OptionalNames
  <2> QED
    BY <1>7, <2>1, <2>2, <2>3
<1>9. DOMAIN r = {"insertion_text", "fixits"} \cup OptionalNames
  BY DEF CandidateRead, OptionalNames
<1>10. get_Candidate(j) = WithDefault(j, r)
  BY DEF get_Candidate, CandidateRead, string_member, text_member, fixits_member
<1> HIDE DEF r
<1>11. \A n \in DOMAIN r : r[n] = <<c[n]>>
  BY <1>8, <1>9
<1>12. get_Candidate(j) = <<[n \in DOMAIN r |-> r[n][1]]>>
  BY <1>5, <1>10, <1>11 DEF WithDefault, All, Threw
<1>13. DOMAIN r = DOMAIN c \ {"menu_text"}
  BY <1>9 DEF CandidateOK, CandidateNames, OptionalNames
<1>14. get_Candidate(j) = <<[n \in DOMAIN c \ {"menu_text"} |-> c[n]]>>
  BY <1>11, <1>12, <1>13
<1>15. \A n \in DOMAIN j[2] : at(j, n) # Null
  <2> SUFFICES ASSUME NEW n \in DOMAIN j[2] PROVE at(j, n) # Null
    OBVIOUS
  <2>1. contains(j, n)
    BY <1>5 DEF contains
  <2>2. n \in OptionalNames \/ n = "insertion_text"
    BY <1>2, <1>3, <1>5, <2>1
  <2> QED
    BY <1>6, <2>1, <2>2, ScalarsRead
<1> QED
  BY <1>6, <1>14, <1>15 DEF j

LEMMA MemberRead ==
  ASSUME NEW f, NEW n \in DOMAIN f
  PROVE  Is(Obj(f), "object") /\ contains(Obj(f), n) /\ at(Obj(f), n) = f[n]
BY DEF Obj, Is, contains, at

LEMMA NothingElse == \A f, n : n \notin DOMAIN f => ~contains(Obj(f), n)
BY DEF Obj, contains

LEMMA AllRead ==
  ASSUME NEW ms, NEW v, v = [n \in DOMAIN ms |-> v[n]], \A n \in DOMAIN ms : ms[n] = <<v[n]>>
  PROVE  All(ms) = <<v>>
BY DEF All, Threw

LEMMA WithDefaultRead ==
  ASSUME NEW j, Is(j, "object"), NEW ms, NEW v, v = [n \in DOMAIN ms |-> v[n]],
         \A n \in DOMAIN ms : ms[n] = <<v[n]>>
  PROVE  WithDefault(j, ms) = <<v>>
BY AllRead DEF WithDefault

LEMMA IdentifierReadBack ==
  \A u : get_TextDocumentIdentifier(json_TextDocumentIdentifier([uri |-> u])) = <<[uri |-> u]>>
<1> SUFFICES ASSUME NEW u
             PROVE  get_TextDocumentIdentifier(json_TextDocumentIdentifier([uri |-> u]))
                      = <<[uri |-> u]>>
  OBVIOUS
<1> DEFINE f == [uri |-> Str(u)]
           j == Obj(f)
           uri == value(j, "uri", get_DocumentURI, "")
           ms == [uri |-> uri]
           v == [uri |-> u]
<1>1. json_TextDocumentIdentifier(v) = j
  BY DEF json_TextDocumentIdentifier
<1>2. DOMAIN f = {"uri"} /\ f.uri = Str(u)
  OBVIOUS
<1> HIDE DEF f
<1>3. Is(j, "object") /\ contains(j, "uri") /\ at(j, "uri") = Str(u)
  BY <1>2, MemberRead
<1> HIDE DEF j
<1>4. uri = <<u>>
  BY <1>3, ScalarsRead DEF value, get_DocumentURI, from_member
<1>5. get_TextDocumentIdentifier(j) = WithDefault(j, ms)
  BY DEF get_TextDocumentIdentifier
<1> HIDE DEF uri
<1>6. DOMAIN ms = {"uri"} /\ ms.uri = uri
  OBVIOUS
<1>7. v = [n \in {"uri"} |-> v[n]] /\ v.uri = u
  OBVIOUS
<1> HIDE DEF ms, v
<1>8. WithDefault(j, ms) = <<v>>
  BY <1>3, <1>4, <1>6, <1>7, WithDefaultRead
<1> QED
  BY <1>1, <1>5, <1>8 DEF v

LEMMA PositionReadBack ==
  \A l, c : get_Position(json_Position([line |-> l, character |-> c]))
              = <<[line |-> l, character |-> c]>>
BY DEF json_Position, get_Position, Mandatory, All, mandatory, contains, at, get_integer,
    get_scalar, Threw, Obj, Num, Is, from_member

(* The parameters of each message                                          *)
LEMMA CompletionReadBack ==
  \A req : /\ get_CompletionParams(json_CompletionParams(CompletionParams(req)))
                = <<CompletionParams(req)>>
           /\ json_CompletionParams(CompletionParams(req)) # Null
<1> SUFFICES ASSUME NEW req
             PROVE  /\ get_CompletionParams(json_CompletionParams(CompletionParams(req)))
                         = <<CompletionParams(req)>>
                    /\ json_CompletionParams(CompletionParams(req)) # Null
  OBVIOUS
<1> DEFINE v == CompletionParams(req)
           id == v.textDocument
           place == v.position
           ms == [textDocument |-> <<json_TextDocumentIdentifier(id)>>,
                  position |-> <<json_Position(place)>>,
                  context |-> <<>>]
           j == Obj(Written(ms))
<1>1. /\ v = [textDocument |-> id, position |-> place, context |-> <<>>]
      /\ get_TextDocumentIdentifier(json_TextDocumentIdentifier(id)) = <<id>>
      /\ get_Position(json_Position(place)) = <<place>>
  <2>1. /\ id = [uri |-> URI(req.filepath)]
        /\ place = [line |-> req.line_num - 1, character |-> ColumnCodepoint(req) - 1]
        /\ v = [textDocument |-> id, position |-> place, context |-> <<>>]
    BY DEF CompletionParams
  <2> QED
    BY <2>1, IdentifierReadBack, PositionReadBack
<1> HIDE DEF v
<1>2. json_CompletionParams(v) = j
  BY <1>1 DEF json_CompletionParams, if_set
<1>3. /\ DOMAIN ms = {"textDocument", "position", "context"}
      /\ ms.textDocument # <<>> /\ ms.position # <<>> /\ ms.context = <<>>
      /\ ms.textDocument[1] = json_TextDocumentIdentifier(id)
      /\ ms.position[1] = json_Position(place)
  OBVIOUS
<1> HIDE DEF ms
<1>4. /\ Is(j, "object") /\ j # Null
      /\ contains(j, "textDocument") /\ at(j, "textDocument") = json_TextDocumentIdentifier(id)
      /\ contains(j, "position") /\ at(j, "position") = json_Position(place)
      /\ ~contains(j, "context")
  BY <1>3, WrittenRead, ScalarsRead
<1> HIDE DEF j, id, place
<1> DEFINE base == [textDocument |-> id, position |-> place]
           context == optional(j, "context", get_CompletionContext)
           own == [context |-> context]
<1>5. get_TextDocumentPositionParams(j) = <<base>>
  BY <1>1, <1>4 DEF get_TextDocumentPositionParams, Mandatory, All, mandatory, Threw, from_member
<1>6. get_CompletionParams(j) = AndBase(get_TextDocumentPositionParams(j), j, own)
  BY DEF get_CompletionParams
<1>7. context = <<<<>>>>
  BY <1>4 DEF optional, from_member
<1> HIDE DEF context
<1>8. DOMAIN own = {"context"} /\ own.context = <<<<>>>>
  BY <1>7
<1> HIDE DEF own
<1>9. WithDefault(j, own) = <<[n \in {"context"} |-> <<>>]>>
  BY <1>4, <1>8 DEF WithDefault, All, Threw
<1>10. Joined(base, [n \in {"context"} |-> <<>>]) = v
  BY <1>1 DEF Joined
<1> HIDE DEF base
<1>11. get_CompletionParams(j) = <<v>>
  BY <1>5, <1>6, <1>9, <1>10 DEF AndBase, Threw
<1> QED
  BY <1>2, <1>4, <1>11 DEF v

(* A struct with one member                                                *)
LEMMA SnippetsReadBack ==
  \A b : get_CompletionClientCapabilities(Obj([snippetSupport |-> Bool(b)]))
           = <<[snippetSupport |-> b]>>
<1> SUFFICES ASSUME NEW b
             PROVE  get_CompletionClientCapabilities(Obj([snippetSupport |-> Bool(b)]))
                      = <<[snippetSupport |-> b]>>
  OBVIOUS
<1> DEFINE f == [snippetSupport |-> Bool(b)]
           j == Obj(f)
           member == value(j, "snippetSupport", get_bool, IndeterminateBool)
           ms == [snippetSupport |-> member]
           v == [snippetSupport |-> b]
<1>1. get_CompletionClientCapabilities(j) = WithDefault(j, ms)
  BY DEF get_CompletionClientCapabilities
<1>2. DOMAIN f = {"snippetSupport"} /\ f.snippetSupport = Bool(b)
  OBVIOUS
<1> HIDE DEF f
<1>3. Is(j, "object") /\ contains(j, "snippetSupport") /\ at(j, "snippetSupport") = Bool(b)
  BY <1>2, MemberRead
<1> HIDE DEF j
<1>4. member = <<b>>
  BY <1>3, ScalarsRead DEF value, from_member
<1> HIDE DEF member
<1>5. DOMAIN ms = {"snippetSupport"} /\ ms.snippetSupport = member
  OBVIOUS
<1>6. v = [n \in {"snippetSupport"} |-> v[n]] /\ v.snippetSupport = b
  OBVIOUS
<1> HIDE DEF ms, v
<1>7. WithDefault(j, ms) = <<v>>
  BY <1>3, <1>4, <1>5, <1>6, WithDefaultRead
<1> QED
  BY <1>1, <1>7 DEF f, j, v

LEMMA EditsReadBack ==
  \A b : get_Workspace(Obj([applyEdit |-> Bool(b)])) = <<[applyEdit |-> b]>>
<1> SUFFICES ASSUME NEW b
             PROVE  get_Workspace(Obj([applyEdit |-> Bool(b)])) = <<[applyEdit |-> b]>>
  OBVIOUS
<1> DEFINE f == [applyEdit |-> Bool(b)]
           j == Obj(f)
           member == value(j, "applyEdit", get_bool, IndeterminateBool)
           ms == [applyEdit |-> member]
           v == [applyEdit |-> b]
<1>1. get_Workspace(j) = WithDefault(j, ms)
  BY DEF get_Workspace
<1>2. DOMAIN f = {"applyEdit"} /\ f.applyEdit = Bool(b)
  OBVIOUS
<1> HIDE DEF f
<1>3. Is(j, "object") /\ contains(j, "applyEdit") /\ at(j, "applyEdit") = Bool(b)
  BY <1>2, MemberRead
<1> HIDE DEF j
<1>4. member = <<b>>
  BY <1>3, ScalarsRead DEF value, from_member
<1> HIDE DEF member
<1>5. DOMAIN ms = {"applyEdit"} /\ ms.applyEdit = member
  OBVIOUS
<1>6. v = [n \in {"applyEdit"} |-> v[n]] /\ v.applyEdit = b
  OBVIOUS
<1> HIDE DEF ms, v
<1>7. WithDefault(j, ms) = <<v>>
  BY <1>3, <1>4, <1>5, <1>6, WithDefaultRead
<1> QED
  BY <1>1, <1>7 DEF f, j, v

LEMMA TextDocumentReadBack ==
  \A c, v : get_CompletionClientCapabilities(c) = <<v>> =>
              get_TextDocumentClientCapabilities(Obj([completion |-> c])) = <<[completion |-> v]>>
<1> SUFFICES ASSUME NEW c, NEW x, get_CompletionClientCapabilities(c) = <<x>>
             PROVE  get_TextDocumentClientCapabilities(Obj([completion |-> c]))
                      = <<[completion |-> x]>>
  OBVIOUS
<1> DEFINE f == [completion |-> c]
           j == Obj(f)
           default == [snippetSupport |-> IndeterminateBool]
           member == value(j, "completion", get_CompletionClientCapabilities, default)
           ms == [completion |-> member]
           v == [completion |-> x]
<1>1. get_TextDocumentClientCapabilities(j) = WithDefault(j, ms)
  BY DEF get_TextDocumentClientCapabilities
<1>2. DOMAIN f = {"completion"} /\ f.completion = c
  OBVIOUS
<1> HIDE DEF f
<1>3. Is(j, "object") /\ contains(j, "completion") /\ at(j, "completion") = c
  BY <1>2, MemberRead
<1> HIDE DEF j, default
<1>4. member = <<x>>
  BY <1>3 DEF value, from_member
<1> HIDE DEF member
<1>5. DOMAIN ms = {"completion"} /\ ms.completion = member
  OBVIOUS
<1>6. v = [n \in {"completion"} |-> v[n]] /\ v.completion = x
  OBVIOUS
<1> HIDE DEF ms, v
<1>7. WithDefault(j, ms) = <<v>>
  BY <1>3, <1>4, <1>5, <1>6, WithDefaultRead
<1> QED
  BY <1>1, <1>7 DEF f, j, v

Capabilities == InitializeParams.capabilities

LEMMA CapabilitiesReadBack ==
  get_ClientCapabilities(json_ClientCapabilities(Capabilities)) = <<Capabilities>>
<1> DEFINE workspace == [applyEdit |-> FALSE]
           completion == [snippetSupport |-> FALSE]
           document == [completion |-> completion]
           v == [workspace |-> workspace, textDocument |-> document]
           w == Obj([applyEdit |-> Bool(FALSE)])
           d == Obj([completion |-> Obj([snippetSupport |-> Bool(FALSE)])])
           j == Obj([workspace |-> w, textDocument |-> d])
<1>1. Capabilities = v /\ json_ClientCapabilities(v) = j
  BY DEF Capabilities, InitializeParams, json_ClientCapabilities
<1>2. get_Workspace(w) = <<workspace>>
  BY EditsReadBack
<1>3. get_TextDocumentClientCapabilities(d) = <<document>>
  <2>1. get_CompletionClientCapabilities(Obj([snippetSupport |-> Bool(FALSE)])) = <<completion>>
    BY SnippetsReadBack
  <2> QED
    BY <2>1, TextDocumentReadBack
<1> DEFINE default1 == [applyEdit |-> IndeterminateBool]
           default2 == [completion |-> [snippetSupport |-> IndeterminateBool]]
           member1 == value(j, "workspace", get_Workspace, default1)
           member2 == value(j, "textDocument", get_TextDocumentClientCapabilities, default2)
           ms == [workspace |-> member1, textDocument |-> member2]
<1>4. get_ClientCapabilities(j) = WithDefault(j, ms)
  BY DEF get_ClientCapabilities
<1> HIDE DEF w, d, workspace, document, default1, default2
<1>5. /\ Is(j, "object") /\ contains(j, "workspace") /\ at(j, "workspace") = w
      /\ contains(j, "textDocument") /\ at(j, "textDocument") = d
  BY DEF Obj, Is, contains, at
<1> HIDE DEF j
<1>6. member1 = <<workspace>> /\ member2 = <<document>>
  BY <1>2, <1>3, <1>5 DEF value, from_member
<1> HIDE DEF member1, member2
<1>7. WithDefault(j, ms) = <<v>>
  BY <1>5, <1>6 DEF WithDefault, All, Threw
<1> QED
  BY <1>1, <1>4, <1>7

LEMMA InitializeReadBack ==
  /\ get_InitializeParams(json_InitializeParams(InitializeParams)) = <<InitializeParams>>
  /\ json_InitializeParams(InitializeParams) # Null
<1> DEFINE v == InitializeParams
           c == json_ClientCapabilities(Capabilities)
           j == Obj([processId |-> Num(1), rootUri |-> Str("/foo"), initializationOptions |-> Null,
                     workspaceFolders |-> Null, capabilities |-> c])
<1>1. v = [processId |-> <<1>>, rootUri |-> "/foo", initializationOptions |-> Null,
           workspaceFolders |-> <<>>, capabilities |-> Capabilities]
  BY DEF InitializeParams, Capabilities
<1> HIDE DEF v, c
<1>2. json_InitializeParams(v) = j
  BY <1>1 DEF json_InitializeParams, or_null, c
<1>3. /\ contains(j, "processId") /\ at(j, "processId") = Num(1)
      /\ contains(j, "rootUri") /\ at(j, "rootUri") = Str("/foo")
      /\ contains(j, "initializationOptions") /\ at(j, "initializationOptions") = Null
      /\ contains(j, "workspaceFolders") /\ at(j, "workspaceFolders") = Null
      /\ contains(j, "capabilities") /\ at(j, "capabilities") = c
  BY DEF Obj, Is, contains, at
<1> DEFINE id == optional(j, "processId", get_integer)
           root == mandatory(j, "rootUri", get_string)
           options == mandatory(j, "initializationOptions", get_any)
           folders == optional(j, "workspaceFolders", get_WorkspaceFolders)
           caps == mandatory(j, "capabilities", get_ClientCapabilities)
           ms == [processId |-> id, rootUri |-> root, initializationOptions |-> options,
                  workspaceFolders |-> folders, capabilities |-> caps]
<1>4. get_InitializeParams(j) = All(ms)
  BY DEF get_InitializeParams, Mandatory
<1>5. j # Null
  BY ScalarsRead
<1> HIDE DEF j
<1>6. id = <<<<1>>>>
  BY <1>3, ScalarsRead DEF optional, get_optional, Threw, from_member
<1>7. root = <<"/foo">> /\ options = <<Null>>
  BY <1>3, ScalarsRead DEF mandatory, get_any, from_member
<1>8. folders = <<<<>>>>
  BY <1>3 DEF optional, get_optional, from_member
<1>9. caps = <<Capabilities>>
  BY <1>3, CapabilitiesReadBack DEF mandatory, c, from_member
<1> HIDE DEF id, root, options, folders, caps
<1>10. All(ms) = <<v>>
  BY <1>1, <1>6, <1>7, <1>8, <1>9 DEF All, Threw
<1> QED
  BY <1>2, <1>4, <1>5, <1>10 DEF v

LEMMA DocumentReadBack ==
  \A u, l, n, t :
    LET v == [uri |-> u, languageId |-> l, version |-> n, text |-> t]
    IN  get_TextDocumentItem(json_TextDocumentItem(v)) = <<v>>
BY DEF json_TextDocumentItem, get_TextDocumentItem, get_DocumentURI, WithDefault, All, value,
    contains, at, get_string, get_integer, get_scalar, Threw, Obj, Str, Num, Is, from_member

(* Messages whose parameters are one member                                *)
LEMMA OneMember ==
  ASSUME NEW name, NEW x, NEW p
  PROVE  LET j == Obj([n \in {name} |-> x])
         IN  /\ j # Null /\ Is(j, "object") /\ contains(j, name) /\ at(j, name) = x
             /\ All([n \in {name} |-> <<p>>]) = <<[n \in {name} |-> p]>>
BY DEF Obj, Null, Is, contains, at, All, Threw

LEMMA OpenReadBack ==
  \A req, path : LET v == DidOpen(req, path)
                     j == json_DidOpenTextDocumentParams(v)
                 IN  get_DidOpenTextDocumentParams(j) = <<v>> /\ j # Null
<1> SUFFICES ASSUME NEW req, NEW path
             PROVE  LET v == DidOpen(req, path)
                        j == json_DidOpenTextDocumentParams(v)
                    IN  get_DidOpenTextDocumentParams(j) = <<v>> /\ j # Null
  OBVIOUS
<1> DEFINE document == DidOpen(req, path).textDocument
           v == [textDocument |-> document]
           x == json_TextDocumentItem(document)
           j == Obj([textDocument |-> x])
           member == mandatory(j, "textDocument", get_TextDocumentItem)
           ms == [textDocument |-> member]
<1>1. DidOpen(req, path) = v /\ get_TextDocumentItem(x) = <<document>>
  BY DocumentReadBack DEF DidOpen
<1> HIDE DEF document
<1>2. json_DidOpenTextDocumentParams(v) = j
  BY DEF json_DidOpenTextDocumentParams
<1>3. get_DidOpenTextDocumentParams(j) = All(ms)
  BY DEF get_DidOpenTextDocumentParams, Mandatory
<1> HIDE DEF x
<1>4. j # Null /\ Is(j, "object") /\ contains(j, "textDocument") /\ at(j, "textDocument") = x
  <2>1. j = Obj([n \in {"textDocument"} |-> x])
    OBVIOUS
  <2> HIDE DEF j
  <2> QED
    BY <2>1, OneMember
<1> HIDE DEF j
<1>5. member = <<document>>
  BY <1>1, <1>4 DEF mandatory, from_member
<1> HIDE DEF member
<1>6. ms = [n \in {"textDocument"} |-> <<document>>] /\ v = [n \in {"textDocument"} |-> document]
  BY <1>5
<1> HIDE DEF ms, v
<1>7. All(ms) = <<v>>
  BY <1>6, OneMember
<1> QED
  BY <1>1, <1>2, <1>3, <1>4, <1>7 DEF v

LEMMA CloseReadBack ==
  \A path : LET v == DidClose(path)
                j == json_DidCloseTextDocumentParams(v)
            IN  get_DidCloseTextDocumentParams(j) = <<v>> /\ j # Null
<1> SUFFICES ASSUME NEW path
             PROVE  LET v == DidClose(path)
                        j == json_DidCloseTextDocumentParams(v)
                    IN  get_DidCloseTextDocumentParams(j) = <<v>> /\ j # Null
  OBVIOUS
<1> DEFINE id == [uri |-> path]
           v == [textDocument |-> id]
           x == json_TextDocumentIdentifier(id)
           j == Obj([textDocument |-> x])
           member == mandatory(j, "textDocument", get_TextDocumentIdentifier)
           ms == [textDocument |-> member]
<1>1. DidClose(path) = v /\ get_TextDocumentIdentifier(x) = <<id>>
  BY IdentifierReadBack DEF DidClose
<1> HIDE DEF id
<1>2. json_DidCloseTextDocumentParams(v) = j
  BY DEF json_DidCloseTextDocumentParams
<1>3. get_DidCloseTextDocumentParams(j) = All(ms)
  BY DEF get_DidCloseTextDocumentParams, Mandatory
<1> HIDE DEF x
<1>4. j # Null /\ Is(j, "object") /\ contains(j, "textDocument") /\ at(j, "textDocument") = x
  <2>1. j = Obj([n \in {"textDocument"} |-> x])
    OBVIOUS
  <2> HIDE DEF j
  <2> QED
    BY <2>1, OneMember
<1> HIDE DEF j
<1>5. member = <<id>>
  BY <1>1, <1>4 DEF mandatory, from_member
<1> HIDE DEF member
<1>6. ms = [n \in {"textDocument"} |-> <<id>>] /\ v = [n \in {"textDocument"} |-> id]
  BY <1>5
<1> HIDE DEF ms, v
<1>7. All(ms) = <<v>>
  BY <1>6, OneMember
<1> QED
  BY <1>1, <1>2, <1>3, <1>4, <1>7 DEF v

LEMMA VersionedReadBack ==
  \A u, n : LET v == [uri |-> u, version |-> n]
            IN  get_VersionedTextDocumentIdentifier(json_VersionedTextDocumentIdentifier(v)) = <<v>>
<1> SUFFICES ASSUME NEW u, NEW n
             PROVE  LET v == [uri |-> u, version |-> n]
                    IN  get_VersionedTextDocumentIdentifier(json_VersionedTextDocumentIdentifier(v))
                          = <<v>>
  OBVIOUS
<1> DEFINE v == [uri |-> u, version |-> n]
           j == json_VersionedTextDocumentIdentifier(v)
           uri == value(j, "uri", get_DocumentURI, "")
           version == value(j, "version", get_integer, IndeterminateInt)
           ms == [uri |-> uri]
           own == [version |-> version]
<1>1. /\ Is(j, "object") /\ contains(j, "uri") /\ at(j, "uri") = Str(u)
      /\ contains(j, "version") /\ at(j, "version") = Num(n)
  BY DEF json_VersionedTextDocumentIdentifier, Obj, Is, contains, at
<1>2. get_VersionedTextDocumentIdentifier(j) = AndBase(WithDefault(j, ms), j, own)
  BY DEF get_VersionedTextDocumentIdentifier, get_TextDocumentIdentifier
<1> HIDE DEF j
<1>3. uri = <<u>> /\ version = <<n>>
  BY <1>1, ScalarsRead DEF value, get_DocumentURI, from_member
<1> HIDE DEF uri, version
<1>4. ms = [k \in {"uri"} |-> <<u>>] /\ own = [k \in {"version"} |-> <<n>>]
  BY <1>3
<1> HIDE DEF ms, own
<1>5. /\ WithDefault(j, ms) = <<[k \in {"uri"} |-> u]>>
      /\ WithDefault(j, own) = <<[k \in {"version"} |-> n]>>
  BY <1>1, <1>4, OneMember DEF WithDefault
<1>6. Joined([k \in {"uri"} |-> u], [k \in {"version"} |-> n]) = v
  BY DEF Joined
<1> QED
  BY <1>2, <1>5, <1>6 DEF AndBase, Threw, j

LEMMA EventsReadBack ==
  \A t : get_TextDocumentChangeEvents(json_array(json_TextDocumentChangeEvent, <<[text |-> t]>>))
           = <<<<[text |-> t]>>>>
<1> SUFFICES ASSUME NEW t
             PROVE  get_TextDocumentChangeEvents(
                      json_array(json_TextDocumentChangeEvent, <<[text |-> t]>>))
                        = <<<<[text |-> t]>>>>
  OBVIOUS
<1> DEFINE v == [text |-> t]
           j == Obj([text |-> Str(t)])
           member == mandatory(j, "text", get_string)
           ms == [text |-> member]
           e == json_TextDocumentChangeEvent(v)
<1>1. e = j /\ get_TextDocumentChangeEvent(j) = All(ms)
  BY DEF json_TextDocumentChangeEvent, get_TextDocumentChangeEvent, Mandatory
<1>2. contains(j, "text") /\ at(j, "text") = Str(t)
  <2>1. j = Obj([n \in {"text"} |-> Str(t)])
    OBVIOUS
  <2> HIDE DEF j
  <2> QED
    BY <2>1, OneMember
<1> HIDE DEF j
<1>3. member = <<t>>
  BY <1>2, ScalarsRead DEF mandatory, from_member
<1> HIDE DEF member
<1>4. ms = [n \in {"text"} |-> <<t>>] /\ v = [n \in {"text"} |-> t]
  BY <1>3
<1> HIDE DEF ms, v
<1>5. get_TextDocumentChangeEvent(e) = <<v>>
  BY <1>1, <1>4, OneMember
<1> DEFINE all == json_array(json_TextDocumentChangeEvent, <<v>>)
<1>6. all = Arr([i \in DOMAIN <<v>> |-> json_TextDocumentChangeEvent(<<v>>[i])])
  BY DEF json_array
<1> HIDE DEF all
<1>7. Is(all, "array") /\ DOMAIN all[2] = {1} /\ all[2][1] = e
  BY <1>6 DEF Arr, Is
<1>8. get_TextDocumentChangeEvents(all) = <<[i \in {1} |-> v]>>
  <2>1. \A i \in DOMAIN all[2] : get_TextDocumentChangeEvent(all[2][i]) = <<v>>
    BY <1>5, <1>7
  <2> HIDE DEF e
  <2> QED
    BY <1>7, <2>1 DEF get_TextDocumentChangeEvents, get_array, get_elements, All, Threw
<1>9. [i \in {1} |-> v] = <<v>>
  OBVIOUS
<1> QED
  BY <1>8, <1>9 DEF all, v

LEMMA ChangeReadBack ==
  \A req, path : LET v == DidChange(req, path)
                     j == json_DidChangeTextDocumentParams(v)
                 IN  get_DidChangeTextDocumentParams(j) = <<v>> /\ j # Null
<1> SUFFICES ASSUME NEW req, NEW path
             PROVE  LET v == DidChange(req, path)
                        j == json_DidChangeTextDocumentParams(v)
                    IN  get_DidChangeTextDocumentParams(j) = <<v>> /\ j # Null
  OBVIOUS
<1> DEFINE t == req.file_data[path].contents
           id == [uri |-> URI(path), version |-> 2]
           changes == <<[text |-> t]>>
           v == [textDocument |-> id, contentChanges |-> changes]
           x == json_VersionedTextDocumentIdentifier(id)
           y == json_array(json_TextDocumentChangeEvent, changes)
           j == Obj([textDocument |-> x, contentChanges |-> y])
<1>1. DidChange(req, path) = v
  BY DEF DidChange
<1>2. get_VersionedTextDocumentIdentifier(x) = <<id>>
  BY VersionedReadBack
<1>3. get_TextDocumentChangeEvents(y) = <<changes>>
  BY EventsReadBack
<1>4. json_DidChangeTextDocumentParams(v) = j
  BY DEF json_DidChangeTextDocumentParams
<1> HIDE DEF id, changes, x, y
<1>5. /\ j # Null /\ contains(j, "textDocument") /\ at(j, "textDocument") = x
      /\ contains(j, "contentChanges") /\ at(j, "contentChanges") = y
  BY DEF Obj, Null, Is, contains, at
<1> HIDE DEF j
<1>6. get_DidChangeTextDocumentParams(j) = <<v>>
  BY <1>2, <1>3, <1>5 DEF get_DidChangeTextDocumentParams, Mandatory, All, mandatory, Threw,
      from_member
<1> QED
  BY <1>1, <1>4, <1>5, <1>6

(* A message whose parameters are read back is.                            *)
RequestJson(s, method, p) ==
  Obj(Written([jsonrpc |-> <<Str("2.0")>>, id |-> <<Num(s)>>, method |-> <<Str(method)>>,
               params |-> <<p>>]))
NotificationJson(method, p) ==
  Obj(Written([jsonrpc |-> <<Str("2.0")>>, method |-> <<Str(method)>>, params |-> <<p>>]))

LEMMA RequestWritten ==
  ASSUME NEW s, NEW method, NEW p
  PROVE  LET j == RequestJson(s, method, p)
         IN  /\ Is(j, "object") /\ DOMAIN j[2] = {"jsonrpc", "id", "method", "params"}
             /\ contains(j, "jsonrpc") /\ at(j, "jsonrpc") = Str("2.0")
             /\ contains(j, "id") /\ at(j, "id") = Num(s)
             /\ contains(j, "method") /\ at(j, "method") = Str(method)
             /\ contains(j, "params") /\ at(j, "params") = p
<1> DEFINE ms == [jsonrpc |-> <<Str("2.0")>>, id |-> <<Num(s)>>, method |-> <<Str(method)>>,
                  params |-> <<p>>]
           names == {"jsonrpc", "id", "method", "params"}
<1>1. /\ DOMAIN ms = names /\ ms.jsonrpc = <<Str("2.0")>> /\ ms.id = <<Num(s)>>
      /\ ms.method = <<Str(method)>> /\ ms.params = <<p>>
  OBVIOUS
<1>2. RequestJson(s, method, p) = Obj(Written(ms))
  BY DEF RequestJson
<1> HIDE DEF ms
<1>3. Written(ms) = [n \in names |-> ms[n][1]]
  BY <1>1 DEF Written
<1> QED
  BY <1>1, <1>2, <1>3 DEF Obj, Is, contains, at

LEMMA NotificationWritten ==
  ASSUME NEW method, NEW p
  PROVE  LET j == NotificationJson(method, p)
         IN  /\ Is(j, "object")
             /\ contains(j, "jsonrpc") /\ at(j, "jsonrpc") = Str("2.0")
             /\ contains(j, "method") /\ at(j, "method") = Str(method)
             /\ contains(j, "params") /\ at(j, "params") = p
<1> DEFINE ms == [jsonrpc |-> <<Str("2.0")>>, method |-> <<Str(method)>>, params |-> <<p>>]
           names == {"jsonrpc", "method", "params"}
<1>1. /\ DOMAIN ms = names /\ ms.jsonrpc = <<Str("2.0")>>
      /\ ms.method = <<Str(method)>> /\ ms.params = <<p>>
  OBVIOUS
<1>2. NotificationJson(method, p) = Obj(Written(ms))
  BY DEF NotificationJson
<1> HIDE DEF ms
<1>3. Written(ms) = [n \in names |-> ms[n][1]]
  BY <1>1 DEF Written
<1> QED
  BY <1>1, <1>2, <1>3 DEF Obj, Is, contains, at

LEMMA VersionRead ==
  \A j : contains(j, "jsonrpc") /\ at(j, "jsonrpc") = Str("2.0") =>
           get_Message(j) = <<[n \in {"jsonrpc"} |-> "2.0"]>>
<1> SUFFICES ASSUME NEW j, contains(j, "jsonrpc"), at(j, "jsonrpc") = Str("2.0")
             PROVE  get_Message(j) = <<[n \in {"jsonrpc"} |-> "2.0"]>>
  OBVIOUS
<1> DEFINE version == mandatory(j, "jsonrpc", get_string)
           ms == [jsonrpc |-> version]
<1>1. get_Message(j) = All(ms)
  BY DEF get_Message, Mandatory
<1>2. version = <<"2.0">>
  BY ScalarsRead DEF mandatory, from_member
<1> HIDE DEF version
<1>3. ms = [n \in {"jsonrpc"} |-> <<"2.0">>]
  BY <1>2
<1> HIDE DEF ms
<1> QED
  BY <1>1, <1>3, OneMember

LEMMA RequestReadBack ==
  ASSUME NEW s, NEW method, NEW p, NEW x
  PROVE  LET j == RequestJson(s, method, p)
         IN  AndBase(get_Message(j), j,
                     [id |-> value(j, "id", get_ID, <<1, "">>),
                      method |-> value(j, "method", get_string, ""), params |-> <<<<x>>>>])
               = <<AsRequest(s, method, x)>>
<1> DEFINE j == RequestJson(s, method, p)
           id == value(j, "id", get_ID, <<1, "">>)
           name == value(j, "method", get_string, "")
           own == [id |-> id, method |-> name, params |-> <<<<x>>>>]
           base == [n \in {"jsonrpc"} |-> "2.0"]
           v == [id |-> <<2, s>>, method |-> method, params |-> <<x>>]
<1>1. /\ Is(j, "object") /\ contains(j, "jsonrpc") /\ at(j, "jsonrpc") = Str("2.0")
      /\ contains(j, "id") /\ at(j, "id") = Num(s)
      /\ contains(j, "method") /\ at(j, "method") = Str(method)
  BY RequestWritten
<1> HIDE DEF j
<1>2. get_Message(j) = <<base>>
  BY <1>1, VersionRead
<1>3. id = <<<<2, s>>>>
  <2>1. get_ID(Num(s)) = <<<<2, s>>>>
    <3>1. ~Threw(get_integer(Num(s))) /\ get_integer(Num(s))[1] = s
      BY ScalarsRead DEF Threw
    <3>2. get_ID(Num(s)) = <<<<2, get_integer(Num(s))[1]>>>>
      BY <3>1 DEF get_ID, one_of
    <3> QED
      BY <3>1, <3>2
  <2> QED
    BY <1>1, <2>1 DEF value, from_member
<1>4. name = <<method>>
  BY <1>1, ScalarsRead DEF value, from_member
<1> HIDE DEF id, name
<1>5. All(own) = <<v>>
  BY <1>3, <1>4 DEF All, Threw
<1>6. Joined(base, v) = AsRequest(s, method, x)
  BY DEF Joined, AsRequest
<1> HIDE DEF base, v, own
<1>7. AndBase(get_Message(j), j, own) = <<AsRequest(s, method, x)>>
  BY <1>1, <1>2, <1>5, <1>6 DEF AndBase, WithDefault, Threw
<1> QED
  BY <1>7 DEF own, id, name, j

LEMMA NotificationReadBack ==
  ASSUME NEW method, NEW p, NEW x
  PROVE  LET j == NotificationJson(method, p)
         IN  AndBase(get_Message(j), j,
                     [method |-> value(j, "method", get_string, ""), params |-> <<<<x>>>>])
               = <<AsNotification(method, x)>>
<1> DEFINE j == NotificationJson(method, p)
           name == value(j, "method", get_string, "")
           own == [method |-> name, params |-> <<<<x>>>>]
           base == [n \in {"jsonrpc"} |-> "2.0"]
           v == [method |-> method, params |-> <<x>>]
<1>1. /\ Is(j, "object") /\ contains(j, "jsonrpc") /\ at(j, "jsonrpc") = Str("2.0")
      /\ contains(j, "method") /\ at(j, "method") = Str(method)
  BY NotificationWritten
<1> HIDE DEF j
<1>2. get_Message(j) = <<base>>
  BY <1>1, VersionRead
<1>3. name = <<method>>
  BY <1>1, ScalarsRead DEF value, from_member
<1> HIDE DEF name
<1>4. All(own) = <<v>>
  BY <1>3 DEF All, Threw
<1>5. Joined(base, v) = AsNotification(method, x)
  BY DEF Joined, AsNotification
<1> HIDE DEF base, v, own
<1>6. AndBase(get_Message(j), j, own) = <<AsNotification(method, x)>>
  BY <1>1, <1>2, <1>4, <1>5 DEF AndBase, WithDefault, Threw
<1> QED
  BY <1>6 DEF own, name, j

LEMMA HandshakeReadBack ==
  \A s : get_RequestMessage(get_InitializeParams,
                            json_RequestMessage(json_InitializeParams, Handshake(s)))
           = <<Handshake(s)>>
<1> SUFFICES ASSUME NEW s
             PROVE  get_RequestMessage(get_InitializeParams,
                                       json_RequestMessage(json_InitializeParams, Handshake(s)))
                      = <<Handshake(s)>>
  OBVIOUS
<1> DEFINE p == json_InitializeParams(InitializeParams)
           j == RequestJson(s, "initialize", p)
<1>1. json_RequestMessage(json_InitializeParams, Handshake(s)) = j
  BY DEF json_RequestMessage, RequestObject, RequestJson, Handshake, AsRequest, json_ID, if_set
<1>2. contains(j, "params") /\ at(j, "params") = p
  BY RequestWritten
<1>3. optional(j, "params", get_InitializeParams) = <<<<InitializeParams>>>>
  BY <1>2, InitializeReadBack DEF optional, get_optional, Threw, from_member
<1>4. get_RequestMessage(get_InitializeParams, j)
        = AndBase(get_Message(j), j,
                  [id |-> value(j, "id", get_ID, <<1, "">>),
                   method |-> value(j, "method", get_string, ""),
                   params |-> <<<<InitializeParams>>>>])
  BY <1>3 DEF get_RequestMessage, RequestMessage
<1> QED
  BY <1>1, <1>4, RequestReadBack DEF Handshake

LEMMA CompletionSent ==
  ASSUME NEW s, NEW req
  PROVE  json_RequestMessage(json_CompletionParams, Completion(s, req))
           = RequestJson(s, "textDocument/completion", json_CompletionParams(CompletionParams(req)))
BY DEF json_RequestMessage, RequestObject, RequestJson, Completion, AsRequest, json_ID, if_set

LEMMA AskReadBack ==
  ASSUME NEW s, NEW req
  PROVE  get_RequestMessage(get_CompletionParams,
                            json_RequestMessage(json_CompletionParams, Completion(s, req)))
           = <<Completion(s, req)>>
<1> DEFINE p == json_CompletionParams(CompletionParams(req))
           j == RequestJson(s, "textDocument/completion", p)
<1>1. json_RequestMessage(json_CompletionParams, Completion(s, req)) = j
  BY CompletionSent
<1>2. contains(j, "params") /\ at(j, "params") = p
  BY RequestWritten
<1>3. optional(j, "params", get_CompletionParams) = <<<<CompletionParams(req)>>>>
  BY <1>2, CompletionReadBack DEF optional, get_optional, Threw, from_member
<1>4. get_RequestMessage(get_CompletionParams, j)
        = AndBase(get_Message(j), j,
                  [id |-> value(j, "id", get_ID, <<1, "">>),
                   method |-> value(j, "method", get_string, ""),
                   params |-> <<<<CompletionParams(req)>>>>])
  BY <1>3 DEF get_RequestMessage, RequestMessage
<1> QED
  BY <1>1, <1>4, RequestReadBack DEF Completion

LEMMA OpenedReadBack ==
  ASSUME NEW req, NEW path
  PROVE  get_NotificationMessage(get_DidOpenTextDocumentParams,
           json_NotificationMessage(json_DidOpenTextDocumentParams, Opened(req, path)))
             = <<Opened(req, path)>>
<1> DEFINE x == DidOpen(req, path)
           p == json_DidOpenTextDocumentParams(x)
           j == NotificationJson("textDocument/didOpen", p)
<1>1. json_NotificationMessage(json_DidOpenTextDocumentParams, Opened(req, path)) = j
  BY DEF json_NotificationMessage, NotificationObject, NotificationJson, Opened, AsNotification,
      if_set
<1>2. contains(j, "params") /\ at(j, "params") = p
  BY NotificationWritten
<1>3. optional(j, "params", get_DidOpenTextDocumentParams) = <<<<x>>>>
  BY <1>2, OpenReadBack DEF optional, get_optional, Threw, from_member
<1>4. get_NotificationMessage(get_DidOpenTextDocumentParams, j)
        = AndBase(get_Message(j), j,
                  [method |-> value(j, "method", get_string, ""), params |-> <<<<x>>>>])
  BY <1>3 DEF get_NotificationMessage, NotificationMessage
<1> QED
  BY <1>1, <1>4, NotificationReadBack DEF Opened

LEMMA ChangedReadBack ==
  ASSUME NEW req, NEW path
  PROVE  get_NotificationMessage(get_DidChangeTextDocumentParams,
           json_NotificationMessage(json_DidChangeTextDocumentParams, Changed(req, path)))
             = <<Changed(req, path)>>
<1> DEFINE x == DidChange(req, path)
           p == json_DidChangeTextDocumentParams(x)
           j == NotificationJson("textDocument/didChange", p)
<1>1. json_NotificationMessage(json_DidChangeTextDocumentParams, Changed(req, path)) = j
  BY DEF json_NotificationMessage, NotificationObject, NotificationJson, Changed, AsNotification,
      if_set
<1>2. contains(j, "params") /\ at(j, "params") = p
  BY NotificationWritten
<1>3. optional(j, "params", get_DidChangeTextDocumentParams) = <<<<x>>>>
  BY <1>2, ChangeReadBack DEF optional, get_optional, Threw, from_member
<1>4. get_NotificationMessage(get_DidChangeTextDocumentParams, j)
        = AndBase(get_Message(j), j,
                  [method |-> value(j, "method", get_string, ""), params |-> <<<<x>>>>])
  BY <1>3 DEF get_NotificationMessage, NotificationMessage
<1> QED
  BY <1>1, <1>4, NotificationReadBack DEF Changed

LEMMA ClosedReadBack ==
  ASSUME NEW path
  PROVE  get_NotificationMessage(get_DidCloseTextDocumentParams,
           json_NotificationMessage(json_DidCloseTextDocumentParams, Closed(path)))
             = <<Closed(path)>>
<1> DEFINE x == DidClose(path)
           p == json_DidCloseTextDocumentParams(x)
           j == NotificationJson("textDocument/didClose", p)
<1>1. json_NotificationMessage(json_DidCloseTextDocumentParams, Closed(path)) = j
  BY DEF json_NotificationMessage, NotificationObject, NotificationJson, Closed, AsNotification,
      if_set
<1>2. contains(j, "params") /\ at(j, "params") = p
  BY NotificationWritten
<1>3. optional(j, "params", get_DidCloseTextDocumentParams) = <<<<x>>>>
  BY <1>2, CloseReadBack DEF optional, get_optional, Threw, from_member
<1>4. get_NotificationMessage(get_DidCloseTextDocumentParams, j)
        = AndBase(get_Message(j), j,
                  [method |-> value(j, "method", get_string, ""), params |-> <<<<x>>>>])
  BY <1>3 DEF get_NotificationMessage, NotificationMessage
<1> QED
  BY <1>1, <1>4, NotificationReadBack DEF Closed

(* Induction over natural numbers, as a fact about sets of them.           *)
LEMMA LeastNumber ==
  ASSUME NEW S \in SUBSET Nat, S # {} PROVE \E n \in S : \A m \in S : n <= m
<1> DEFINE R == OpToRel(<, Nat)
<1>1. IsWellFoundedOn(R, Nat)
  BY NatLessThanWellFounded
<1>2. \A p, q \in Nat : p < q => <<p, q>> \in R
  BY DEF OpToRel
<1> HIDE DEF R
<1>3. PICK n \in S : \A m \in S : <<m, n>> \notin R
  BY <1>1, WFMin
<1>4. ASSUME NEW m \in S PROVE n <= m
  <2>1. n \in Nat /\ m \in Nat
    OBVIOUS
  <2>2. ~(m < n)
    BY <1>2, <1>3, <2>1
  <2> QED BY <2>1, <2>2
<1> QED BY <1>4

LEMMA Induction ==
  ASSUME NEW n \in Nat, NEW S, 0 \in S, \A k \in 1..n : k - 1 \in S => k \in S
  PROVE  n \in S /\ \A k \in 0..n : k \in S
<1> SUFFICES \A k \in 0..n : k \in S
  OBVIOUS
<1> DEFINE Bad == (0..n) \ S
<1> SUFFICES ASSUME Bad # {} PROVE FALSE
  OBVIOUS
<1>1. Bad \in SUBSET Nat
  OBVIOUS
<1> HIDE DEF Bad
<1>2. PICK k \in Bad : \A m \in Bad : k <= m
  BY <1>1, LeastNumber
<1> USE DEF Bad
<1>3. k \in 1..n /\ k - 1 \in 0..n /\ k - 1 \notin Bad
  BY <1>2
<1> QED BY <1>2, <1>3

(* The recursive function behind LongEnough, up to n: it exists and holds  *)
(* sequences of what is long enough.                                       *)
KeptStep(texts, min, q, n) ==
  IF GreaterThanJson(LengthOf(texts[n]), min) THEN Append(q, texts[n]) ELSE q
IsKept(texts, min, f, n) ==
  f = [i \in 0..n |-> IF i = 0 THEN <<>>
                      ELSE IF GreaterThanJson(LengthOf(texts[i]), min)
                      THEN Append(f[i - 1], texts[i]) ELSE f[i - 1]]
LongSeqs(min) ==
  {q \in Seq(STRING) : \A i \in 1..Len(q) : GreaterThanJson(LengthOf(q[i]), min)}

LEMMA KeptExists ==
  ASSUME NEW texts \in Seq(STRING), NEW min
  PROVE  \E f : IsKept(texts, min, f, Len(texts))
<1> DEFINE S == {n \in Nat : \E f : IsKept(texts, min, f, n)}
<1>1. 0 \in S
  <2>1. IsKept(texts, min, [i \in 0..0 |-> <<>>], 0)
    BY DEF IsKept
  <2> QED
    BY <2>1
<1>2. ASSUME NEW k \in 1..Len(texts), k - 1 \in S PROVE k \in S
  <2>1. PICK f : IsKept(texts, min, f, k - 1)
    BY <1>2
  <2> DEFINE g == [i \in 0..k |-> IF i = k THEN KeptStep(texts, min, f[k - 1], k) ELSE f[i]]
  <2>2. k \in Nat /\ k - 1 \in 0..(k - 1) /\ k - 1 \in Nat
    OBVIOUS
  <2>3. \A i \in 0..(k - 1) : f[i] = IF i = 0 THEN <<>> ELSE KeptStep(texts, min, f[i - 1], i)
    BY <2>1 DEF IsKept, KeptStep
  <2>4. \A i \in 0..k : g[i] = IF i = 0 THEN <<>> ELSE KeptStep(texts, min, g[i - 1], i)
    <3> SUFFICES ASSUME NEW i \in 0..k
                 PROVE  g[i] = IF i = 0 THEN <<>> ELSE KeptStep(texts, min, g[i - 1], i)
      OBVIOUS
    <3>1. CASE i = k
      <4>1. g[i - 1] = f[k - 1] /\ i # 0
        BY <2>2, <3>1
      <4> QED
        BY <3>1, <4>1
    <3>2. CASE i # k
      <4>1. i \in 0..(k - 1) /\ g[i] = f[i] /\ (i # 0 => g[i - 1] = f[i - 1])
        BY <3>2
      <4> QED
        BY <2>3, <4>1
    <3> QED
      BY <3>1, <3>2
  <2>5. g = [i \in 0..k |-> g[i]]
    OBVIOUS
  <2> HIDE DEF g
  <2>6. g = [i \in 0..k |-> IF i = 0 THEN <<>> ELSE KeptStep(texts, min, g[i - 1], i)]
    BY <2>4, <2>5
  <2>7. IsKept(texts, min, g, k)
    BY <2>6 DEF IsKept, KeptStep
  <2> QED
    BY <2>2, <2>7
<1> HIDE DEF S
<1>3. Len(texts) \in S
  BY <1>1, <1>2, Induction
<1> QED
  BY <1>3 DEF S

LEMMA LongEnoughGives ==
  ASSUME NEW texts \in Seq(STRING), NEW min
  PROVE  LongEnough(texts, min) \in LongSeqs(min)
<1> DEFINE n == Len(texts)
           kept == CHOOSE f : IsKept(texts, min, f, n)
           S == {i \in Nat : i <= n => kept[i] \in LongSeqs(min)}
<1>1. IsKept(texts, min, kept, n)
  BY KeptExists
<1>2. LongEnough(texts, min) = kept[n]
  BY DEF LongEnough, IsKept
<1> HIDE DEF kept
<1>3. /\ kept[0] = <<>>
      /\ \A i \in 1..n : kept[i] = KeptStep(texts, min, kept[i - 1], i)
  <2>1. n \in Nat /\ 0 \in 0..n /\ \A i \in 1..n : i \in 0..n /\ i # 0
    OBVIOUS
  <2>2. kept = [i \in 0..n |-> IF i = 0 THEN <<>> ELSE KeptStep(texts, min, kept[i - 1], i)]
    BY <1>1 DEF IsKept, KeptStep
  <2> HIDE DEF n
  <2> QED
    BY <2>1, <2>2
<1>4. 0 \in S
  <2>1. <<>> \in LongSeqs(min)
    BY DEF LongSeqs
  <2> QED
    BY <1>3, <2>1
<1>5. ASSUME NEW k \in 1..n, k - 1 \in S PROVE k \in S
  <2>1. kept[k - 1] \in LongSeqs(min)
    BY <1>5
  <2>2. kept[k] = KeptStep(texts, min, kept[k - 1], k)
    BY <1>3
  <2>3. KeptStep(texts, min, kept[k - 1], k) \in LongSeqs(min)
    <3> DEFINE q == kept[k - 1]
               r == Append(q, texts[k])
    <3>1. q \in Seq(STRING) /\ \A i \in 1..Len(q) : GreaterThanJson(LengthOf(q[i]), min)
      BY <2>1 DEF LongSeqs
    <3>2. texts[k] \in STRING
      OBVIOUS
    <3> HIDE DEF q
    <3>3. /\ r \in Seq(STRING) /\ Len(r) = Len(q) + 1
          /\ \A i \in 1..Len(r) : r[i] = IF i = Len(q) + 1 THEN texts[k] ELSE q[i]
      BY <3>1, <3>2
    <3> HIDE DEF r
    <3>4. ASSUME GreaterThanJson(LengthOf(texts[k]), min) PROVE r \in LongSeqs(min)
      <4>1. \A i \in 1..Len(r) : GreaterThanJson(LengthOf(r[i]), min)
        BY <3>1, <3>3, <3>4
      <4> QED
        BY <3>3, <4>1 DEF LongSeqs
    <3> QED
      BY <2>1, <3>4 DEF KeptStep, q, r
  <2> QED
    BY <2>2, <2>3
<1> HIDE DEF S
<1>6. n \in S
  BY <1>4, <1>5, Induction
<1> QED
  BY <1>2, <1>6 DEF S

----------------------------------------------------------------------------
(* The inductive invariant.  A session that waits for clangd had a request *)
(* that could be read, and sent what asks about it.                        *)
WaitsOK(s, p) ==
  /\ p.req \in Read(s) /\ p.req = get_SimpleRequest(p.body)[1]
  /\ p.sent = json_RequestMessage(json_CompletionParams, Completion(s, p.req))

(* A reply is made of candidates that the identifiers gave, or all of the  *)
(* items of clangd's response.                                             *)
AreIdentifiers(candidates) ==
  \A i \in DOMAIN candidates : candidates[i].extra_menu_info = <<"[ID]">>
json_Candidates(candidates) == json_array(json_Candidate, candidates)
FromResponse(candidates, m) ==
  /\ ResponseOK(m)
  /\ \/ candidates = SemanticCandidates(TheResponse(m)[1])
     \/ Items(TheResponse(m)[1]) = <<>> /\ AreIdentifiers(candidates)
ReplyOK(p) ==
  /\ at(p.reply, "completions") = json_Candidates(p.candidates)
  /\ \A i \in DOMAIN p.candidates : CandidateOK(p.candidates[i])
  /\ p.response # Null => FromResponse(p.candidates, p.response)

Gives(p) == p.at = "answered" /\ p.target = "completions" /\ Is(p.reply, "object")
EntryOK(s, p) == (p.at = "semantic" => WaitsOK(s, p)) /\ (Gives(p) => ReplyOK(p))

HInv ==
  /\ DOMAIN session = Sessions /\ \A s \in Sessions : EntryOK(s, session[s])
  /\ ThrowsForCause
  /\ PumpEndsForCause

(* What an entry p of session s that is new tells about the step that made *)
(* it, which leaves these options and has read this message.               *)
Cause(p, options, message) ==
  /\ p.at = "threw"
  /\ \/ p.target \in {"completions", "event_notification", "debug_info"} /\ ~RequestOK(p.body)
     \/ p.target = "event_notification" /\ ~contains(p.body, "event_name")
     \/ p.target = "initialize" /\ ~contains(p.body, "user_options")
     \/ p.target = "filter_and_sort_candidates" /\ ~FilterOK(p.body)
     \/ p.target = "completions" /\ ~contains(options, LengthOption)
     \/ p.target = "completions" /\ ~ResponseOK(message)
     \/ p.target = "completions" /\ HasNoQuery(p.body)
Current(p, options) ==
  Gives(p) =>
    \A i \in DOMAIN p.candidates :
      p.candidates[i].extra_menu_info = <<"[ID]">> =>
        GreaterThanJson(LengthOf(p.candidates[i].insertion_text), at(options, LengthOption))
Makes(s, p) ==
  /\ session' = [session EXCEPT ![s] = p]
  /\ EntryOK(s, p) /\ Current(p, user_options')
  /\ alive' \/ Cause(p, user_options', read')

LEMMA SemanticOK ==
  ASSUME NEW r, NEW i \in DOMAIN SemanticCandidates(r)
  PROVE  /\ CandidateOK(SemanticCandidates(r)[i])
         /\ SemanticCandidates(r)[i].extra_menu_info = <<>>
<1> DEFINE item == Items(r)[i]
           c == SemanticCandidates(r)[i]
<1>1. c = CandidateOf(item)
  BY DEF SemanticCandidates
<1> HIDE DEF item, c
<1> DEFINE text == InsertionText(item)
           detail == DetailedInfo(item)
           kind == KindName(item.kind)
           label == item.label
<1>2. c = [insertion_text |-> text, menu_text |-> <<label>>,
           extra_menu_info |-> <<>>, detailed_info |-> <<detail>>, kind |-> <<kind>>,
           extra_data |-> <<>>, doc_string |-> <<>>, fixits |-> <<>>]
  BY <1>1 DEF CandidateOf
<1> HIDE DEF text, detail, kind, label
<1>3. CandidateOK(c)
  BY <1>2 DEF CandidateOK, CandidateNames, OptionalNames
<1> QED
  BY <1>2, <1>3 DEF c

LEMMA IdentifiersOK ==
  ASSUME NEW req, Identifiers(req) \in Seq(STRING), NEW options,
         NEW i \in DOMAIN IdentifierCandidates(req, options)
  PROVE  LET c == IdentifierCandidates(req, options)[i]
         IN  /\ CandidateOK(c) /\ c.extra_menu_info = <<"[ID]">>
             /\ GreaterThanJson(LengthOf(c.insertion_text), at(options, LengthOption))
<1> DEFINE min == at(options, LengthOption)
           long == LongEnough(Identifiers(req), min)
           c == IdentifierCandidates(req, options)[i]
           text == long[i]
<1>1. /\ i \in DOMAIN long
      /\ c = [insertion_text |-> text, menu_text |-> <<>>,
              extra_menu_info |-> <<"[ID]">>, detailed_info |-> <<>>, kind |-> <<>>,
              extra_data |-> <<>>, doc_string |-> <<>>, fixits |-> <<>>]
  BY DEF IdentifierCandidates
<1>2. long \in LongSeqs(min)
  BY LongEnoughGives
<1> HIDE DEF min, long, c
<1>3. GreaterThanJson(LengthOf(text), min)
  BY <1>1, <1>2 DEF LongSeqs
<1> HIDE DEF text
<1>4. CandidateOK(c)
  BY <1>1 DEF CandidateOK, CandidateNames, OptionalNames
<1> QED
  BY <1>1, <1>3, <1>4 DEF c, min

(* Entries that say nothing about completions, and those of the exceptions *)
LEMMA AnsweredMakes ==
  ASSUME NEW s, NEW target, NEW body, NEW reply, Answered(s, target, body, reply), alive',
         target # "completions" \/ ~Is(reply, "object")
  PROVE  \E p : Makes(s, p)
<1> DEFINE p == [at |-> "answered", target |-> target, body |-> body, reply |-> reply]
<1>1. session' = [session EXCEPT ![s] = p]
  BY DEF Answered
<1>2. p.at = "answered" /\ p.target = target /\ p.reply = reply
  OBVIOUS
<1> HIDE DEF p
<1>3. ~Gives(p) /\ p.at # "semantic"
  BY <1>2 DEF Gives
<1> QED
  BY <1>1, <1>3 DEF Makes, EntryOK, Current

LEMMA ThrowsMakes ==
  ASSUME NEW s, NEW target, NEW body, Throws(s, target, body),
         Cause([at |-> "threw", target |-> target, body |-> body], user_options', read')
  PROVE  \E p : Makes(s, p)
<1> DEFINE p == [at |-> "threw", target |-> target, body |-> body]
<1>1. session' = [session EXCEPT ![s] = p]
  BY DEF Throws
<1>2. p.at = "threw"
  OBVIOUS
<1>3. Cause(p, user_options', read')
  OBVIOUS
<1> HIDE DEF p
<1>4. ~Gives(p) /\ p.at # "semantic"
  BY <1>2 DEF Gives
<1> QED
  BY <1>1, <1>3, <1>4 DEF Makes, EntryOK, Current

LEMMA CompletedMakes ==
  ASSUME NEW s, NEW body, NEW req, NEW candidates, NEW response, alive,
         Completed(s, body, req, candidates, response),
         \A i \in DOMAIN candidates :
           /\ CandidateOK(candidates[i])
           /\ candidates[i].extra_menu_info = <<"[ID]">> =>
                GreaterThanJson(LengthOf(candidates[i].insertion_text),
                                at(user_options', LengthOption)),
         response # Null => FromResponse(candidates, response)
  PROVE  \E p : Makes(s, p)
<1> DEFINE reply == CompletionReply(req, candidates)
           p == [at |-> "answered", target |-> "completions", body |-> body,
                 candidates |-> candidates, response |-> response, reply |-> reply]
<1>1. session' = [session EXCEPT ![s] = p] /\ alive'
  BY DEF Completed
<1>2. at(reply, "completions") = json_Candidates(candidates)
  <2> DEFINE all == json_Candidates(candidates)
             errors == json_Errors(<<>>)
  <2>1. reply = Obj([completions |-> all, completion_start_column |-> Num(StartColumn(req)),
                     errors |-> errors])
    BY DEF CompletionReply, json_CompletionsResponse, json_Candidates
  <2> HIDE DEF reply, all, errors
  <2> QED
    BY <2>1 DEF Obj, at, all
<1> HIDE DEF reply
<1>3. /\ p.at = "answered" /\ p.candidates = candidates /\ p.response = response
      /\ p.reply = reply
  OBVIOUS
<1> HIDE DEF p
<1>4. EntryOK(s, p)
  BY <1>2, <1>3 DEF EntryOK, ReplyOK
<1>5. Current(p, user_options')
  BY <1>3 DEF Current
<1> QED
  BY <1>1, <1>4, <1>5 DEF Makes

LEMMA IsRead ==
  ASSUME NEW s \in Sessions, NEW r \in Requests[s], ~Threw(get_SimpleRequest(r.body)),
         LET req == get_SimpleRequest(r.body)[1] IN req.filepath \in DOMAIN req.file_data
  PROVE  get_SimpleRequest(r.body)[1] \in Read(s)
<1> DEFINE q == get_SimpleRequest(r.body)
           m == RequestMembers(r.body)
<1>1. q = WithDefault(r.body, m)
  BY DEF get_SimpleRequest, RequestMembers
<1> HIDE DEF m
<1>2. 1 \in DOMAIN q
  <2> HIDE DEF q
  <2>1. ~Threw(q)
    BY DEF q
  <2> QED
    BY <1>1, <2>1 DEF WithDefault, All, Threw
<1> QED
  BY <1>2 DEF Read

LEMMA FixedMakes ==
  ASSUME NEW s, NEW target \in DOMAIN FixedReply, NEW body, alive, Fixed(s, target, body)
  PROVE  \E p : Makes(s, p)
<1>1. target # "completions"
  BY DEF FixedReply
<1>2. alive' /\ Answered(s, target, body, FixedReply[target])
  BY DEF Fixed
<1> QED
  BY <1>1, <1>2, AnsweredMakes

LEMMA InitializeMakes ==
  ASSUME NEW s, NEW body, alive, handle_initialize(s, body)
  PROVE  \E p : Makes(s, p)
<1>1. CASE Threw(get_InitializeRequest(body))
  <2>1. Throws(s, "initialize", body)
    BY <1>1 DEF handle_initialize
  <2>2. Cause([at |-> "threw", target |-> "initialize", body |-> body], user_options', read')
    BY <1>1, InitializeRead DEF Cause
  <2> QED
    BY <2>1, <2>2, ThrowsMakes
<1>2. CASE ~Threw(get_InitializeRequest(body))
  <2>1. Answered(s, "initialize", body, Bool(TRUE)) /\ alive'
    BY <1>2 DEF handle_initialize
  <2> QED
    BY <2>1, AnsweredMakes
<1> QED
  BY <1>1, <1>2

LEMMA DebugMakes ==
  ASSUME NEW s, NEW body, alive, handle_debug_info(s, body)
  PROVE  \E p : Makes(s, p)
<1>1. CASE Threw(get_SimpleRequest(body))
  <2>1. Throws(s, "debug_info", body)
    BY <1>1 DEF handle_debug_info
  <2>2. Cause([at |-> "threw", target |-> "debug_info", body |-> body], user_options', read')
    BY <1>1, RequestRead DEF Cause
  <2> QED
    BY <2>1, <2>2, ThrowsMakes
<1>2. CASE ~Threw(get_SimpleRequest(body))
  <2>1. Answered(s, "debug_info", body, json_DebugInfoResponse(DebugInfo)) /\ alive'
    BY <1>2 DEF handle_debug_info
  <2> QED
    BY <2>1, AnsweredMakes
<1> QED
  BY <1>1, <1>2

LEMMA EventMakes ==
  ASSUME NEW s, NEW body, alive, handle_event_notification(s, body)
  PROVE  \E p : Makes(s, p)
<1> DEFINE r == get_EventNotification(body)
           Fails == \/ Threw(r) \/ ~contains(body, "event_name")
                    \/ r[1].filepath \notin DOMAIN r[1].file_data
<1>1. CASE Fails
  <2>1. Throws(s, "event_notification", body)
    BY <1>1 DEF handle_event_notification
  <2>2. Cause([at |-> "threw", target |-> "event_notification", body |-> body],
              user_options', read')
    BY <1>1, EventRead DEF Cause
  <2> QED
    BY <2>1, <2>2, ThrowsMakes
<1>2. CASE ~Fails
  <2>1. Answered(s, "event_notification", body, Obj(<<>>)) /\ alive'
    BY <1>2 DEF handle_event_notification
  <2> QED
    BY <2>1, AnsweredMakes
<1> QED
  BY <1>1, <1>2

LEMMA FilterMakes ==
  ASSUME NEW s, NEW body, alive, handle_filter_and_sort_candidates(s, body)
  PROVE  \E p : Makes(s, p)
<1> DEFINE r == Filter(body)
           candidates == r[1].candidates
           property == r[1].sort_property
           Sortable(c) == /\ property # <<>> /\ contains(c, property[1])
                          /\ Is(at(c, property[1]), "string")
           Fails == Threw(r) \/ \E i \in DOMAIN candidates : ~Sortable(candidates[i])
           strings == [i \in DOMAIN candidates |-> at(candidates[i], property[1])[2]]
           kept == FilterAndSort(strings, r[1].query)
           reply == Arr([i \in DOMAIN kept |-> candidates[kept[i]]])
<1>1. /\ Fails => Throws(s, "filter_and_sort_candidates", body)
      /\ ~Fails => Answered(s, "filter_and_sort_candidates", body, reply) /\ alive'
  BY DEF handle_filter_and_sort_candidates, Filter
<1>2. Fails => ~FilterOK(body)
  BY FilterRead
<1> HIDE DEF Fails, reply
<1>3. CASE Fails
  <2>1. Cause([at |-> "threw", target |-> "filter_and_sort_candidates", body |-> body],
              user_options', read')
    BY <1>2, <1>3 DEF Cause
  <2> QED
    BY <1>1, <1>3, <2>1, ThrowsMakes
<1>4. CASE ~Fails
  BY <1>1, <1>4, AnsweredMakes
<1> QED
  BY <1>3, <1>4

LEMMA FallbackMakes ==
  ASSUME NEW s, NEW body, NEW req, NEW options, NEW response, alive,
         Fallback(s, body, req, options, response),
         ~force_semantic(body), req = get_SimpleRequest(body)[1],
         Identifiers(req) \in Seq(STRING), user_options' = options,
         response # Null => ResponseOK(response) /\ Items(TheResponse(response)[1]) = <<>>
  PROVE  \E p : Makes(s, p)
<1> DEFINE Fails == \/ SearchThrows(req)
                    \/ Identifiers(req) # <<>> /\ ~contains(options, LengthOption)
           candidates == IdentifierCandidates(req, options)
<1>1. CASE Fails
  <2>1. Throws(s, "completions", body)
    BY <1>1 DEF Fallback
  <2>2. SearchThrows(req) => HasNoQuery(body)
    BY DEF SearchThrows, HasNoQuery
  <2>3. Cause([at |-> "threw", target |-> "completions", body |-> body], user_options', read')
    BY <1>1, <2>2 DEF Cause
  <2> QED
    BY <2>1, <2>3, ThrowsMakes
<1>2. CASE ~Fails
  <2>1. Completed(s, body, req, candidates, response)
    BY <1>2 DEF Fallback
  <2>2. \A i \in DOMAIN candidates :
          /\ CandidateOK(candidates[i]) /\ candidates[i].extra_menu_info = <<"[ID]">>
          /\ GreaterThanJson(LengthOf(candidates[i].insertion_text),
                             at(user_options', LengthOption))
    BY IdentifiersOK
  <2>3. response # Null => FromResponse(candidates, response)
    BY <2>2 DEF FromResponse, AreIdentifiers
  <2> HIDE DEF candidates
  <2> QED
    BY <2>1, <2>2, <2>3, CompletedMakes
<1> QED
  BY <1>1, <1>2

LEMMA CompletionsMakes ==
  ASSUME NEW s \in Sessions, NEW r \in Requests[s], alive, handle_completions(s, r.body)
  PROVE  \E p : Makes(s, p)
<1> DEFINE body == r.body
           q == get_SimpleRequest(body)
           req == q[1]
           BadForce == /\ contains(body, "force_semantic")
                       /\ ~Is(at(body, "force_semantic"), "boolean")
           BadOptions == AsksOptions(body) /\ ~Is(user_options, "object") /\ user_options # Null
           NoFile == req.filepath \notin DOMAIN req.file_data
           NoQuery == AsksOptions(body) /\ QueryThrows(req)
           Unread == Threw(q) \/ BadForce \/ NoFile
           Fails == Unread \/ BadOptions \/ NoQuery
<1>1. CASE Fails
  <2>1. Throws(s, "completions", body) /\ user_options' = user_options
    BY <1>1 DEF handle_completions
  <2>2. Unread => ~RequestOK(body)
    BY RequestRead DEF RequestOK, Has
  <2>3. BadOptions => ~contains(user_options', LengthOption)
    BY <2>1 DEF contains
  <2>4. ~Unread /\ NoQuery => HasNoQuery(body)
    <3>1. SUFFICES ASSUME ~Unread, NoQuery
                   PROVE  PastLine(req)
      BY DEF HasNoQuery, AsksOptions
    <3>2. req \in Read(s)
      BY <3>1, IsRead
    <3> HIDE DEF req
    <3> QED
      BY <3>1, <3>2, ColumnsAssumption DEF QueryThrows, PastLine
  <2> HIDE DEF Unread, BadOptions, NoQuery, body
  <2>5. Cause([at |-> "threw", target |-> "completions", body |-> body], user_options', read')
    BY <1>1, <2>2, <2>3, <2>4 DEF Cause
  <2> QED
    BY <2>1, <2>5, ThrowsMakes
<1>2. ASSUME ~Fails
      PROVE  /\ user_options' = Options(body)
             /\ \/ TooShort(body, req) /\ Answered(s, "completions", body, Arr(<<>>)) /\ alive'
                \/ /\ session' = [session EXCEPT ![s] =
                        [at |-> "semantic", body |-> body, req |-> req,
                         sent |-> json_RequestMessage(json_CompletionParams, Completion(s, req))]]
                   /\ alive'
                \/ Completed(s, body, req, <<>>, Null)
                \/ ~force_semantic(body) /\ Fallback(s, body, req, Options(body), Null)
  BY <1>2 DEF handle_completions
<1>3. CASE ~Fails /\ Answered(s, "completions", body, Arr(<<>>)) /\ alive'
  <2>1. ~Is(Arr(<<>>), "object")
    BY DEF Arr, Is
  <2> QED
    BY <1>3, <2>1, AnsweredMakes
<1>4. CASE /\ ~Fails /\ alive'
           /\ session' = [session EXCEPT ![s] =
                [at |-> "semantic", body |-> body, req |-> req,
                 sent |-> json_RequestMessage(json_CompletionParams, Completion(s, req))]]
  <2> DEFINE sent == json_RequestMessage(json_CompletionParams, Completion(s, req))
             p == [at |-> "semantic", body |-> body, req |-> req, sent |-> sent]
  <2>1. session' = [session EXCEPT ![s] = p]
    BY <1>4
  <2>3. /\ p.at = "semantic" /\ p.body = body /\ p.req = req /\ p.sent = sent
    OBVIOUS
  <2> HIDE DEF p
  <2>4. WaitsOK(s, p)
    BY <1>4, <2>3, IsRead DEF WaitsOK
  <2>5. ~Gives(p)
    BY <2>3 DEF Gives
  <2> QED
    BY <1>4, <2>1, <2>4, <2>5 DEF Makes, EntryOK, Current
<1>5. CASE ~Fails /\ Completed(s, body, req, <<>>, Null)
  <2> DEFINE none == <<>>
  <2>1. \A i \in DOMAIN none : FALSE
    OBVIOUS
  <2>2. Completed(s, body, req, none, Null)
    BY <1>5
  <2> HIDE DEF none
  <2> QED
    BY <2>1, <2>2, CompletedMakes
<1>6. CASE ~Fails /\ ~force_semantic(body) /\ Fallback(s, body, req, Options(body), Null)
  <2>1. Identifiers(req) \in Seq(STRING)
    BY <1>6, IsRead, IdentifiersAssumption
  <2> QED
    BY <1>2, <1>6, <2>1, FallbackMakes
<1> QED
  BY <1>1, <1>2, <1>3, <1>4, <1>5, <1>6

LEMMA ResumeMakes ==
  ASSUME NEW s \in Sessions, NEW message, alive, WaitsOK(s, session[s]), Resume(s, message),
         read' = message, user_options' = user_options, message # Null
  PROVE  \E p : Makes(s, p)
<1> DEFINE r == TheResponse(message)
           p == session[s]
           ToIdentifiers == Items(r[1]) = <<>> /\ ~force_semantic(p.body)
<1>1. /\ Threw(r) => Throws(s, "completions", p.body)
      /\ ~Threw(r) /\ ToIdentifiers => Fallback(s, p.body, p.req, user_options, message)
      /\ ~Threw(r) /\ ~ToIdentifiers =>
           Completed(s, p.body, p.req, SemanticCandidates(r[1]), message)
  BY DEF Resume, TheResponse
<1>2. CASE Threw(r)
  <2>1. Cause([at |-> "threw", target |-> "completions", body |-> p.body], user_options', read')
    BY <1>2, ResponseRead DEF Cause
  <2> QED
    BY <1>1, <1>2, <2>1, ThrowsMakes
<1>3. CASE ~Threw(r) /\ ToIdentifiers
  <2>1. Identifiers(p.req) \in Seq(STRING) /\ p.req = get_SimpleRequest(p.body)[1]
    BY IdentifiersAssumption DEF WaitsOK
  <2>2. ResponseOK(message)
    BY <1>3, ResponseRead
  <2> QED
    BY <1>1, <1>3, <2>1, <2>2, FallbackMakes
<1>4. CASE ~Threw(r) /\ ~ToIdentifiers
  <2> DEFINE candidates == SemanticCandidates(r[1])
  <2>1. \A i \in DOMAIN candidates :
          CandidateOK(candidates[i]) /\ candidates[i].extra_menu_info = <<>>
    BY SemanticOK
  <2>2. <<>> # <<"[ID]">>
    OBVIOUS
  <2>3. FromResponse(candidates, message)
    BY <1>4, ResponseRead DEF FromResponse
  <2>4. Completed(s, p.body, p.req, candidates, message)
    BY <1>1, <1>4
  <2> DEFINE b == p.body
             req == p.req
  <2> HIDE DEF candidates, b, req
  <2>5. \A i \in DOMAIN candidates :
          /\ CandidateOK(candidates[i])
          /\ candidates[i].extra_menu_info = <<"[ID]">> =>
               GreaterThanJson(LengthOf(candidates[i].insertion_text),
                               at(user_options', LengthOption))
    BY <2>1, <2>2
  <2>6. Completed(s, b, req, candidates, message)
    BY <2>4 DEF b, req
  <2> QED
    BY <2>3, <2>5, <2>6, CompletedMakes
<1> QED
  BY <1>2, <1>3, <1>4

LEMMA HandleMakes ==
  ASSUME NEW s \in Sessions, alive, Handle(s)
  PROVE  (\E p : Makes(s, p)) /\ UNCHANGED <<pump, read>>
<1>1. PICK r \in Requests[s] :
        \/ r.target \in DOMAIN FixedReply /\ Fixed(s, r.target, r.body)
        \/ r.target = "initialize" /\ handle_initialize(s, r.body)
        \/ r.target = "debug_info" /\ handle_debug_info(s, r.body)
        \/ r.target = "filter_and_sort_candidates" /\ handle_filter_and_sort_candidates(s, r.body)
        \/ r.target = "event_notification" /\ handle_event_notification(s, r.body)
        \/ r.target = "completions" /\ handle_completions(s, r.body)
  BY DEF Handle
<1>2. CASE r.target \in DOMAIN FixedReply /\ Fixed(s, r.target, r.body)
  BY <1>2, FixedMakes DEF Fixed
<1>3. CASE handle_initialize(s, r.body)
  BY <1>3, InitializeMakes DEF handle_initialize
<1>4. CASE handle_debug_info(s, r.body)
  BY <1>4, DebugMakes DEF handle_debug_info
<1>5. CASE handle_filter_and_sort_candidates(s, r.body)
  BY <1>5, FilterMakes DEF handle_filter_and_sort_candidates
<1>6. CASE handle_event_notification(s, r.body)
  BY <1>6, EventMakes DEF handle_event_notification
<1>7. CASE handle_completions(s, r.body)
  BY <1>7, CompletionsMakes DEF handle_completions
<1> QED
  BY <1>1, <1>2, <1>3, <1>4, <1>5, <1>6, <1>7

LEMMA PumpEnding ==
  \A m : EndsPump(m) <=>
           /\ contains(m, "method")
           /\ \/ ~Has(m, "method", "string")
              \/ /\ at(m, "method") = Str("textDocument/publishDiagnostics")
                 /\ ~contains(m, "id") /\ ~DiagnosticsOK(m)
BY NotificationRead DEF EndsPump, IsNotification, Has, Str, Is

LEMMA PumpMakes ==
  ASSUME HInv, alive, NEW message, message_pump(message)
  PROVE  /\ UNCHANGED user_options
         /\ \/ \E s \in Sessions : \E p : Makes(s, p)
            \/ UNCHANGED <<alive, session>>
         /\ PumpEndsForCause'
<1>1. /\ read' = message /\ pump' = (IF EndsPump(message) THEN "ended" ELSE "reads")
      /\ user_options' = user_options
  BY DEF message_pump
<1>2. PumpEndsForCause'
  BY <1>1, PumpEnding DEF PumpEndsForCause
<1>3. CASE contains(message, "id") /\ \E s \in Waiting(IdOf(message)) : Resume(s, message)
  <2>1. PICK s \in Sessions : session[s].at = "semantic" /\ Resume(s, message)
    BY <1>3 DEF Waiting
  <2>2. WaitsOK(s, session[s])
    BY <2>1 DEF HInv, EntryOK
  <2>3. message # Null
    BY <1>3 DEF contains, Is, Null
  <2> QED
    BY <1>1, <1>2, <2>1, <2>2, <2>3, ResumeMakes
<1>4. CASE UNCHANGED <<alive, session>>
  BY <1>1, <1>2, <1>4
<1> QED
  BY <1>3, <1>4 DEF message_pump

LEMMA NextMakes ==
  ASSUME HInv, Next
  PROVE  /\ \/ \E s \in Sessions : \E p : Makes(s, p)
            \/ UNCHANGED <<alive, session>> /\ alive
         /\ PumpEndsForCause'
<1>1. alive
  BY DEF Next
<1>2. CASE \E s \in Sessions : Handle(s)
  <2>1. PICK s \in Sessions : Handle(s)
    BY <1>2
  <2>2. (\E p : Makes(s, p)) /\ UNCHANGED <<pump, read>>
    BY <1>1, <2>1, HandleMakes
  <2>3. PumpEndsForCause'
    BY <2>2 DEF HInv, PumpEndsForCause
  <2> QED
    BY <2>2, <2>3
<1>3. CASE \E message \in ClangdMessages : message_pump(message)
  BY <1>1, <1>3, PumpMakes
<1> QED
  BY <1>2, <1>3 DEF Next

LEMMA HStart == Init => HInv
<1> SUFFICES ASSUME Init PROVE HInv
  OBVIOUS
<1>1. alive /\ pump = "reads" /\ read = Null /\ session = [s \in Sessions |-> Idle]
  BY DEF Init
<1>2. \A s \in Sessions : session[s].at = "idle"
  BY <1>1 DEF Idle
<1>3. \A s \in Sessions : EntryOK(s, session[s])
  BY <1>2 DEF EntryOK, Gives
<1>4. PumpEndsForCause
  BY <1>1 DEF PumpEndsForCause, contains, Is, Null
<1> QED
  BY <1>1, <1>3, <1>4 DEF HInv, ThrowsForCause

LEMMA HStep == HInv /\ [Next]_vars => HInv'
<1> SUFFICES ASSUME HInv, [Next]_vars PROVE HInv'
  OBVIOUS
<1>1. CASE UNCHANGED vars
  BY <1>1 DEF vars, HInv, ThrowsForCause, PumpEndsForCause
<1>2. CASE Next
  <2>1. PumpEndsForCause'
    BY <1>2, NextMakes
  <2>2. CASE UNCHANGED <<alive, session>> /\ alive
    BY <2>1, <2>2 DEF HInv, ThrowsForCause
  <2>3. ASSUME NEW s \in Sessions, NEW p, Makes(s, p) PROVE HInv'
    <3>1. session' = [session EXCEPT ![s] = p] /\ DOMAIN session = Sessions
      BY <2>3 DEF Makes, HInv
    <3>2. session'[s] = p
      BY <3>1
    <3>3. \A t \in Sessions : EntryOK(t, session'[t])
      <4> SUFFICES ASSUME NEW t \in Sessions PROVE EntryOK(t, session'[t])
        OBVIOUS
      <4>1. CASE t = s
        BY <2>3, <3>2, <4>1 DEF Makes
      <4>2. CASE t # s
        <5>1. session'[t] = session[t]
          BY <3>1, <4>2
        <5> QED
          BY <5>1 DEF HInv
      <4> QED
        BY <4>1, <4>2
    <3>4. ThrowsForCause'
      BY <2>3, <3>2 DEF Makes, Cause, ThrowsForCause
    <3> QED
      BY <2>1, <3>1, <3>3, <3>4 DEF HInv
  <2> QED
    BY <1>2, <2>2, <2>3, NextMakes
<1> QED
  BY <1>1, <1>2

LEMMA HAlways == Spec => []HInv
BY HStart, HStep, PTL DEF Spec

----------------------------------------------------------------------------
(* What a client reads of a reply                                          *)
LEMMA CandidatesWritten ==
  ASSUME NEW cs
  PROVE  LET all == json_Candidates(cs)
         IN  /\ Is(all, "array") /\ DOMAIN all[2] = DOMAIN cs
             /\ \A i \in DOMAIN cs : all[2][i] = json_Candidate(cs[i])
<1> DEFINE f == [i \in DOMAIN cs |-> json_Candidate(cs[i])]
<1>1. json_Candidates(cs) = Arr(f)
  BY DEF json_Candidates, json_array
<1>2. DOMAIN f = DOMAIN cs /\ \A i \in DOMAIN cs : f[i] = json_Candidate(cs[i])
  OBVIOUS
<1> HIDE DEF f
<1>3. Is(Arr(f), "array") /\ Arr(f)[2] = f
  BY DEF Arr, Is
<1> QED
  BY <1>1, <1>2, <1>3

LEMMA CandidateMember ==
  ASSUME NEW c, CandidateOK(c), NEW n \in OptionalNames, NEW x, c[n] = <<x>>
  PROVE  at(json_Candidate(c), n) = Str(x)
<1>1. c[n] # <<>> /\ c[n][1] = x
  OBVIOUS
<1> QED
  BY <1>1, CandidateReadBack

LEMMA CandidateText ==
  \A c : CandidateOK(c) => at(json_Candidate(c), "insertion_text") = Str(c.insertion_text)
BY CandidateReadBack

LEMMA NoNulls ==
  ASSUME NEW c, CandidateOK(c), NEW n \in DOMAIN json_Candidate(c)[2]
  PROVE  at(json_Candidate(c), n) # Null
BY CandidateReadBack

LEMMA ReadsSame == HInv => ClientReadsSame
<1> SUFFICES ASSUME HInv, NEW s \in Sessions, Replied(s), Is(session[s].reply, "object")
             PROVE  /\ get_array(get_Candidate, at(session[s].reply, "completions"))
                         = <<[i \in DOMAIN session[s].candidates |->
                                [n \in DOMAIN session[s].candidates[i] \ {"menu_text"} |->
                                   session[s].candidates[i][n]]]>>
                    /\ \A i \in DOMAIN Completions(s) :
                         Null \notin {at(Completions(s)[i], n) :
                                        n \in DOMAIN Completions(s)[i][2]}
  BY DEF ClientReadsSame
<1> DEFINE cs == session[s].candidates
           all == at(session[s].reply, "completions")
           ReadAs(c) == [n \in DOMAIN c \ {"menu_text"} |-> c[n]]
           read_all == [i \in DOMAIN cs |-> get_Candidate(json_Candidate(cs[i]))]
<1>1. all = json_Candidates(cs) /\ \A i \in DOMAIN cs : CandidateOK(cs[i])
  BY DEF HInv, EntryOK, Gives, Replied, ReplyOK
<1>2. Completions(s) = all[2]
  BY DEF Completions
<1> HIDE DEF all, cs
<1>3. \A i \in DOMAIN cs : get_Candidate(json_Candidate(cs[i])) = <<ReadAs(cs[i])>>
  BY <1>1, CandidateReadBack
<1>4. All(read_all) = <<[i \in DOMAIN cs |-> ReadAs(cs[i])]>>
  <2> DEFINE v == [i \in DOMAIN cs |-> ReadAs(cs[i])]
  <2>1. /\ DOMAIN read_all = DOMAIN cs /\ v = [i \in DOMAIN cs |-> v[i]]
        /\ \A i \in DOMAIN cs : read_all[i] = <<v[i]>>
    BY <1>3
  <2> HIDE DEF read_all, v
  <2>2. All(read_all) = <<v>>
    BY <2>1, AllRead
  <2> QED
    BY <2>2 DEF v
<1>5. Is(all, "array") /\ DOMAIN all[2] = DOMAIN cs
      /\ \A i \in DOMAIN cs : all[2][i] = json_Candidate(cs[i])
  BY <1>1, CandidatesWritten
<1>6. get_array(get_Candidate, all) = All(read_all)
  <2>1. get_array(get_Candidate, all) = All([i \in DOMAIN all[2] |-> get_Candidate(all[2][i])])
    BY <1>5 DEF get_array, get_elements
  <2>2. [i \in DOMAIN all[2] |-> get_Candidate(all[2][i])] = read_all
    BY <1>5
  <2> HIDE DEF read_all
  <2> QED
    BY <2>1, <2>2
<1>7. ASSUME NEW i \in DOMAIN all[2]
      PROVE  Null \notin {at(all[2][i], n) : n \in DOMAIN all[2][i][2]}
  <2>1. \A n \in DOMAIN all[2][i][2] : at(all[2][i], n) # Null
    BY <1>1, <1>5, NoNulls
  <2> QED
    BY <2>1
<1> QED
  BY <1>2, <1>4, <1>6, <1>7 DEF all, cs

(* A client reads in every reply the candidates that the completers made,  *)
(* and no null: `handle_completions`.                                      *)
THEOREM ClientsReadSame == Spec => []ClientReadsSame
BY HAlways, ReadsSame, PTL

LEMMA Suggests == HInv => SuggestsWhatClangdSent
<1> SUFFICES ASSUME HInv, NEW s \in Sessions, Replied(s), Is(session[s].reply, "object"),
                    session[s].response # Null
             PROVE  LET items == ResultItems(session[s].response)
                        all == Completions(s)
                    IN  IF DOMAIN items # {} /\ \A i \in DOMAIN items : ItemOK(items[i])
                        THEN /\ DOMAIN all = DOMAIN items
                             /\ \A i \in DOMAIN all :
                                  /\ at(all[i], "insertion_text") = TextOf(items[i])
                                  /\ at(all[i], "detailed_info") = InfoOf(items[i])
                        ELSE \A i \in DOMAIN all : at(all[i], "extra_menu_info") = Str("[ID]")
  BY DEF SuggestsWhatClangdSent
<1> DEFINE cs == session[s].candidates
           m == session[s].response
           items == ResultItems(m)
           all == Completions(s)
           read_items == Items(TheResponse(m)[1])
<1>1. /\ at(session[s].reply, "completions") = json_Candidates(cs)
      /\ \A i \in DOMAIN cs : CandidateOK(cs[i])
      /\ FromResponse(cs, m)
  BY DEF HInv, EntryOK, Gives, Replied, ReplyOK
<1>2. DOMAIN all = DOMAIN cs /\ \A i \in DOMAIN cs : all[i] = json_Candidate(cs[i])
  BY <1>1, CandidatesWritten DEF Completions
<1>3. ResponseOK(m)
  BY <1>1 DEF FromResponse
<1>4. IF \A i \in DOMAIN items : ItemOK(items[i])
      THEN /\ DOMAIN read_items = DOMAIN items
           /\ \A i \in DOMAIN items : read_items[i] = get_CompletionItem(items[i])[1]
      ELSE read_items = <<>>
  BY <1>3, ResponseItems
<1>5. \/ cs = SemanticCandidates(TheResponse(m)[1])
      \/ read_items = <<>> /\ AreIdentifiers(cs)
  BY <1>1 DEF FromResponse
<1> HIDE DEF cs, all, items, m
<1>6. AreIdentifiers(cs) => \A i \in DOMAIN all : at(all[i], "extra_menu_info") = Str("[ID]")
  <2> SUFFICES ASSUME AreIdentifiers(cs), NEW i \in DOMAIN cs
               PROVE  at(json_Candidate(cs[i]), "extra_menu_info") = Str("[ID]")
    BY <1>2
  <2>1. cs[i]["extra_menu_info"] = <<"[ID]">> /\ CandidateOK(cs[i])
    BY <1>1 DEF AreIdentifiers
  <2>2. "extra_menu_info" \in OptionalNames
    BY DEF OptionalNames
  <2> QED
    BY <2>1, <2>2, CandidateMember
<1>7. CASE DOMAIN items # {} /\ \A i \in DOMAIN items : ItemOK(items[i])
  <2>1. /\ DOMAIN read_items = DOMAIN items /\ read_items # <<>>
        /\ \A i \in DOMAIN items : read_items[i] = get_CompletionItem(items[i])[1]
    BY <1>4, <1>7
  <2>2. cs = [i \in DOMAIN read_items |-> CandidateOf(read_items[i])]
    BY <1>5, <2>1 DEF SemanticCandidates
  <2>3. DOMAIN all = DOMAIN items
    BY <1>2, <2>1, <2>2
  <2>4. ASSUME NEW i \in DOMAIN items
        PROVE  /\ at(all[i], "insertion_text") = TextOf(items[i])
               /\ at(all[i], "detailed_info") = InfoOf(items[i])
    <3> DEFINE item == get_CompletionItem(items[i])[1]
    <3>1. cs[i] = CandidateOf(item) /\ all[i] = json_Candidate(cs[i]) /\ CandidateOK(cs[i])
      BY <1>1, <1>2, <2>1, <2>2
    <3>2. Str(InsertionText(item)) = TextOf(items[i]) /\ Str(DetailedInfo(item)) = InfoOf(items[i])
      BY <1>7, TextRead, InfoRead
    <3> HIDE DEF item
    <3>3. /\ cs[i].insertion_text = InsertionText(item)
          /\ cs[i]["detailed_info"] = <<DetailedInfo(item)>>
      <4> DEFINE text == InsertionText(item)
                 detail == DetailedInfo(item)
                 kind == KindName(item.kind)
                 label == item.label
      <4>1. cs[i] = [insertion_text |-> text, menu_text |-> <<label>>,
                     extra_menu_info |-> <<>>, detailed_info |-> <<detail>>, kind |-> <<kind>>,
                     extra_data |-> <<>>, doc_string |-> <<>>, fixits |-> <<>>]
        BY <3>1 DEF CandidateOf
      <4> HIDE DEF text, detail, kind, label
      <4> QED
        BY <4>1 DEF text, detail
    <3>4. "detailed_info" \in OptionalNames
      BY DEF OptionalNames
    <3>5. at(all[i], "insertion_text") = Str(InsertionText(item))
      BY <3>1, <3>3, CandidateText
    <3>6. at(all[i], "detailed_info") = Str(DetailedInfo(item))
      BY <3>1, <3>3, <3>4, CandidateMember
    <3> QED
      BY <3>2, <3>5, <3>6
  <2> QED
    BY <1>7, <2>3, <2>4 DEF all, items, m
<1>8. CASE ~(DOMAIN items # {} /\ \A i \in DOMAIN items : ItemOK(items[i]))
  <2>1. DOMAIN read_items = {}
    <3>1. CASE \A i \in DOMAIN items : ItemOK(items[i])
      BY <1>4, <1>8, <3>1
    <3>2. CASE ~\A i \in DOMAIN items : ItemOK(items[i])
      <4>1. read_items = <<>>
        BY <1>4, <3>2
      <4> HIDE DEF read_items
      <4> QED
        BY <4>1
    <3> QED
      BY <3>1, <3>2
  <2>2. CASE AreIdentifiers(cs)
    BY <1>6, <1>8, <2>2 DEF all, items, m
  <2>3. CASE cs = SemanticCandidates(TheResponse(m)[1])
    <3>1. DOMAIN all = {}
      BY <1>2, <2>1, <2>3 DEF SemanticCandidates
    <3> QED
      BY <1>8, <3>1 DEF all, items, m
  <2> QED
    BY <1>5, <2>2, <2>3
<1> QED
  BY <1>7, <1>8

(* What clangd's response says reaches the client, or nothing of it does   *)
(* and the client gets identifiers: the response handling of               *)
(* `handle_completions`.                                                   *)
THEOREM SuggestsClangdsItems == Spec => []SuggestsWhatClangdSent
BY HAlways, Suggests, PTL

(* What is asked                                                           *)
LEMMA CompletionWritten ==
  ASSUME NEW req
  PROVE  LET p == json_CompletionParams(CompletionParams(req))
         IN  /\ DOMAIN p[2] = {"textDocument", "position"}
             /\ at(at(p, "position"), "line") = Num(req.line_num - 1)
             /\ at(at(p, "position"), "character") = Num(ColumnCodepoint(req) - 1)
             /\ at(at(p, "textDocument"), "uri")[2][2] = req.filepath
<1> DEFINE v == CompletionParams(req)
           id == v.textDocument
           place == v.position
           i == json_TextDocumentIdentifier(id)
           l == json_Position(place)
           ms == [textDocument |-> <<i>>, position |-> <<l>>, context |-> <<>>]
           p == Obj(Written(ms))
<1>1. /\ id = [uri |-> URI(req.filepath)]
      /\ place = [line |-> req.line_num - 1, character |-> ColumnCodepoint(req) - 1]
      /\ v.context = <<>>
  BY DEF CompletionParams
<1>2. json_CompletionParams(v) = p
  BY <1>1 DEF json_CompletionParams, if_set
<1>3. at(l, "line") = Num(req.line_num - 1) /\ at(l, "character") = Num(ColumnCodepoint(req) - 1)
  BY <1>1 DEF json_Position, Obj, at
<1>4. at(i, "uri")[2][2] = req.filepath
  BY <1>1 DEF json_TextDocumentIdentifier, Obj, at, Str, URI
<1> HIDE DEF v, id, place, i, l
<1>5. /\ DOMAIN ms = {"textDocument", "position", "context"}
      /\ ms.textDocument = <<i>> /\ ms.position = <<l>> /\ ms.context = <<>>
  OBVIOUS
<1> HIDE DEF ms
<1>6. Written(ms) = [n \in {"textDocument", "position"} |-> ms[n][1]]
  BY <1>5 DEF Written
<1>7. /\ DOMAIN p[2] = {"textDocument", "position"}
      /\ at(p, "textDocument") = i /\ at(p, "position") = l
  BY <1>5, <1>6 DEF Obj, at
<1> HIDE DEF p
<1> QED
  BY <1>2, <1>3, <1>4, <1>7 DEF v

LEMMA Asks == HInv => AsksAboutCursor
<1> SUFFICES ASSUME HInv, NEW s \in Sessions, session[s].at = "semantic",
                    RequestOK(session[s].body)
             PROVE  LET sent == session[s].sent
                        params == at(sent, "params")
                    IN  /\ DOMAIN sent[2] = {"jsonrpc", "id", "method", "params"}
                        /\ at(sent, "id") = Num(s)
                        /\ DOMAIN params[2] = {"textDocument", "position"}
                        /\ at(at(params, "position"), "line")
                             = Num(at(session[s].body, "line_num")[2] - 1)
                        /\ at(at(params, "position"), "character")
                             = Num(ColumnCodepoint(session[s].req) - 1)
                        /\ at(at(params, "textDocument"), "uri")[2][2]
                             = at(session[s].body, "filepath")[2]
  BY DEF AsksAboutCursor
<1> DEFINE req == session[s].req
           body == session[s].body
           p == json_CompletionParams(CompletionParams(req))
           j == RequestJson(s, "textDocument/completion", p)
<1>1. session[s].sent = j
  <2>1. session[s].sent = json_RequestMessage(json_CompletionParams, Completion(s, req))
    BY DEF HInv, EntryOK, WaitsOK
  <2> QED
    BY <2>1, CompletionSent
<1>2. req = get_SimpleRequest(body)[1]
  BY DEF HInv, EntryOK, WaitsOK
<1>3. req.line_num = at(body, "line_num")[2] /\ req.filepath = at(body, "filepath")[2]
  BY <1>2, RequestRead
<1> HIDE DEF req, body
<1>4. /\ DOMAIN p[2] = {"textDocument", "position"}
      /\ at(at(p, "position"), "line") = Num(req.line_num - 1)
      /\ at(at(p, "position"), "character") = Num(ColumnCodepoint(req) - 1)
      /\ at(at(p, "textDocument"), "uri")[2][2] = req.filepath
  BY CompletionWritten
<1> HIDE DEF p
<1>5. /\ DOMAIN j[2] = {"jsonrpc", "id", "method", "params"} /\ at(j, "id") = Num(s)
      /\ at(j, "params") = p
  BY RequestWritten
<1> HIDE DEF j
<1> QED
  BY <1>1, <1>3, <1>4, <1>5 DEF req, body

(* clangd is asked about the cursor, under the id the session waits for,   *)
(* whatever the columns are: `handle_completions`.                         *)
THEOREM ClangdIsAskedAboutCursor == Spec => []AsksAboutCursor
BY HAlways, Asks, PTL

LEMMA ReadBack == HInv => SentIsReadBack
<1> SUFFICES ASSUME HInv, NEW s \in Sessions, session[s].at = "semantic"
             PROVE  get_RequestMessage(get_CompletionParams, session[s].sent)
                      = <<Completion(s, session[s].req)>>
  BY HandshakeReadBack, OpenedReadBack, ChangedReadBack, ClosedReadBack DEF SentIsReadBack
<1>1. session[s].sent = json_RequestMessage(json_CompletionParams, Completion(s, session[s].req))
  BY DEF HInv, EntryOK, WaitsOK
<1> QED
  BY <1>1, AskReadBack

(* Every message to clangd is read back as what was meant, for any         *)
(* request: the conversions of `lsp::` (lsp_types.hpp).                    *)
THEOREM MessagesAreReadBack == Spec => []SentIsReadBack
BY HAlways, ReadBack, PTL

(* An exception that ends the process has one of the causes listed, for    *)
(* any requests and messages.                                              *)
THEOREM ExceptionsHaveCause == Spec => []ThrowsForCause
<1>1. HInv => ThrowsForCause
  BY DEF HInv
<1> QED
  BY <1>1, HAlways, PTL

(* The message pump ends exactly with a message that it cannot read:       *)
(* `message_pump`.                                                         *)
THEOREM PumpHasCause == Spec => []PumpEndsForCause
<1>1. HInv => PumpEndsForCause
  BY DEF HInv
<1> QED
  BY <1>1, HAlways, PTL

(* Identifiers are suggested by the options of the moment of the answer,   *)
(* however long the session waited for clangd.                             *)
THEOREM OptionsAreCurrent == Spec => UsesCurrentOptions
<1> DEFINE Step == \A s \in Sessions :
             session[s].at # "answered" /\ Replied(s)' /\ Is(session'[s].reply, "object") =>
               \A i \in DOMAIN session'[s].candidates :
                 LET c == session'[s].candidates[i]
                 IN  c.extra_menu_info = <<"[ID]">> =>
                       GreaterThanJson(LengthOf(c.insertion_text),
                                       at(user_options', LengthOption))
<1>1. HInv /\ [Next]_vars => [Step]_vars
  <2> SUFFICES ASSUME HInv, Next, NEW t \in Sessions, session[t].at # "answered", Replied(t)',
                      Is(session'[t].reply, "object")
               PROVE  Current(session'[t], user_options') /\ Gives(session'[t])
    BY DEF Current
  <2>1. Gives(session'[t])
    BY DEF Gives, Replied
  <2>2. session'[t].at = "answered"
    BY DEF Replied
  <2>3. PICK s \in Sessions : \E p : Makes(s, p)
    BY <2>2, NextMakes
  <2>4. PICK p : Makes(s, p)
    BY <2>3
  <2>5. session' = [session EXCEPT ![s] = p] /\ DOMAIN session = Sessions
    BY <2>4 DEF Makes, HInv
  <2>6. t = s /\ session'[t] = p
    BY <2>2, <2>5
  <2> QED
    BY <2>1, <2>4, <2>6 DEF Makes
<1> QED
  BY <1>1, HAlways, PTL DEF Spec, UsesCurrentOptions
=============================================================================
