# A verification development for ycmd-cpp

ycmd-cpp is a re-implementation in C++ of the code-completion server `ycmd`: a
single-threaded HTTP server (Boost.Beast on one asio `io_context`) that answers
completion requests of an editor, either from a database of identifiers or from
`clangd`, which it starts on demand and speaks to in the Language Server
Protocol (LSP) over pipes. This directory holds TLA+ models of its parts, the
TLC configurations that check them on small instances, and theorems with proofs
that the TLA+ proof system (TLAPS) checks. Paths below are those of the
repository (`src/src/ycmd.cpp` is the server's main file); `PROJECT.json` maps
every definition of the models to the lines it models.

## 1. Inventory

| Part | Code | State | Operations |
|---|---|---|---|
| HTTP server | `ycmd.cpp` | the acceptor, one coroutine per connection | `listen`, `handle_session`, shutdown by `ShutdownResult`, the exit of `io_context::run` |
| Request handlers | `handlers.cpp`, `server.cpp` | `server` (user options, the two completers) | `event_notification`, `completions`, `filter_and_sort_candidates`, `initialize`, `ready`, ... |
| Clangd completer | `completers/cpp/clangd_completer.cpp` | `next_id`, `pending_requests`, `opened_files`, init result, the child process | `init`, `get_response`, `message_pump`, `sync_files`, `compute_candidates` |
| LSP sending | `lsp/comms.cpp`, `lsp/lsp.hpp` | one function-local `static asio::streambuf` | `send_message`, `send_request`, `send_notification` |
| LSP reading | `lsp/comms.cpp` | a generator's own `streambuf`, the content length | `read_message` |
| Identifier completer | `completers/general/identifier_completer.cpp`, `core/IdentifierCompleter.cpp`, `core/IdentifierDatabase.cpp`, `core/Repository.h` | filetype -> filepath -> vector of candidates; interned candidates | events, recreate per file, add one, query |
| Matching and ranking | `core/Candidate.cpp`, `core/Result.cpp`, `core/Utils.h` | none | `QueryMatchResult`, `Result` order, `PartialSort` |
| Words | `core/Word.cpp`, `core/Character.cpp`, `core/CodePoint.cpp` | interned characters | grapheme segmentation, bytes present |
| Request columns | `request_wrap.cpp`, `identifier_utils.cpp`, `core/IdentifierUtils.cpp` | lazily computed fields | start column, query, identifiers in a buffer or under the cursor |
| API types | `api.hpp`, `lsp/lsp_types.hpp`, `json/` | none | conversions from and to JSON |
| Stubs | filename and UltiSnips completers | none | empty |
| Example client | `test/` | none | sends requests to a server |

How they interact. A request is read by a session coroutine, which calls its
handler. An event notification first goes to the identifier completer
(synchronously) and then to the clangd completer, which starts clangd on the first
`FileReadyToParse`, waits for the answer to its `initialize` request and sends the
changes of the open files. A completion synchronises the files as well, asks
clangd and suspends. The detached coroutine `message_pump` reads what clangd
sends and resumes the session that waits for a response: it is the only link from
clangd to the sessions. Everything runs on ONE thread; concurrency is that of
coroutines, which interleave at their suspensions (socket reads and writes, writes to
clangd, `get_response`) and nowhere else.

What is hard, and what therefore decides the properties (`PROJECT.json` lists every
hazard at its line):

* all sends to clangd share one static buffer, although sends of several sessions
  overlap (`comms.cpp:167-186`);
* `sync_files` holds an iterator into `opened_files` and copies of its entries
  across suspensions, while other sessions change the map;
* the handshake with clangd: requests that arrive while `initialize` is
  outstanding; clangd that is missing, dies, or answers with an error;
* the response of clangd has to meet the session that waits for it;
* shutdown races with accept, with sessions in progress and with the message pump;
* exceptions inside a handler, and inside the clause that handles them;
* the identifier fallback runs after an await, on a database other sessions have
  changed, with repeated identifiers and an unordered map;
* columns in bytes, code points and 0- or 1-based indexes; three different searches
  for "the identifier at the cursor";
* messages cut anywhere by the pipe, header lines that are no headers, a read that takes
  more than the line it looks for;
* conversions between JSON and C++ types that throw, or swallow the exception and keep a
  default: which of them ends a handler, the pump or the process;
* a greedy one-pass match behind a byte filter, an order of eleven criteria that the
  standard library's sorts rely on, a segmentation loop with two flags.

What makes each part correct: the senders' bytes reach clangd once and whole; what clangd
writes is yielded message by message, however it is cut; what clangd suggests reaches the
client through four conversions; clangd's
view of the files is that of ycmd; a response resumes the session that asked; a
connection is served once and a shutdown ends the process; the suggestions are exactly
the matching identifiers, each once, in a determined order; a query is the
identifier before the cursor; a character is what Unicode says it is.

## 2. Modules

| Module | Models | Uses |
|---|---|---|
| `LspSend` | `lsp::send_message`: the shared buffer, partial and queued writes | |
| `ClangdCompleter` | the clangd completer, the event and completion handlers around it, clangd itself | `INSTANCE LspSend` |
| `LspStream` | abstract: what the message pump relies on when it resumes `read_message` | |
| `LspReader` | `lsp::read_message`, the pipe and what clangd writes into it; implements `LspStream` | `INSTANCE LspStream` |
| `Json` | the macros of `json_serialisation.hpp` and what they use of the JSON library (operators) | |
| `LspTypes`, `ApiTypes` | `get<T>()` and `json( v )` of the structs of `lsp_types.hpp` and `api.hpp` (operators) | `EXTENDS Json` |
| `Handlers` | the handlers of all requests, the completers' conversions, the pump's dispatch | `EXTENDS LspTypes, ApiTypes` |
| `ServerLifecycle` | abstract: what the HTTP server promises | |
| `HttpServer` | the accept loop, sessions, shutdown, exit; implements `ServerLifecycle` | `INSTANCE ServerLifecycle` |
| `IdentifierSets` | abstract: sets of names per file, what a completion may answer | |
| `IdentifierCompleter` | the identifier database, its events and queries, the fallback of `handle_completions`; implements `IdentifierSets` | `INSTANCE IdentifierSets` |
| `Candidates` | characters, bytes present, word boundaries, longest common subsequence (operators) | |
| `Matching` | the filter before, and the loop of, `Candidate::QueryMatchResult` | `EXTENDS Candidates` |
| `Ranking` | the features of a `Result`, `operator<`, `filter_and_sort_candidates`, `PartialSort` | `EXTENDS Candidates` |
| `RequestColumns` | the lazily computed columns and query, the identifiers at the cursor | |
| `Graphemes` | breaking code points into characters | |
| `LspSendProofs`, `LspReaderProofs`, `ClangdProofs`, `HandlersProofs`, `HttpServerProofs`, `IdentifierCompleterProofs`, `CandidateProofs` (about `Matching` and `Ranking`), `TextProofs` (about `RequestColumns` and `Graphemes`) | theorems and proofs | what they are about |
| `MC...` | values of the constants for TLC, symmetry | the module of that name |

### LspSend

`send_message` writes a frame into the static streambuf (`appended` grows), passes the
*whole* `data()` to `async_write` and suspends. The bytes ever appended form a stream
numbered from 1; the buffer is its window `consumed+1 .. appended`, because a
streambuf only grows at the end and shrinks at the front. `op[w]` is writer w's
`async_write`: what it was given (`n`), the position to transfer next, what remains.
The pipe takes any number of bytes at a time (`k`), at once when no other write
waits (asio's speculative write) or later in the order of the descriptor's queue.
After a short transfer, asio's composed operation starts the next one
(`WriteRest`), behind whoever waits by then. `Complete` is the end of
`async_write(streambuf)`, which consumes what it wrote; consumption is clamped to
the buffer's size, as in asio.

Two overlapping sends *do* repeat bytes: the second is given the first one's frame as
well. The model says so, and its properties say precisely what still holds:
without overlap the pipe carries exactly the frames (`ExclusiveExact`); with overlap
bytes may be repeated and, between two partial writes, be interleaved, but
none is lost (`NothingLost`), as long as the buffer's storage was not moved
under an unfinished write (`moved`: a streambuf reallocates when it grows, and
asio's buffer sequence still points to the old storage; the model lets any growth do
that, and what is then sent is `Garbage`); and whatever happened, the buffer is empty
again once no send is outstanding (`DrainedWhenIdle`).

### ClangdCompleter

`running` is the session whose coroutine has the thread. An action is what one
coroutine does up to its next suspension or its next loop iteration; actions of
others are enabled only when `running = Nobody`. `pc[s]` names the suspension:
`sendFile` and `sendClose` are `send_notification` in the loops of `sync_files`,
`awaitInit` and `awaitCompletion` are `get_response`. `engaged` is
`server.clangd_completer` holding a value, `initialised` its `init_result`;
`opened_files` is the map to version and hash. `todo[s]` is what the first loop has still
to visit; `rest[s]` and `at[s]` are the close loop's iterator: what lies ahead of it and
what it points to. An element another session erases while `at[s]` points to it leaves
the iterator dangling (the build has the address sanitizer on by default: abort).

The sender is `LspSend` with frames of one cell that always fit into the pipe:
`SendAtOnce` is its `Send` with all cells transferred, and a write's completion is
`WriteDone`. `stream` records the messages in the order of the calls, `wire` (of
`LspSend`) which of them the pipe carried, repeated ones included, so
`stream[wire[i]]` is the i-th message clangd reads.

`PumpAnswers` erases the pending entry and resumes the waiter in the same handler, as
the pump does by calling the completion handler. clangd (`ClangdReads`,
`ClangdAnswers`, `ClangdDies`) is external: it reads in order, answers in any
order, may exit. `Faults` chooses what may go wrong: no `clangd` in `PATH`, a spawn that
throws, a clangd that dies, an error response, a malformed message.

A write to a clangd that has died does not kill ycmd: `py::scoped_interpreter` (`ycmd.cpp:325`) makes
Python ignore SIGPIPE, so the write fails with EPIPE. What follows depends on the caller. `sync_files` awaits
its writes, so the exception leaves the handler and aborts (`WriteFails`).
`get_response` spawns the sender detached, so the error is lost; its session is suspended already and waits for a response
that nobody will send (`AskClangd` with `child = "dead"`). What the failed write leaves in the buffer is not followed
further, because no clangd reads it; so the properties about the files are conditioned on a clangd that is not dead.

### LspReader and LspStream

The bytes clangd writes are numbered from 1; `buf` is the window `consumed+1 .. received`. The
pipe carries any number at a time (`ClangdWrites`); `ReadSome` takes any number of them, in the
headers also beyond the line that `async_read_until` looks for, in the content not more than is
missing. `HeaderLine` is one iteration of the loop over the headers with all its ends: a
blank line, a length that is empty or does not parse (both leave the loop, with the length of
an earlier line if there was one), any other line (ignored). `Yield` is `json::parse` and the
`co_yield`; the pump resumes the generator at once, because it handles a message without suspending
in between. A cell is a byte of a text or a token of a header line (`LENGTH` is the name in
any case, `HUGE` a number beyond `size_t`).

What a message is cannot be left to the reader's code, or the properties would say that
the code does what it does. So a stream is given as cells together with `frames`, saying where
the lines of a header, the line with the length and the text are; `StreamOK` says what clangd
owes the reader: a length that is that of the text, no other line with one. Rubbish between
messages is allowed as far as the code recovers from it. `LspStream` knows no bytes: messages
become complete, are yielded one by one, and the generator ends when none is left.

### Json, LspTypes, ApiTypes and Handlers

A JSON value is a pair of its kind and what it holds. For a type `T` of the code, `get_T(j)` is
`j.get<T>()`: the value as a sequence of one, or nothing if it throws; `json_T(v)` is
`json( v )`. What is a template in the code takes the operators of its type arguments:
`get_array(get_Candidate, j)` for a vector, `get_ResponseMessage(get_CompletionsResponse, j)` for
`ResponseMessage<CompletionsResponse>`. So the types nest as deeply as they do in the code and no
operator is recursive, which the proofs need. What such an operator does with what it has read or written is an
operator of its own (`from_member`, `get_optional`, `one_of`, `RequestMessage`, ...). `Mandatory`, `WithDefault` and `AndBase` are the three
macros. A variant tries *every* alternative and keeps the last that does not throw, or its default; a
member that is not there keeps what the constructor left, which for a number, a Boolean or an enum is
any value (`Indeterminate...`).

`Handlers` runs every handler of the table on such values: the events, `compute_candiatdes`
with its request to clangd and the conversion of items to candidates, the fallback to
identifiers, `filter_and_sort_candidates`, the options replaced by `initialize` while a
completion waits, the answers that are constants. `message_pump` converts what clangd sends and
finds the session by the id; it ends by an exception that nobody catches. Columns, the length of the line, whether
the query's bytes are cut inside a character, identifiers and their order are constants of this module (`RequestColumns`,
`IdentifierCompleter` and `Ranking` model them), and clangd is taken to be ready (`ClangdCompleter`
has the handshake). What the code does with them is not: `query()` throws `std::out_of_range` for a column past the end of the line
(`QueryThrows`), so the first use of it, which `force_semantic` skips, ends the handler; and the database's `Word( query )` throws
for bytes that begin inside a character, if it knows the filetype (`SearchThrows`). Options are read through a `const json&`, where a missing member is an assertion;
the default build keeps assertions. Requests have a line and a column of at least 1 and a
filetype per file, so no unsigned subtraction wraps.

### HttpServer and ServerLifecycle

One action per handler of the `io_context`. `listening` distinguishes an accept that
waits in the reactor (`pending`) from one that has a socket and whose handler is
queued (`completed`): `acceptor.cancel()` only affects the former. `conn[c]`
follows a connection from the kernel's backlog through the session's suspensions to
its end. `semantic` requests suspend until clangd responds. Once clangd is dead they either have a file to
synchronise, which aborts (`HandlerThrows`), or have none and suspend for ever (`AskClangd`). clangd and its pump
are one variable here, because all that matters is that the pump lives as long as
clangd does and keeps `io_context::run` from returning.

`ServerLifecycle` is what a user of the server may rely on: it takes connections up
while it serves, stops as the end of one request, finishes the connections it has
taken up, then exits; it may crash. The refinement maps `phase` to `status` and
`listening`, `active` to the connections taken up.

### IdentifierCompleter and IdentifierSets

`filetype_candidate_map` maps (filetype, path) to the sequence of the candidates' texts.
The two events that teach it are `FileReadyToParse` (the entry is replaced by the
identifiers of the text, repetitions included, overlong ones as the empty text) and
`AddSingleIdentifier` (appended unless it is there). `HandleCompletions` is
`handle_completions` up to its first await; a filetype without a semantic completer goes
straight on. After the await (`SemanticAnswers`, `SemanticHasNothing`), in the handler that
resumes the session, the query runs: `NextPath` takes the paths in any order (the map is
unordered), `Skip` and `Take` are the loop over the candidates with `seen_candidates`,
`Reply` sorts, drops the short ones and answers. The query does not suspend, so no event
is enabled while `asking` is set. `CutQueries` are the queries whose bytes begin inside a character: the query of the
database then throws before its loop if it knows the filetype, and ycmd is `aborted` (`StartQuery`).

Which names match and how they rank are constants here, because `Matching` and `Ranking`
model them. `IdentifierSets` knows no vectors, loops, clones or sorting: a set of names per
file, and an answer that is the set of wanted names at the time it is given.

### Candidates, Matching, Ranking

A character is a base letter, a combining mark and a case; the three strings a `Character`
holds (`normal_`, `folded_case_`, `base_`) are then the record, the record without case,
and the letter. `Matching` runs the loop one candidate character at a time; the variable
`matched` (not in the code) records where the query's characters matched, so that the
properties can compare the result with *every* way the query is a subsequence of the
candidate. `Ranking` computes the features of a result by their meaning, which `Matching`
shows the loop to compute, and filters and sorts a list; the sort yields any arrangement
the order allows, as `std::partial_sort` and `std::sort` may. A text of more than 80 bytes is stored as the empty
candidate (`Stored`), which no query but the empty one finds. A text stands for the object that had it in the request; objects
with the same text may be answered in any order. The query is declared in
`Candidates`, and `Ranking`'s specification is called `RankingSpec`, so that `CandidateProofs` can
extend both modules and relate what one computes to what the other finds. (`Graphemes` has a
`BreakSpec` because `TextProofs` extends it together with `RequestColumns`.)

### RequestColumns

A line is a sequence of characters of a kind (letter, digit, other: what the default
identifier regex tells apart) and a width in bytes. The loop of
`StartOfLongestIdentifierEndingAt` is modelled step by step; the lazily computed fields
are operators over it. `query_bytes` keeps its unsigned subtraction: below zero it
wraps around and `substr` returns the rest of the line. `Memory` is the line with its
newline or terminator behind it, which `column_codepoint` reads when the cursor is at the end.
Filetypes with an identifier regex of their own are not modelled.

### Graphemes

A code point is its break property. `starts` records where the loop began a new
character. The reference, `Boundaries`, are the rules of UAX #29 the comments cite (GB3 to
GB13), which look back over the whole text, whereas the loop sees two neighbours and two
flags.

## 3. Runs

| Run | Constants | Shows |
|---|---|---|
| `lsp_send` | 3 writers, frames of 1 or 2 cells, 4 cells, fair | `DrainedWhenIdle`, `ExclusiveExact`, `NothingLost`, `EventuallyDrained` |
| `lsp_reader` | 20 streams of one to three messages with noise before, between and behind, fair | `Framed`, `EndsForCause`, `ReadsStream` (refinement), `EventuallyYielded` |
| `clangd_sync` | 3 sessions over 3 files or 4 sessions over 2 files, 2 contents | `PendingAwaited`, `HandshakeFirst`, `ForgottenWasClosed`, `LastTextIsCurrent`, `VersionsConsecutive`, `ClosedStaysClosed` |
| `clangd_faults` | 2 sessions, every fault, fair | `Answered` |
| `clangd_didclose` | 3 sessions | finding: `DeletedIsClosed` is violated |
| `http_server` | 3 clients, every kind of request, fair | `StopsAfterShutdown`, `LifecycleHolds` (refinement), `ExitsUnlessStuck` |
| `handlers` | 2 clients with 8 and 15 requests, 4 option files, 31 messages of clangd | `SuggestsWhatClangdSent`, `ClientReadsSame`, `AsksAboutCursor`, `SentIsReadBack`, `ThrowsForCause`, `PumpEndsForCause`, `UsesCurrentOptions` |
| `identifier_completer` | 2 filetypes, 2 paths, 3 texts, 1 request, 3 events | `ResultsExact`, `PromiseHolds` (refinement) |
| `matching` | queries up to 3, candidates up to 4 characters | `NoneIsNone`, `Leftmost`, `SmallestSum`, `PrefixIsPrefix`, `SmartMatching`, `WordBoundaryMatches` |
| `ranking` | 4 queries, lists of up to 3 of 20 identifiers | `OrderIsStrictWeak`, `AnswerDetermined` |
| `request_columns` | lines up to 5 characters, every cursor | `QueryIsIdentifier`, `BytesAgree`, `LearnsWhatWasTyped`, `CursorBetween` |
| `graphemes` | words up to 3 over all properties, up to 6 over five | `BreaksFollowRules` |

The type invariants are not properties of the runs; they are theorems (below).

Bounds. `LspSend`: three writers are needed for a write that is overtaken by one write and
queued behind another; frames of two cells are the smallest that can be
transferred in part, and four cells (`MaxCells`) let three sends overlap with a partial
transfer. The bound only stops new sends. `ClangdCompleter`: a session serves one
request, so n sessions are n requests in any overlap. The workloads of `clangd_sync`
(module `MCClangdCompleter`) open two files, edit, and drop files so that two sessions
close the same or neighbouring files; four sessions and two files
allow open, edit, close and open again. `MaxMessages = 14` is never
reached by these requests: no session sends more than four messages. `HttpServer`:
each client connects once; three clients cover a shutdown that meets a
connection in the backlog, one accepted, one in a handler. `IdentifierCompleter`: three events
(`MaxEvents`) let two files learn a shared name and one be replaced, before or after the
request is suspended; the texts repeat names, hold one over the limit of 80 bytes and one too short
to be offered; one query is cut inside a character. `Matching` and `Ranking`: the alphabets hold a letter in both cases with and without
mark, another letter and the underscore; four characters let a query of two or three have
several matches in which a greedy choice could be wrong. `Ranking`'s identifiers are in
the styles the criteria tell apart (camel case, underscores, prefixes), and three of them is
what transitivity is about. `RequestColumns`: five characters allow two identifiers with a
gap, digits inside or in front, and a cursor anywhere. `LspReader`: every kind of
line stands before, behind and between messages, the three kinds of ends (no JSON, a length that is
too short or bad) behind one; the reader keeps nothing from one message to the next but the
buffer, so three messages are enough. `Handlers`: two clients let options change while a
completion waits; cursors are on the line and past its end, a query is cut inside a character for a filetype the database
knows and for one it does not; each kind of member (mandatory, optional, nullable, of a variant, of an enum) is once
right, once missing, once of another type, and the theorems cover every other value. `Graphemes`: six code points allow two
runs of flags or joiners in one word; the theorems cover the rest. Symmetry is used for
invariants only, over sessions or clients that are interchangeable.

`CHECK_DEADLOCK FALSE` stands wherever all requests may have been served (or the
process may have ended, or a loop has returned, or clangd has written all it
has), after which nothing happens any more.

Fairness. Everything the `io_context` has ready runs (its queue is FIFO), so the
handlers are weakly fair, the end of a write that fails (`WriteFails`) among them. The language server, while it lives, reads its stdin
and answers. Nothing forces a client to connect, to send, or clangd to exit, so the
liveness properties except those cases, as narrowly as the code allows: `ExitsUnlessStuck` excepts a process that clangd or a
suspended session keeps (`Stuck`); `Answered` excepts only a session suspended in `get_response` when the pump has
ended, because nobody is left to resume it. A session suspended in a write, or in `get_response` while the pump lives, is not
excepted.

### Findings

* `DeletedIsClosed`: the close loop of `sync_files` sends the bare file name where
  `didOpen` sends `file://...`, so for clangd the file is never closed.

The modelling met more places where the code differs from its comments, from the protocol or
from what a reader would expect. No run is spent on them; the properties except them, or
are stated as the code has it:

* the message pump keeps `io_context::run` from returning, so a server that has started clangd
  does not exit after a shutdown (`Stuck` in `ExitsUnlessStuck`);
* `acceptor.cancel()` has no effect on an accept that has completed but whose handler has
  not run: that shutdown is answered, and the server goes on;
* the handler of "unexpected" exceptions assigns a JSON object to the string body of the
  response, which throws again; the process aborts;
* more ways for the process to end: an iterator of `sync_files` that another session
  invalidated; a notification to a dead clangd (EPIPE); an error response
  without `data`, which the conversion to `ResponseError` in `get_response` requires; a column past the end of the line
  (`substr` at `request_wrap.cpp:104`); a query that begins inside a character (`IdentifierDatabase.cpp:126`);
* a request to a dead clangd ends nothing: its session waits for ever, and its connection with it;
* when the sends of two sessions overlap, both may close the same file, or one may change a file that the other has just closed:
  clangd gets a second `didClose`, or a `didChange` of a file that is not open (`ClosedStaysClosed` is stated without overlaps);
* a message behind headers without a usable length is skipped up to the next line feed; when
  none follows it, the header of the next message goes with it and that message is lost
  (`StreamOK` leaves such noise out, except at the end of a stream);
* the comment of the variant's conversion says "only one will succeed" of its alternatives
  (`json_serialisation.hpp`): several may, and the last wins; none may, and the default stays;
* so one completion item that cannot be read empties the whole answer: `commitCharacters`, an array in
  LSP, is declared a string; and a `documentation` that is an object is read as empty, because
  `MarkupKind` has no names and a number is expected, and hides the `detail`;
* a diagnostic whose code is a string, which LSP allows, ends the pump;
* `menu_text` is set for each candidate and never serialised;
* an event without `event_name` throws because of a log line; a missing
  `min_num_of_chars_for_completion` is inserted as null and counts as 0; a missing
  `min_num_identifier_candidate_chars` is looked up in a constant object, an assertion;
* `start_column` (`request_wrap.cpp:73-84`) counts the bytes of a prefix that includes the
  identifier's first character. When that has several bytes, `query_bytes` begin at its last one, although
  `identifier_completer.cpp:70` calls them "utf-8, as required by this lib"; `Word( query )` throws at them
  (`BytesAgree` is for one-byte first characters);
* the scan for "the longest identifier" stops at a digit, because the text from a digit on is no
  identifier: after `a1` the query is empty (`QueryIsIdentifier` asks for the longest identifier when it has no digit);
* `ClearForFileAndAddIdentifiersToDatabase` "clears all identifiers stored for the file"
  (`IdentifierCompleter.h:51`), but an entry under another filetype stays;
* the comment in `Result::operator<` speaks of a *result* with all its word boundary
  characters matched; the code asks for a *query* with all its characters matched.

## 4. Proofs

| Theorem | Module | For every value of the constants |
|---|---|---|
| `SendTypeCorrect` | `LspSendProofs` | `SendSpec => []SendTypeOK` |
| `Drains` | `LspSendProofs` | `SendSpec => []DrainedWhenIdle` |
| `ExclusiveIsExact` | `LspSendProofs` | `SendSpec => []ExclusiveExact` |
| `NothingIsLost` | `LspSendProofs` | `SendSpec => []NothingLost` |
| `TypeCorrect` | `LspReaderProofs` | `Spec => []ReaderTypeOK` |
| `TextsAreFramed` | `LspReaderProofs` | `Spec => []Framed` |
| `EndsOnlyForCause` | `LspReaderProofs` | `Spec => []EndsForCause` |
| `ImplementsStream` | `LspReaderProofs` | `Spec => Stream!StreamSpec` |
| `TypeCorrect` | `ClangdProofs` | `Spec => []TypeOK` |
| `RequestsMatchWaiters` | `ClangdProofs` | `Spec => []PendingAwaited` |
| `HandshakeComesFirst` | `ClangdProofs` | `Spec => []HandshakeFirst` |
| `VersionsAreConsecutive` | `ClangdProofs` | `Spec => []VersionsConsecutive` |
| `ClosedFilesStayClosed` | `ClangdProofs` | `Spec => []ClosedStaysClosed` |
| `TextsAreCurrent` | `ClangdProofs` | `Spec => []LastTextIsCurrent` |
| `ForgottenFilesAreClosed` | `ClangdProofs` | `Spec => []ForgottenWasClosed` |
| `TypeCorrect` | `HttpServerProofs` | `Spec => []TypeOK` |
| `StopsOnlyAfterShutdown` | `HttpServerProofs` | `Spec => []StopsAfterShutdown` |
| `ImplementsLifecycle` | `HttpServerProofs` | `Spec => Lifecycle!LifecycleSpec` |
| `ResultsAreExact` | `IdentifierCompleterProofs` | `Spec => []ResultsExact` |
| `ImplementsPromise` | `IdentifierCompleterProofs` | `Spec => PromiseHolds` (refinement of `IdentifierSets`) |
| `TypeCorrect`, `NothingIsMissed`, `FindsLeftmost`, `PrefixIsExact` | `CandidateProofs` | `Spec => []TypeOK`, `[]NoneIsNone`, `[]Leftmost`, `[]PrefixIsPrefix` |
| `SumIsSmallest`, `MatchesSmartly`, `CountsWordBoundaryMatches` | `CandidateProofs` | `Spec => []SmallestSum`, `[]SmartMatching`, `[]WordBoundaryMatches` |
| `RanksWhatLoopFinds` | `CandidateProofs` | `Spec => []LoopAgrees`: the functions of `Ranking` are what `Matching`'s loop computes |
| `ResultsStrictlyOrdered` | `CandidateProofs` | `RankingSpec => []OrderIsStrictWeak` |
| `AnswerIsSorted` | `CandidateProofs` | `RankingSpec => []SortedButForTies` |
| `OneAnswerOnly` | `CandidateProofs` | `RankingSpec => []AnswerDetermined`, if swapping the case keeps characters apart |
| `QueryIsFound`, `BytesAndCodePointsAgree` | `TextProofs` | `Spec => []QueryIsIdentifier`, `[]BytesAgree` |
| `LearnsTheQuery`, `CursorIsBetween` | `TextProofs` | `Spec => []LearnsWhatWasTyped`, `[]CursorBetween` |
| `TypeCorrect`, `FollowsRules` | `TextProofs` | `BreakSpec => []TypeOK`, `[]BreaksFollowRules` |
| `SuggestsClangdsItems` | `HandlersProofs` | `Spec => []SuggestsWhatClangdSent` |
| `ClientsReadSame` | `HandlersProofs` | `Spec => []ClientReadsSame` |
| `ClangdIsAskedAboutCursor` | `HandlersProofs` | `Spec => []AsksAboutCursor` |
| `MessagesAreReadBack` | `HandlersProofs` | `Spec => []SentIsReadBack` |
| `ExceptionsHaveCause`, `PumpHasCause` | `HandlersProofs` | `Spec => []ThrowsForCause`, `[]PumpEndsForCause` |
| `OptionsAreCurrent` | `HandlersProofs` | `Spec => UsesCurrentOptions` |

Assumptions: only those of the modules (frame lengths are positive naturals, the bound is
a natural, streams are what clangd owes the reader, request kinds are known ones, `Nobody` is no session, the
files of a request have contents, words are sequences of characters, the empty name
is no name, `NoAnswer` is no answer, every character has a place in the order, the identifiers that
match a request are a sequence of texts, an identifier starts no later than the cursor). One theorem has a
hypothesis of its own, `OneAnswerOnly`: no two characters look the same once their case is swapped.
That holds of ASCII, and of the characters of the run, but not of all of `UnicodeTable.inc`: `i` and the
dotless `ı` both become `I`, `s` and `ſ` both become `S`, and 25 more sets of code points coincide like that. Candidates that differ only in
these tie if their other features agree, and their order in the response is then
the sort's; `AnswerIsSorted` says without the hypothesis that no other candidates tie. The sets of writers, sessions, clients, names, files, contents, characters, requests and messages are
arbitrary, infinite ones included, and words have any length. Nothing else is assumed of the requests, options and
messages of `Handlers`: they are any values, and columns may lie past the end of the line.

*The buffer drains.* `DrainedWhenIdle` says nothing while a send is outstanding. The
invariant that carries it (`IDrain`) is that some outstanding operation reaches the end of
the buffer: when the buffer is not empty, there is one with `n >= appended - consumed`.
The newest send was given the whole buffer, and when an older one consumes, the
remainder of the buffer only shrinks, while the newest one's `n` does not; so the last one to
complete consumes all that is left, and `AfterConsume` clamps the rest.

*Exactness.* While sends do not overlap, at most one operation is outstanding; the
strengthened invariant says that its next position is the one after the last on the wire, and
that what it was given ends at `appended`.

*Nothing is lost.* For every position appended, it is on the wire or in the remaining range
of an outstanding, not stale operation. A transfer moves positions from the second to the
first; a completing operation has nothing left; a send takes over the window from
`consumed + 1`, and only positions already on the wire are ever outside it.

*The reader's place.* Between two handlers the reader stands at a place of the stream that
depends only on `consumed`, not on how the pipe cut the bytes: at the start of one of the
lines of the frame after those delivered, with a length exactly if the line with the length has been
passed (`AtLine`), or at the start of that frame's text with the text's length (`AtText`), or,
behind the last frame, at a line that does not matter. The first line feed in the buffer is the first
line feed of the stream behind that place, which is why reading ahead does no harm. The
ends of the frames grow with their numbers, so the complete messages are `1..n` and those
yielded a prefix of them: each step is then one of `LspStream`, or leaves its variables.

*What clangd reads.* A send takes the whole buffer, so it puts the positions
`consumed + 1..appended` on the wire, in order: older messages may come again, but the newest
is the last of them. `ClangdInv` therefore says of every opened file (`Current`) that its last text in
`stream`, the sequence of messages appended, has the recorded version and hash, and that after
some reading of it on `wire` no other text of the file is read. A message about something else
keeps this: the repeated block either begins behind that text, or contains it and only messages about
other things follow. For the versions, a file that is not opened is
`Openable`: every `didOpen` of it is followed by a `didClose`. The delicate step is the erase
behind the write of `didClose`: the iterator's file is openable unless another session has
erased that element meanwhile, and then the iterator dangles and ycmd is aborted. Between the change of the map and the failure of a send, a dead
clangd is told less than the map says; so the invariant about files is
stated while ycmd is up and clangd is not dead. Without overlaps the
session that waits for its `didClose` was the last to send, so nothing about the file
follows it; and every `didClose` in `stream` is followed by a `didOpen`, or belongs to a file that is no longer in the map or is
about to leave it. Only a file in the map is changed or closed, so a closed one is not (`ClosedStaysClosed`). The handshake rests on `Readiness`: the response to `initialize` is only
looked at when its write has completed, so `consumed >= 1` by then and no later send repeats position 1.

*The refinement of the server.* `Handover`, an invariant internal to `HttpServerProofs`, is the inductive part: a connection is `taken` exactly when its
socket is the one `listen` is about to see, so `active` grows by one connection only and only
while the phase is `serving`. Each disjunct of `Next` is then a step of `LifecycleNext` or
leaves `phase` and `active` unchanged.

*The results are exact.* While a query runs, what it has seen, what is left of the current
vector and the paths not yet visited together are the texts of the filetype's files; the
results are the wanted ones among the seen, without repetition, because a text is taken
only when it was not seen. When nothing is left, that is the property. Events cannot
disturb it: none is handled during a query. For the refinement, `AnswersOK` adds that a
request is answered at most once and not before it was made; the steps of a query are
stutters, and its last step answers with what `IdentifierSets` suggests at that moment.

*The match is the leftmost one.* Every match of the whole query stays ahead of the loop
(`StaysAhead`): it uses later or equal places for the characters matched so far, and its
next place is not passed yet. A miss keeps this because the place passed does not match; a
hit, because the next place is the first possible one. When the candidate is exhausted, a
match would have a place beyond its end, so there is none; too long a query is excluded by
the pigeonhole principle, and the byte filter because characters that match have
equal bases. `InStep` carries the prefix flag: the two counters differ as soon as one
character was missed.

*Features of a match.* Recursive functions (the sum of indexes, the places of a match, the rows of the
dynamic program, the bytes before a code point) are reasoned about by one pattern: the least element of
a set of numbers gives induction over a bound (`LeastNumber`, `Induction`), induction gives a function that satisfies
the recursion (`RecursionExists`), so the function `CHOOSE` picks satisfies it as
well. From there: the leftmost match is below every other match place by place, so its sum is the smallest;
an entry of the table is the length of the longest common subsequence of two prefixes (`TableIsRight`:
a common subsequence shortens by one pair when the last characters are equal and otherwise leaves one of
them unused), and it does not matter which of the words is the longer one. `FeaturesAreRight` ties the
loop's variables to these functions, which is why what `Ranking` computes is what `Matching` finds (`RanksWhatLoopFinds`).

*The order.* `operator<` mixes criteria that look at one operand with those that look at both. It is
nevertheless lexicographic: `Rank` is a sequence of nine numbers (first character, whether all of
the query matched word boundaries, then, only for those, the number of word boundary
characters; prefix, matched word boundaries, word boundary characters, sum, length, lower case), and a
result is less exactly if its rank comes first, or the ranks are equal and its text does (`LessIsLexicographic`).
This needs that no more word boundary characters match than the query has, which the dynamic program gives. Asymmetry,
transitivity and the transitivity of ties follow from those of `LexLess`.

*Columns.* Bytes before a code point grow strictly with it, so `column_codepoint` is the code point at the
cursor (`ColumnIsCodepoint`) and where a match ends in bytes says where it ends in code points. `LoopInv` says
that what lies between the loop's position and the cursor is an identifier, which is what makes the position
one to return when the next character ends it. A match of the regex begins at the first letter of its word, and
two matches do not overlap (`NoneBeginsInside`, `MatchesApart`); the other two properties are about these.

*The flags of the break loop.* `within_emoji_modifier` and `is_regional_indicator_nb_odd`
are related to the text passed: the first holds, behind a joiner or an extending
character, exactly if a pictograph and only extending characters precede; the second is
the parity of the run of regional indicators the loop stands in.

*What is in the messages.* Each struct has a lemma that says when its `get` throws and what it yields, in
terms of the members of the JSON value alone (`PositionRead`, `RangeRead`, `EditRead`, ... up to
`ItemRead`, `ResponseRead`, `RequestRead`), and one that reads back what its `json` writes
(`CandidateReadBack`, `OpenReadBack`, ...). The first kind turns the properties, which speak of JSON only
(`RequestOK`, `ItemOK`, `ResponseOK`, `DiagnosticsOK`), into facts about the conversions; an item can be
read exactly if it is `ItemOK`, so the variant in `CompletionsResponse` yields the items of the
response, or its default, according to `ResultItems`. The inductive invariant `HInv` remembers what a later
step needs: a waiting session has a request that was read without an exception and sent what `Completion` says
about it (`WaitsOK`); the candidates of a reply are all those of the items of the response it was made from, or, if
that has none, identifiers (`ReplyOK`). Every handler changes the entry of one session, so the step is proved of a new entry
(`Makes`). A completion that waited is resumed with the options of that moment, not with those of the
time of its request, which is what `OptionsAreCurrent` needs; what the loop over the identifiers keeps is shown
by induction over its position (`LongEnoughGives`). `ThrowsForCause` lists what may be wrong with a request, its cursor included
(`PastLine`, `HasNoQuery`, a cut query of a filetype that is known), and the proof goes through every conversion and call of every handler that can
throw; that nothing but these causes exists in the code is as true as the handlers' definitions are complete.

The proof changed the model in two ways. The conversions used to be recursive functions of a description of the type,
which the provers cannot reason about; they are operators now, one per type. And several
properties said less than they meant: a request is well-formed only if its optional members are right as well
(`RequestOK`), diagnostics can be unreadable for their severity, source or version (`DiagnosticsOK`), an item for
its sort text, its edits' ranges or its command (`ItemOK`); `filter_and_sort_candidates` throws without `sort_property`
if there is a candidate (`FilterOK`); `SentIsReadBack` covers each kind of message. The run has a case of the more likely ones.

Only model-checked: liveness (`EventuallyDrained`, `EventuallyYielded`, `Answered`,
`ExitsUnlessStuck`), as TLAPS does not reason about `ENABLED`. Every other property of the passing runs is a
theorem. `DeletedIsClosed`, the finding, is violated by the code and has none. The invariants of the proofs were
checked by TLC on the runs' instances before they were proved.

## 5. What is not modelled

Logging, HMAC (a stub), the options of `main` and its exit codes, the example client, the tag file
reader (the server never calls it) and the empty completers are not modelled: they keep no
state and decide nothing the properties are about. UTF-8 decoding and the canonical sorting of
code points are the next step of the plan; the table of code points is generated data. Parsing and printing
JSON text is the library's; the conversions between JSON values and types are modelled,
negative numbers and the widths of the integers in them are not. The repositories' growth and the
hashing of `opened_files` are abstracted. That clangd itself crashes or
misbehaves is modelled only as far as ycmd notices it. HTTP parsing, the
kernel's sockets, the regex engine and asio are external: modelled from how `src/` uses them.

## 6. Plan

1. (done) `LspSend`, `ClangdCompleter`, `HttpServer` with `ServerLifecycle`,
   `IdentifierCompleter` with `IdentifierSets`, `Candidates`, `Matching`, `Ranking`,
   `RequestColumns`, `Graphemes`; their theorems.
2. (done) `LspReader` with `LspStream`, its theorems; `Json`, `LspTypes`, `ApiTypes`, `Handlers`.
3. (done) `ClangdProofs`.
4. (done) `PromiseHolds`; `CandidateProofs` with the order of the results; `TextProofs`.
5. (done) Conversions without recursion, `HandlersProofs`.
6. UTF-8 decoding and canonical sorting of code points (`CodePoint.cpp`).
