# A verification of dser

dser is a small C++ library for writing servers: socket objects, an HTTP
message parser and writer, a router, an HTTP server, a websocket reader, two
JSON parsers, and wrappers of pipes, directories, files and libpq; `main.cpp`
and `examples.h` hold example programs, one of which `main()` runs. This directory
holds TLA+ modules of its core, TLC configurations that check them on small instances,
and TLAPS proofs of what matters most.

Everything in the repository runs on one thread. What makes it hard is not
locks: it is descriptors and addresses that are handed out again, clients that
leave or stay silent at the worst moment, streams that are cut anywhere,
callbacks that nest, and objects that live longer than one call.

## Inventory

| component | state | operations | what must be right |
|---|---|---|---|
| socket objects (`socket.*`, `inet_socket.*`) | `_fd`, `_timeout`, `_family`, `_allow_change_family`; the process's descriptor table | construct, move, assign, swap, open, set_fd, accept, set_timeout, set_family, bind, connect, new_client | each descriptor has exactly one owner, none is lost; the timeout an object believes in is in force |
| HTTP server (`server.*`, `http_connection.*`) | the listener, one connection at a time, the accept queue | serve, read_http | one client at a time, in order, each let go of; only the right client is read; retries do not exhaust the process |
| hosting program (`main.cpp` 129-209) | listener, stream, router, request | accept, read, parse, dispatch, write twice | the same, and it lives; responses go to the right client, and whole |
| HTTP messages (`http_parser.*`, `http.*`, `utils.cpp`) | method, url, protocol, headers, body | parse, set_header, stringify | a cut message is not misread; what is written parses back |
| router (`router.*`, `path.*`) | a tree of items | get/put/post, route with a callback, match | routers are deleted once; which item takes a request |
| websocket (`websocket.*`, `algorithms.*`) | the frame and the message of the last read | read | messages are what was sent; read returns |
| handshake program (`main.cpp` 57-127) | the request, the websocket it becomes | handle_connection, create_websocket_handshake_response | the answer is made from the client's key; the websocket starts at a frame; it ends |
| client programs (`examples.h`, `main.cpp` 349-445) | one socket, a buffer, the message so far | pdf_request, google_request, github_test, yew_test_test | the reply is kept whole; they end and close what they opened |
| JSON, first version (`json_parser.*`) | a lexer context that survives a parse | parse, parse_token | brackets match; nothing behind the text decides |
| JSON, second version (`json_parser2.*`) | text, position, token | parse, next_token | positions are right; nothing is read behind the end |
| pipes (`pipe.*`) | a `FILE*` | exec, exec_complete, close, read_to_string | what was opened is closed once |
| directories and files (`fs.*`, `file.*`) | a `DIR*`; a mapping | open, iterate, close | the same |
| postgres (`postgres*`) | a `PGconn*`, a `PGresult*` | connect, query, construct, move, assign | the same |
| resource programs (`main.cpp` 225-346, `fs.cpp`) | local objects of those classes | test_postgres, pipe_test, test_json_parser, ls, print_directory_recurse | on every way out each gives back what it has, and no more |
| crypto | none | sha1, base64_encode | a function, or a failure the caller notices |
| signals, debugging output, JSON values, helpers | none, or a print | | |

Interactions: `server::serve` owns a socket object and makes an
`http_connection` for every accepted descriptor; a connection is handed over as a bare
`int` through `set_fd`. `read_http` fills a fixed buffer with one `recv` and gives
the whole buffer to the parser. `hosting_test` does the same by hand, then gives the
request's url to a router whose handlers write to the client's descriptor.
`handle_connection` reads a request from the same stream it then hands to the
websocket. The kernel is shared by all: descriptors, their options, the accept queue.

The hard behaviours, each a row of "hazards" in `PROJECT.json`:

- ownership over long sequences of calls (moves, self-assignment, opening
  twice, descriptor 0, retries of `serve`, an exhausted table, copies the compiler makes);
- clients that never send, leave before they are accepted, or reset the connection
  between two writes; the receive timeout as the only remedy, and the
  arithmetic it goes through;
- one `recv` per message, a fixed buffer, NULs or old bytes behind the data;
- callbacks that throw, nest, and register in routers around their own;
- frames on a stream that ends, or begins, within them; state that outlives a call;
- programs that leave early, by a return, an exception, an assertion or a signal.

## Modules

| module | models | composes |
|---|---|---|
| `SocketHandles` | the socket objects and the descriptor table | |
| `Network` | external: accept queue, connections, clients | `SocketHandles` |
| `HttpServer` | `server::serve` and `http_connection` | `Network` |
| `SequentialService` | the abstract specification of a server | |
| `TextUtils`, `HttpParser` | `utils.cpp`, parser and writer, as operators | |
| `HttpMessages` | external: the messages peers write, and what their headers mean | `HttpParser` |
| `HttpTransfer` | a message arriving in a buffer | `HttpMessages` |
| `Router` | registration and dispatch | `TextUtils` |
| `HostingLoop` | `hosting_test` | `Network`, `HttpParser`, `Router`, `SequentialService` |
| `ClientPrograms` | the four client programs | `SocketHandles` |
| `WebSocketReader` | `websocket::read` | |
| `Handshake` | `handle_connection` | `WebSocketReader`, `HttpMessages` |
| `JsonParser` | `json_parser`, the first version | |
| `JsonParser2` | `v2::json_parser` | |
| `Resources` | `pipe`, `fs::directory`, `fs::file`, `app`, `cmd_result` | |
| `ResourcePrograms` | the programs that use them, and anybody else | `Resources` |
| `JsonParsers` | both parsers side by side | `JsonParser`, `JsonParser2` |
| `MC...` | values for TLC | |
| `NetworkProofs`, `HttpServerProofs`, `HostingLoopProofs`, `RouterProofs`, `ResourceProgramsProofs`, `ClientProgramsProofs`, `JsonParsersProofs`, `HandshakeProofs` | theorems | the module they are named for; `HandshakeProofs` also proves those about `HttpTransfer`; `NetworkProofs` and `ResourceProgramsProofs` also prove those about the socket objects and the resource classes |

Definitions introduced by a comment "the variant that ..." are what the code might
have been by a plausible mistake. No specification uses them: they show that each
property can tell the code from such a mistake.

### SocketHandles

One action per member function; a constructor, a destructor or an assignment is one
step because nothing runs in between. `Sock` is a set of places where an object may be constructed;
`fd`, `timeout`, `family`, `allow` are the fields; `open`, `kfam`,
`ktmo` are the kernel's. `pending` are descriptors that `accept` returned and a local
`int` holds. Two rules of the kernel matter: a new descriptor is the
lowest free one, so numbers are reused at once, and a connection inherits the
options of its listener. `FirstFd` is 3, or 0 for a process started with its
standard streams closed: descriptor 0 is then a socket, and the code is not of one mind on whether
0 is valid (`terminate` closes it, `hosting_test` refuses it).

Timeouts are given in milliseconds and handed to the kernel in microseconds by
`1000 * t` in an int (`socket.cpp:173`), which wraps around: `Usecs`. A negative one is
refused by `setsockopt`, after `_timeout` was assigned. `OnlyTheseMisinform` says which
calls make an object believe in a timeout its descriptor does not have: `set_fd`, which takes over a
connection with the timeout of its listener; `open` after `set_timeout`; a timeout that
fits no int. Moves and swaps do not. No code decides anything by `_timeout`.

`send`, `recv` and `health_check` change no object and are left out.
(`inet_socket::recv` passes `MSG_ERRQUEUE` and so never returns ordinary data; nobody calls it.)
`inet_socket.h:16` calls AF_INET6 a default "to IPv4"; the model takes the code.

### Network, HttpServer, SequentialService

`Network` is what the servers see of the kernel and the clients: a client connects if
there is a listener with room in its queue, sends, closes or resets, in any order with
everything else, also while it is queued; it may do none of these for ever. A
blocking `recv` can return when there is data, an end, a reset, or a timeout in force.

`HttpServer` has the program counter `pc`, the call the thread is about to make. Each call
may fail as its manual page says. `accept` fails with a full table, and also
after it has taken the client from the queue, because `conn_len` is not initialized
(`inet_socket.cpp:223`): the kernel then drops the connection. After either failure the loop goes
on with descriptor -1. With a full table this is a busy loop; `Exhausted` names the
case in which it is for ever.
The words of `report` are those of `read_http`: "Read timeout" is said of a client that closed its end, for which
`recv` returns 0, while a timeout that expires is a failure to read. One value or the other, the parser gets
an empty buffer.

`accept` hands the kernel an address of 16 bytes with a length that is not initialized (`inet_socket.cpp:223-225`). Besides success
and the error there is a third outcome when the listener is of AF_INET6: the 28 bytes of its client's address are written over the stack,
and the process ends (`AcceptOverruns`). What else a process with a spoilt stack might do is not modelled.

`SequentialService` says the same with nothing said of sockets: clients queue, are taken in order and
one at a time, are let go of. `FragileSpec` may die of a client it is about to take, and of nothing else, so never of one it
serves; `MortalSpec` may die at any time; either takes everybody with it. `FragileSteps` and `MortalSteps` are
their safety parts. `able` is decided when the service is started: a server that began to listen with its
last descriptor can take nobody.

### HttpParser, HttpMessages, HttpTransfer

A text is a sequence of tokens: CR, LF, space, colon and NUL, and words without
them. The operators follow the source function by function, with its early returns.
`HttpMessages` is the other side: `MessageText` is a message as a peer writes it, `Meaning` the headers it
means by its list of headers, of which a later one replaces an earlier one of the same name.
`HttpTransfer` sends one message, cut at every token, into a buffer of every capacity given, and looks
at what the parser makes of the whole buffer, NULs included, as `read_http` does.

The properties hold with restrictions that say what the parser cannot do. They are about messages with a
header: without one, a body between empty lines is read as headers. Bodies have
no empty line in or at the end of them: the parser knows no Content-Length and cuts there. A
message must leave room for one NUL: a request without a body that fills the buffer exactly loses its headers,
because nothing stands behind the last empty line. And responses have a status of at most one word: the parser splits the first line at its
spaces and wants three pieces (`http_parser.cpp:73-75`), `stringify` writes any status, and the program's own "Switching Protocols"
(`main.cpp:62`) is rejected as malformed. The run has that one, too, with `sound` false: `AllOrNothing` holds of it, `CompleteIsUnderstood` leaves it out.

### Router

`building` is the stack of `route()` calls whose callback has not returned; a callback can
call any router around it, and may throw past any number of calls. Matching is
`url_matches_pattern` over path segments. Its test for a short url is off by one
(`router.cpp:17`) and reads a segment behind the last: the outcome is then
undefined, and `Match` returns the set of what may happen, a crash included.

### HostingLoop

`hosting_test` with its assertions. A failed `assert_perr` aborts; a write to a
connection that was reset kills the program with SIGPIPE. The router is the module
`Router` with the program's two items; "/" is registered first and
matches every url. The request is parsed from a `std::string` whose capacity was reserved and whose size is still 0 (`main.cpp:193-201`). The handler
of "/" writes twice, and both times the string it built first: "End" is set as the body between the two and never written (`main.cpp:161-162`).
`NobodyIsCutOff` counts writes.

### ClientPrograms

`pdf_request` and `google_request` differ in what they ask for and are one program; `github_test`
listens on a socket that is connected, which fails, so the code behind it is never reached.
The server sends any part of a reply in pieces of any size, and may end or be silent at any point. A byte is a number, and 0
is the NUL that ends a C string: `buf` is cleared once and read as a string, so behind a short
piece it holds what a longer one left. The message then repeats old bytes
(`examples.h:80`), and so does the count of bytes the program prints; what
`NothingIsMissed` can promise is that nothing of a reply without NULs is missing or out of order.

`open()` and the reading of the request file are arguments of `assert`. `asserts` says how the program was built: with NDEBUG
neither is evaluated, there is no socket, and `set_timeout`'s `assert_perr`, which is a function, aborts. So the
two requests work in a debug build only.

### WebSocketReader, Handshake

Bytes are sets of symbols and exclusive or is symmetric difference, so a
byte is right only if it was unmasked with the right byte of the right mask. `recv` with MSG_WAITALL
returns less than asked only at the end of the stream, which may come at any
byte, by a close or a reset. Bytes nobody wrote are `Junk`; what the
reader takes for a header when it reads other bytes is any header. Frames are masked or
not. The mask an unmasked frame is given is what lies in the buffer
(`websocket.cpp:82`): its payload is spoilt, and the properties say that no other
frame is. Of the 8 bytes of a long length 4 are asked for (`websocket.cpp:60`), and the reader loses its place; that
it still returns is what is checked of such a stream. A frame whose payload is cut is reported as read; what did arrive is right.
Lengths are scaled down. Receive timeouts are not modelled: no program sets one on a
websocket. Opcodes and reserved bits are ignored by the reader.

`Handshake` puts `handle_connection` in front of it. One `recv` takes a part of the request, or all of it and frames behind it: `lead`
counts the bytes of the request left for the websocket, or, when negative, the bytes of frames that are
missing from the stream. The request is any first line and any headers that have a key. The buffer, `room`, has 1024 bytes and NULs only where nothing was received (`main.cpp:80`), so `Held` is what fits of the
request and `Text` has a NUL behind it unless it fills the buffer. `KeyIsWhole`: what is answered is the whole key or none, whatever the cut, and it is the
key exactly when all of the request was taken and the buffer is longer. A request of exactly its size is taken whole, nothing of it is left for the
websocket, and still it is answered with an empty key: the parser, with no NUL behind the last empty line, loses the headers. `sha1` and `base64_encode` are
functions without collisions that may fail; their failure is an empty accept value, sent like any other.
The early returns leave the descriptor open; no program calls the function, so who owns it is not said.

### JsonParser

One action per kind of token, `Parse(t)` for the call. A text is a sequence of characters and
of words of letters; `head` is the place in it. The constructor sets the context up and nothing
does so again: after a parse that found the end of an object the next one returns after one
token, and an error, or open brackets, stay. `start`, the context a call began with, is there for the properties
only, which are stated for parses from a clean context (`PositionIsKept` for all).
Even so the parser promises less than its name: a curly bracket that closes the first object ends
the text whether or not square brackets are still open, and a text that simply
stops is read without an error, whatever is open. When nothing but blanks is left, or a string has no end, the next token is
predicted from the byte behind the text (`json_parser.cpp:53`). The model returns, for a NUL there, or
is `undefined`. A symbol that begins no token makes `parse` return 0, which is also the value of
ERR_UNHANDLED_TOKEN; but first it is printed with the precision `tk.end - tk.begin` (`json_parser.cpp:239`), where `tk.end` is still the end
of the token before. Right behind that token this is 0 and nothing is printed. Behind a blank or a string it is negative,
and for the first token of a text it has no meaning, as `tk.end` is null: `printf` then reads up to a NUL, which need not be
in the text, as in `{ x }` (`ReadOther`, `Apart`). `ReadsBehindBeforeTheEnd` says what protection there is: a text is read behind, in one way or the other,
only before the end of its first object, because it has none or because of such a symbol in front of it; so what
stands behind a complete object is never looked at. `column` does not count quotes, and new lines within a string are no lines:
`PositionIsKept` says what it does count.

### JsonParser2

The second parser reads brackets and commas; at any other token it gives up, and
`parse` returns 0 all the same. The byte behind the text, `after`, is chosen with the text,
because the code reads it: `skip_ws` moves the pointer before it looks, and when all tokens have been read the end is predicted as
an invalid token whose first character is `*_end`. Unless a blank or a bracket
stands there the pointer passes `_end`, and `increment_pointer`, which says that it returns false at the end, never does so
again. A text that is all brackets, as a mapped file with zeros behind it, is therefore never parsed to its end (`ReturnsAtTheFirstUnknown`).
Also because `skip_ws` looks late, a new line that begins a run of blanks moves the column like a space and is not counted as a line, and one
behind the text may be counted. What a user of positions can rely on all the same is `PositionsGrow`: within a parse they are in the order of the tokens, no
line is made up between two tokens of the text, and tokens with no new line between them are as many columns apart as they are
characters. It would hold as well if `skip_ws` counted every new line. The comment on `parse` has it initialize the context (`json_parser2.cpp:69`); it does not, so
positions go on from the text before, and the property compares tokens of one parse only.

### Resources, ResourcePrograms

The classes that hold one thing each, one action per member function; objects of all classes live side by side. Handles are
addresses and are handed out again, to any class, so that a second close can hit what is another object's by then. After an
undefined close (`broken`) nothing is claimed. The classes differ in all that matters: `pipe` does not
initialize its pointer, `directory` neither resets it nor has a destructor, `file` keeps
MAP_FAILED, `app` has a connection even when it could not connect, `cmd_result` overwrites in a move and cannot reset in
`free`. All but `cmd_result` are copied by the compiler, also where the code says move. The
two action properties say that these calls, and no others, lead to a second close or a loss.

`ResourcePrograms` has the programs that use them as sequences of these calls, with each failure they test
for and each they do not, and `Unwind`, which destroys the local objects in
their order; and `anybody`, who makes any calls. What they do of the above (`ProgramsKeepTheirOwn`): none
closes what it does not have; `test_postgres` loses the `FILE` of the command that started the
server and one result, `ls` its directory; the two descriptors of `::pipe` in `pipe_test` stay open, too, but are held by no
object. `print_directory_recurse` loses one `DIR` with each directory it leaves. `test_postgres`
leaves the database server running when it cannot connect, and may throw at its end because `error()`
of a command that succeeded was never initialized. `postgres.cpp:14` promises a null
pointer for a failed connection; `PQconnectdb` returns an object all the same, which is why the
program asks for its status.

## Runs

| run | shows | bounds |
|---|---|---|
| `sockets` | every order of calls on objects: two owners come from move construction only, a lost descriptor from `open` on an open object only, a timeout that is not in force from three calls only | 2 objects, descriptors 0 and 1; timeouts 0, 3, 13, 26 with 5 for the 1000 and 64 for 2^31, so that one is negative and one wraps around to a small one |
| `sockets_switch` | **violated**: a family switch does not reach the open descriptor | 2 objects |
| `server` | nobody else's descriptor is closed; at most one lost per retry; the right client is read; the abstract service that may die taking a client is implemented; clients are let go of | 2 clients, queue of 2, 3 calls of `serve`, 3 descriptors: retries can use up the table |
| `hosting` | descriptors, the right client, the response written twice, the mortal service | 2 clients, 2 descriptors |
| `hosting_read` | **violated**: a silent client aborts the program | same |
| `hosting_parse` | **violated**: what was read is not what is parsed | same |
| `transfer` | cut messages; `stringify` parses back if the status is one word | 6 first lines, 3 statuses of responses, up to 2 of 6 headers, 4 bodies, 3 capacities, every cut |
| `router` | trees, exceptions, shadowing, the meaning of a pattern | 3 routers of 2 items, 3 patterns, 5 urls |
| `handshake` | the key; what messages hold; that nobody waits for ever | a request cut at 2 places by TCP; buffers that end within the key, with the request, with the header of a frame behind it, and behind all; up to 2 frames, payloads up to 5 bytes (longer than the mask), masked and not; 2 reads; every cut of the frames |
| `json` | which bracket ends the text, which is blamed, the positions, where each parser stops | first version: every text of up to 4 symbols out of 7, longer ones with the other symbols; second: up to 5 out of 5, longer ones, 4 bytes behind them; then a second text for the same parser |
| `clients` | the reply, the end of the program, what it leaves open | replies longer than the buffer of 2 bytes; 3 iterations for 1000; both builds |
| `resources` | which calls lead to a second close, which lose something, what the programs do of it | anybody: 3 objects and 3 handles; the programs: 4 objects, 5 handles, directories nested 2 deep |

Two objects are enough for two owners of one descriptor, and two descriptors for one that is
reused while another is open. Two clients are enough for one being served while another queues, and for
one that comes again. Two descriptors beside the listener's
are not needed since one client is served at a time. Three handles let a handle be given back, handed out again
to somebody else, and closed by its first owner while a third is open. `print_directory_recurse`
stops at depth 3; 2 has a directory within a directory that is listed as well as one that is not. Counters bounded by a constant are `attempts`
(`MaxAttempts`), `reads` (`MaxReads`), `parses` (the length of `Texts`), `iterations`, routers and items. `IntLimit`
in the runs other than `sockets` is 2^29, since TLC's own numbers are ints; the timeouts there are far below it.

`transfer`, `router`, `handshake`, `json` and `resources` run with CHECK_DEADLOCK FALSE: a message ends,
the bounds on routers are reached, a stream is over and no read is asked for, no text is left to parse, a
program has ended or what it did is undefined. The servers and clients have an explicit step for
the end of the program (`Over`) and are checked for deadlock.

The three violations are recorded as findings. The same cause as `hosting_read` aborts the program
when nobody connects for 30 s (`main.cpp:188`): `accept` has the timeout, too.

### Fairness

The programs are single threads: `WF(Program)` says that a call that can return does, and that the thread
goes on after it. There is no fairness for clients or for the servers the client programs talk to: who is silent stays silent, and
`EveryClientLeaves...` and `EndsWithNothingOpen` hold because the receive timeout makes `recv` returnable. A handler's `sleep`
ends. For the websocket, weak fairness of its reads likewise; `EndIsNoticed` is stated
for streams that ended, as a peer that is silent for ever may block the reader for ever. In `HandshakeSpec` the weak fairness
of `handle_connection` is spelled out as `[]<>Waits \/ []<><<Handle>>_hvars`, `Waits` being when it has no step of its own: the
same formula as `WF_hvars(Handle)`, but TLC need not parse the request in every state to
find out whether there is a step.

## Proofs

For every value of the constants, from the assumptions named in the modules (that
numbers are natural numbers, that texts, lines, headers and bodies are sequences of tokens with line ends only where `HttpMessages` allows them, that 0 is among the timeouts, that the objects of a program are different):

- `TypeCorrect`: `HandlesSpec => []HandlesTypeOK`, one lemma per group of actions.
- `AliasesComeFromMoves`, `LeaksComeFromReopening`: two action properties of
  the run `sockets`. `Safe` (each descriptor has one owner and is open) and `Tight` (each open descriptor
  has an owner) are each preserved by every step except the one named; the step lemmas
  `StepSafe` and `StepTight` have one case per action. Type
  correctness is the strengthening they need: `fd` and `pending` hold descriptors or -1.
- `TimeoutsStayKnown`: the third, `OnlyTheseMisinform`. It needs `Safe`, or setting the timeout of one object would change another's.
- `DisciplineSuffices`: programs that do neither are always `SafeAndTight`. Its inductive
  invariant is `HandlesTypeOK /\ Safe /\ Tight`: closing keeps `Tight` only for an owner,
  which is `Safe`.
- `ServerIsSafe`: `HttpServer!Spec => []Safe`, for any clients, retries, table size. By
  reduction: each step of the server is a step of `SocketHandles` or leaves
  the sockets alone, and none move-constructs (`NextIsHarmless`), so `StepSafe` carries the invariant.
- `ServerTypes`, `ListenerIsKept`, `ClientIsTheRightOne`: `TypeOK`, and the invariants `ListenerKept` and
  `ReadsFromItsClient` of the run `server`. Their inductive invariant `ServerInv` adds to `TypeOK`
  and `Safe` that a queue exists only within the loop, where the listener's descriptor never changes
  (`ListenerInv`), and that only the descriptor accepted last has a client, from `accept` to the
  destructor, the object being empty when it is given one (`ConnInv`). Without the last part `set_fd` might
  close the connection it is given.
- `RetriesLoseLittle`: `LeaksBounded`. Its invariant counts not what is lost but `Opened`, what is lost or held by the
  listener: at most one per call of `serve`, since what `open` loses was counted when it was opened.
- `ServerIsAService`: `Spec => Service!FragileSteps`, the safety part of the refinement. The initial states are
  the service's, and each step is `Start`, `Arrive`, `Take`, `TurnAway`, `Finish`, `DieTaking` or none. Two facts carry it:
  within the loop nothing is lost and nothing lost is found (`LoopKeepsLost`), so that `able` never changes; and
  at most one descriptor has a client (`ConnInv`), which is what `Served` chooses.
- `HostingIsDisciplined`, `HostingIsSafeAndTight`: `hosting_test` implies `UsesSocketsWell`, so it is always
  `SafeAndTight`, for any clients, requests and number of descriptors. `open()`
  overwrites no descriptor because of where the program is when it calls it: the invariant adds which objects are empty
  at which call (`EmptyWhenFilled`).
- `RightClientIsAnswered`: `WritesToItsClient`. `StreamInv` says where the accepted
  descriptor is at which call, and that nobody else has a connection; it survives `set_fd` only because the stream is empty then.
- `HostingIsAService`: `Spec => Service!MortalSteps`; whatever ends the program is `Die`.
- `RootAnswersEverybody`, `ResponseIsWrittenTwice`: `OnlyRootAnswers` and `NobodyIsCutOff`. Whatever has arrived, the text that is parsed is empty
  (`NothingIsParsed`), an empty url is split into nothing, and the first of the two items takes it (`MatchIsRoot`). `AnswerInv` says what
  has been called and written at each place of the program; a client is let go of in no other way.
- `RoutersAreDeletedOnce`, `OnlyThrowsLoseRouters`: `DeletedOnce` and `OnlyThrowsLose` for any patterns, routers and items. `TreeInv` says what
  `DeletedOnce` does not: the routers in progress were made one after the other, each for one made before it,
  and no item routes to them yet; so the item that `route()` appends is the only one for its router.
- `PatternsMatchPrefixes`, `ShadowedHandlersAreNeverCalled`: `MatchIsPrefix` and `ShadowedIsNeverCalled`. The first follows from what the segments
  of a text are and how far the loop of `url_matches_pattern` gets (`SplitIs`, `MatchesPrefixes`). For the second
  `match` must be known to be a function at all: an item is succeeded by one of a higher number or routes to a router that was made later, so
  that `Rank` falls with each call and the recursion ends (`MatchIs`). Then, by induction on the rank: only the root calls the root's own
  handlers (`OtherRoutersNeverCall`), and it calls none whose item stands behind one that is a prefix of it (`GivenIsShadowed`).
  `GivenInv` says that an item's pattern is one of the caller's, and that a handler is named by the place of its item.
- `PiecesAreKept`: `NothingIsMissed`, for any reply without NULs, any buffer and any pieces. `ReaderInv` says how much of the reply is received and
  that the last byte of the buffer is a NUL, which `TextOfBuffer` needs: the C string in the buffer ends, and not within the piece.
- `ClientsLeaveNothingOpen`: the safety part of `EndsWithNothingOpen`. `OwnerInv` says at which call the socket object is alive.
- `ArrivedDataIsThere`, `MessagesAreWhole`, `ReadsTakeOneMessage`: `WhatArrivedIsThere`, `MessageIsSent` and `OneMessagePerRead`, for
  any streams of frames, any request and any cut. First lemmas about the stream, a flattening of its frames:
  where each frame starts and ends (`EndsAre`), what stands at each place of it (`CellsOfFrame`, `OnWireIs`), that the data between two places
  grows by a payload's bytes and by nothing else (`DataFull`, `DataBare`). Then `ReadInv`, the types and
  `KeepsPlace`: with i frames read and their data in the message, the reader is in front of a part of frame i + 1 that
  `pc` names, and has in its buffer, header and mask what the frame sent; or the stream has ended within a frame, all of it
  is read, and the message starts with its data. None of the three properties is inductive without it: whether the data is unmasked depends
  on which bytes were taken for the mask several steps before. That no message has ended since `read()` was
  called (`Quiet`) is the part for `OneMessagePerRead`. Each step has one lemma (`HeaderKeeps` to `AppendKeeps`), the cut-off
  stream has its own (`CutKeeps`); applying a mask byte twice gives the byte back (`XorTwice`).
- `MessagesAreSeenWhole`, `MessagesAreUnderstood`, `ViewsExtend`: `AllOrNothing`, `CompleteIsUnderstood` and `NothingIsRetracted`, for any
  first lines, lists of headers, bodies and sizes of the buffer. `TransferInv` says only that what is sent is a request or a response; the work is in what
  the parser makes of the first m tokens of it with NULs behind them (`MessageIsRead`). An empty line is found where one was written and has arrived,
  and nowhere else (`FirstGap`, `SecondGap`, `GapsHeld`), because no line is empty and none has CR or LF in it; a cut
  within the headers therefore leaves the parser with one piece, which it takes for no headers at all. Behind the headers' end the lines
  are split where they were joined (`BlockSplits`), each of them at its colon (`LineInTwo`), and read in order into
  `Meaning`. A response is a message too: what `stringify` writes is the
  block of its headers in some order, read back as the same function (`FullResponseIsMessage`); with a status of one word it is a sound one.
- `KeysAreWhole`: `KeyIsWhole`, for any request, any cuts of it, any size of the buffer and any frames behind it. What `recv` took is a part of a message
  without a body, and is read as above. `KeyInv` says that frames are delivered only behind a whole request, that nothing of
  it is left exactly when all of it was taken (`RequestIsTaken`), and that what is answered was accepted; none of the three is part of `KeyIsWhole`,
  which is about answers only. It needs the types of `ReadInv`.
- `FirstObjectEndsTheText`, `CompleteObjectsAreSafe`, `VerdictOnBrackets`: the three properties of what the first parser decides, for texts of any length. `ParserInv` has
  besides them `Progress`: the counters are what a count of the brackets outside strings in front of `head` gives, the first object
  has not ended there, and no bracket there closes more than is open. Each kind of token carries it on (`TurnKeeps`); a symbol at which it gives up stands in
  front of every bracket that could close the first object (`OtherIsLoose`).
- `PositionsAreKept`: `PositionIsKept`. `PlaceInv` says where line and column stand at `head`, in terms of the lines and the widths in front of it.
- `ReadsUpToTheFirstUnknown`, `TokensFollowEachOther`: the two properties of the second parser. `ReadInv` says that all in front of the pointer could be read;
  `PositionInv` adds that
  between two tokens the position is one column behind the token read last; from there `skip_ws` only moves on (`MovedIsBehind`), by lines that are there (`CountedAreThere`).
- `UnsoundnessComesFromForgetting`, `LossComesFromOverwriting`: the two action properties of the run `resources`, for any
  number of objects and handles, with one lemma for each class. The invariant is the type of the
  variables and that a place without an object holds no pointer, which a constructor that fails relies on.
- `ProgramsAreCalls`, `ProgramsAreTidy`: the steps of the programs are calls of the classes, so that both hold of them, and
  `ProgramsKeepTheirOwn` holds for any number of handles and any depth. The invariants are what a program that forgets
  has left to do before anything is closed (`Kept`: the pipes of `pipe_test` are the only objects
  that ever point to what is not theirs, and are opened before they are closed), and how much it can have lost at each of its calls (`Debt`).

Induction over data is in set form: the library's induction theorems cannot be used here, but that every set of numbers
with a member has a least one (`Least`) follows from `WFMin` and `NatLessThanWellFounded`, and from it what is said above of
texts, ranks, flattened streams and recursive functions (`Recursion`).

Only model-checked: liveness (`EveryClientLeavesUnlessExhausted`, `EveryClientLeaves`, `EndIsNoticed`), and so the fairness conjuncts of the
two refinements and `EndsWithNothingOpen` as a whole: fairness and ENABLED are out of the prover's reach. Every invariant and every other action
property of a passing run is a theorem.

## Not modelled

- `send`, `recv` and `health_check` of a socket, and what `::bind` and `::connect` do to the kernel's: no object changes.
- Iterators of a directory and what `stat` says of an entry; the size of a file.
- `http::remove_header`, which no program calls, and the growing of `byte_buffer`, which has no caller either.
- sha256 and the table of hexadecimal digits: pure functions without a promise to break but their own tables.
- Signals, printing of socket options, logging, the result type, exceptions: prints and calls into libraries. `json.h` and
  several headers are declarations without code.

## Plan

1. Done: sockets with their timeouts, server, hosting program, messages, router, websocket and handshake, client programs, both
   JSON parsers, the resource classes and the programs that use them.
2. Done: the theorems above; the safety part of both refinements.
3. Left: `Growth` of `byte_buffer` with a width; `remove_header`; bodies with empty lines in them, which the parser cuts.
