# A verification project for TheAtlasOceanWhale

TLA+ models of the parts of this C++17 library that are hard to test, TLC runs
that check them on small instances, and TLAPS proofs for every value of the
constants. Paths are relative to the directory above the repository, in which
the library's code is `src/src/...`.

## 1. The system

| component | state it keeps | operations | how it interacts |
|---|---|---|---|
| **LogManager** `logging/log_manager.{hpp,cpp}`, `logging.hpp` | static `instance`; one queue, mutex and condition variable per sink; `_is_finiesh`; the worker threads | `instantiate`, `push`, `console_worker`, `file_worker`, `~LogManager`; `Logger<T>::info/deubg/error` | every logging thread pushes; one worker per sink swaps its queue out and writes; the static's destructor stops the workers at exit |
| **LogDirectoryManager** `logging/log_file_handler.{hpp,cpp}` | the directory's files `<prefix>-<n>.log`, one open stream with its buffer | `clean_directory`, `update_current_file`, `write_to_last_file`, destructor | owned by the file worker, called for each batch; the directory outlives the process and is shared by every prefix |
| **http_client::Client** `http_client/http_client.{hpp,cpp}` | `io_context`, resolver, two sockets (one an `ssl::stream` with its session), timer, `_ec`, `_raw_result_bytes` | `call` and the handlers of resolve, connect, write, read and timer | single thread inside `io_context.run()`; the timer races the chain; the peer does as it likes; one object is used for many calls |
| **Response** `http_client/result.cpp` | none (immutable) | `from_raw_bytes`, `body_bytes`, `raise_for_status` | parses what `call` has read |
| **FormRequest, Multipart, URL** | none (values) | `to_string`, `as_http_body`, `get_path` | used by `Client::_create_raw_request` |
| **cli_builder** `cli_builder/*` | static table of commands; one option object and one argument object per command, reused by every run | registration by static objects; `CliRegistry::run`, `get_option`, `get_arg` | `run` overwrites the objects and calls the command |
| **json** `json/include/taow/json.hpp` | none | macros that generate `from_json`, `to_json` | nlohmann::json |
| **utils**, **main.cpp** | none | conversions; a demonstration of the logger | |

What is hard in it: threads that push while workers swap and a destructor
shuts down (interleavings, lost wakeups, two mutexes); a directory that must
survive crashes between any two system calls; a timer that races a chain of
asynchronous operations and leaves handlers behind in an `io_context` that the
next call runs; objects that are reused after a partial failure. The list with
the lines is `hazards` in `PROJECT.json`.

What makes each correct:

* **LogManager**: each sink handles what was pushed to it once and in order;
  nobody sleeps on work; shutdown loses nothing that was pushed before it,
  returns, and leaves no thread behind.
* **LogDirectoryManager**: bounded number and size of files; removing gives up
  the oldest records only; a crash takes buffered records only.
* **Client**: a returned response is the whole stream of its own call; a
  timeout is reported and ends the call; bytes and operations of an earlier call
  do not reach the next (over TLS they can, see section 6; what gets through is
  bounded); the header of a request describes the body that follows it.
* **Response**: a body is decoded to the payload the server coded; one that was
  cut is not taken for a shorter one; every header has all the values it was
  sent with.
* **FormRequest, Multipart, URL**: a server reads the values the form's getters
  return, whatever is in them, and the fields and files of a multipart body,
  whatever data they have.
* **json**: writing and reading a struct gives the same struct; a damaged
  document is noticed, or changes nothing but the damaged field.
* **cli_builder**: a command sees this command line only.

## 2. The modules

| module | what it is |
|---|---|
| `LogSink` | abstract: what one sink promises to the threads that push |
| `LogManager` | constructor, producers, both workers, destructor; implements `LogSink` twice |
| `MCLogManager` | thresholds and symmetry for TLC |
| `LogManagerProofs` | proofs about `LogManager`: the protocol, and the order of what it carries |
| `RollingLog` | abstract: what the log directory promises |
| `LogDirectory` | `LogDirectoryManager` as the file worker drives it; implements `RollingLog` for one prefix |
| `LogDirectoryProofs` | proofs about `LogDirectory`: its files, and the records in them |
| `FileLog` | `LogDirectory` with the queue, batches and shutdown of the file side of `LogManager` in front; implements `RollingLog` from `push` to the disk |
| `FileLogProofs` | proofs about `FileLog` |
| `HttpCall` | `Client::call` and its handlers, with as much of Boost.Asio as `call` relies on |
| `HttpCallProofs` | proofs about `HttpCall` |
| `HttpResponse`, `MCHttpResponse` | `Response`: from the bytes `HttpCall` has read to the decoded body |
| `HttpResponseProofs` | proofs about `HttpResponse` |
| `ResponseHead`, `MCResponseHead` | the text of a response's head: status line, header lines, `raise_for_status` |
| `ResponseHeadProofs` | proofs about `ResponseHead` |
| `SequenceLemmas` | induction, least elements and sequences, for the proofs about `Response` |
| `FormEncoding` | forms, their getters, their encoding, and a server's decoder |
| `HttpRequest`, `MCHttpRequest` | `_create_raw_request`: target, headers and body, call after call |
| `JsonStruct`, `MCJsonStruct` | the structs that the macros of `json.hpp` make, through a document and back |
| `CliRun`, `MCCliRun` | repeated `CliRegistry::run` on one command |
| `CliRunProofs` | proofs about `CliRun` |

Definitions whose comment says "A plausible bug" are variants of the definition
below them; no specification uses them. `PROJECT.json` pairs each property with
one of them, under which TLC finds the property violated.

### LogManager

A step is what one thread does between two points where another one can
interfere. `PushLock`/`PushRecord` are one section of `push`
(`log_manager.cpp:35-44`: lock, `push_back`, `notify_one`, unlock), and
`AfterPush` goes on to the file section or returns. `WorkerLock`, `WorkerWait`,
`WorkerSwap` are the block with the `unique_lock` (55-62): a wakeup, spurious
or not, takes the mutex again and tests the predicate again; the swap and the
sample of `_is_finiesh` are one step under the mutex. `Deliver` is one round of
the loop over the batch, `BatchDone` the test of `should_break`, `Prepare` the
file worker's two calls on the directory, `PrepareThrows` the exception of
`std::filesystem` that nobody catches (`std::terminate`).
`LockFirst`/`LockSecond`/`Backoff` are `std::scoped_lock`'s deadlock avoidance,
`Finish` the destructor's block, `Join` its loop. `SpawnFails` is a
`std::thread` that cannot start: with no worker yet the exception leaves
`instantiate`, `instance` stays empty and `Retry` is the program calling it
again; with one worker the vector of joinable threads is destroyed and the
process terminates. `Log` may pass the unsynchronised test of `instance`
while the static is being destroyed, unless `ExitWaits` says that the program
joins its threads first.

History variables: `accepted`, `handled`, `out` (per sink: pushed, handled,
written) and `cutoff` (how much had been pushed when the flag was raised).

Left out: formatting of lines; `push` on a destroyed object and two threads
inside `instantiate` at once, which have no defined meaning; calls that throw
before they change anything (a second `instantiate`, no configuration).

### LogDirectory

The directory is a function from files (prefix and number) to the records in
them. `TakeBatch` starts a batch, `Fetch`/`RemoveOldest` are `clean_directory`
(the listing and the removals are separate steps, so a crash may cut them
short), `ChoosePath` is `update_current_file` up to `new_file_path`,
`OpenPath`/`OpenFails` the rest of it, `Write` is `write_to_last_file` into the
stream's buffer (`WriteToLastFile`), which `Flush` writes out (`WriteOut`) at
any time and in any part; `Quit`
is the destructor; `Crash` may happen at any point and takes the buffer;
`Restart` starts the program on the same directory, maybe with another prefix.
Files with the same number come out of `std::sort` in any order. A negative
`max_files_count` is larger than any size once converted, as in the code. A
record has size 1, and `Limit` is in records.

Records are numbered in the order in which they are written, so what
`RollingLog` says of the log is said of a set of numbers. That the files hold
the records in this order, and the stream's buffer those behind, is an invariant
of its own (`RecordsInOrder`; `HeldInOrder` from the queue on in `FileLog`).

### FileLog

`LogManager` leaves the directory to one step (`Prepare`) and `LogDirectory`
leaves the queue to one (`TakeBatch`); `FileLog` puts the two together. It
EXTENDS `LogDirectory` and adds the queue, the worker's batch, `_is_finiesh`
and `should_break`. A section of `_file_mutex` is one step here (`Push`,
`Swap`), which `LogManager`'s `MutualExclusion` justifies. `Deliver` is one
round of the loop over the batch, `Spill` the stream writing its buffer out
meanwhile, `PrepareFails` an open that fails, after which the whole batch is
written to a failed stream and is gone, `Leave` the test of `should_break` and the destructor of the stream;
`Die` is a crash, which takes queue, batch and buffer. The refinement of
`RollingLog` counts all three as what is buffered; where opens may fail
`RollingLog` allows the loss of buffered records without a crash (`MayDrop`).
History variables: `refused`, the records of the batches for which no file could
be opened, and `crashed`.

### HttpCall

`Call` is the code up to `_context.run()`; each handler of the chain is an
action (`Resolved`, `ConnectedPlain`, `ConnectedSecure`, `Written`, `ReadData`,
`ReadEof`, `Fails`), guarded by being first in `ready`, the queue of handlers
the `io_context` has not run yet. `Stop` is `_context.stop()` and what follows:
`run` returns, `_timer.cancel()`, and the call throws if `_ec` is set.
`TimerExpires` puts the timer's handler into the queue, where `cancel` does not
reach it any more; `TimerFires` is that handler, in this call or the next. The
handshake is synchronous (`phase = "handshake"`: nothing else runs) and may
throw past `_timer.cancel()`. `Completes`, `PeerSends`, `PeerCloses`,
`TimerExpires` are the library and the peer, marked external. Bytes are the
numbers of the reads that returned them.

The client has one `ssl::stream` (`http_client.hpp:79`) for all its calls, and no
call shuts it down, clears or replaces it; only the TCP socket below it is
closed. `tls`, `since` and `held` are what the SSL object keeps from call to
call: whether it has a session, which call made it, and what data of it are not
read yet. Once it has one, `HandshakeDone` succeeds without a word to the new
peer (`SSL_connect` on an established object), reads are answered from what the
engine holds before the socket is asked (`InEngine`), a `close_notify` that was
seen ends every later read (`Ended`), and what the new peer sends is no record
of the session, so such a read fails and spoils the object (`broken`, in which a
handshake never succeeds). `EngineLeft` is what the end of a call leaves; a
handshake that throws may leave any of these states (`HandshakeThrows`). A call
whose session is an earlier one's is `Stale`. A response that
`Response::from_raw_bytes` rejects counts as returned.

### HttpResponse

The stream that `HttpCall` returns whole, one level down: `body` is a sequence
of bytes, chosen by a server that codes a payload (`Encode`, one step per
coding), sends it in chunks as it likes (`SendChunk`, `SendLastChunk`) or in
one piece (`SendPlain`), all marked external; `CutShort` is the connection.
`EndOfHeader` is `from_raw_bytes` finding the empty line, `NoEndOfHeader` not
finding it, `HeaderLine` one round of the loop of `process_headers`: values of
one key are joined by commas, so they are sequences of items here. `BodyBytes`
chooses between the chunk loop and the plain body; `BrokenChunk`, `LastChunk`
and `DataChunk` are one round of the loop of `process_chunked_response`,
`Decode` one round of `handle_decompressing`. A coding wraps its input in a byte
at each end, which is all the decoder can tell of it. A size beyond the end of
the body is undefined behaviour in the code: the model stops there in
`"undefined"` and no property speaks of what follows.

History variables: `layers` (the payload and what each coding has made of it)
and `frames` (where the chunks were put and what they carry). No action of the
client reads them.

### ResponseHead

`HttpResponse` takes a head for a list of lines. `ResponseHead` starts from the
text that a server makes of its code and its reason (`Init`) and of its lines
(`SendLine`), and cuts it as `from_raw_bytes` does, with `std::string`'s `find`
and `substr` and with indices modulo `Width`, so that `npos + 1` is 0 as in the
code. `StatusPart` is `process_header_status_part`; `HeaderLine` is one round of
the loop of `split` with the round of `process_headers` for the line it cuts,
two loops over the same lines with nothing in between. What `erase` takes off
the text is not taken off in the model: `start_pos` starts behind it. A number,
or a word without a space or a colon, is one character. `starts` is a history
variable: where the server put its lines.

### FormEncoding and HttpRequest

A form is a tree of scalars, arrays and objects, as in `FormRequestItem`'s
variant; `to_form_string` is its namesake. An `unordered_map` is iterated in any
order, so each item has a set of strings, all of which are checked. `Pairs` and
`Decoded` are how a server reads the result; `GetAt` follows the getters. What
`pop_back` leaves of an empty string is the value `Undefined`.
`CreateRawRequest` is one call of `_create_raw_request`: body first, because it
makes the boundary and the length the headers name. Names, file names and content
types of parts are sequences of tokens, quotes and line ends among them, put into
the header lines as they are, like `multipart.cpp` does. `_content_length` starts
with any value, as the member has no initialiser. `PartsOf` and `ReadPart` read a multipart
body as a server does: a name ends at the next quote, a content type at the line
end.

### JsonStruct

A struct's definition is a set of fields with the kinds of the macros. `to_json`
and `from_json` are what the macros expand to, over documents of objects, lists,
plain values and null; the conversion of a scalar is nlohmann::json's. `Write`,
`Lose` (a member, also of an object in a list, is gone, is null, or is a text of the wrong type) and `Read` are a
struct on its way to another program.

### CliRun

`Run` takes any command line of up to `MaxTokens` tokens; `Token` is one round
of the loop over `raw_args`, `ExtractOption` and `ExtractArg` one expansion of
the extractor macros, which assign a field of the reused objects or throw;
`Invoke` calls the command and `Return` ends `run`'s locals.

## 3. The runs

| run | instance | what it shows |
|---|---|---|
| `log_shutdown` | 2 threads, 2 calls each, 2 levels, both sinks, threads joined before exit | mutual exclusion, no lost wakeup, conservation, nothing lost at shutdown, order per thread, the two sinks in step, both sinks implement `LogSink` |
| `log_late` | 2 threads, 1 call, threads that log during destruction, spurious wakeups, failing spawn and another `instantiate`, failing directory | what was pushed before the flag is handled; no worker outlives the object, also when the constructor fails; types |
| `log_liveness` | 2 threads, 1 call, 1 spurious wakeup per sink, fairness | shutdown returns, every pushed record is handled |
| `dir_one_prefix` | 8 records, batches of 2, files over 1 record rotate, 2 files kept, buffer of 2, failing opens, 2 restarts | bounds on files and sizes, numbering, records in order, `RollingLog` |
| `file_log` | 10 records of which 2 are below the level, files over 1 record rotate, 2 files kept, buffer of 2, 1 restart, crashes, failing opens | without a crash the logger loses the batches without a file and the oldest records only, and has the others on disk after its destructors; records in order from the queue to the oldest file; `RollingLog` from end to end |
| `http_call` | 3 calls on one client, http or https, 2 reads per call, a handshake that throws, one TLS session for all calls | one operation at a time, whole responses, what a call over an earlier session may return, timeouts reported, timeouts end calls |
| `http_requests` | 7197 clients: forms of up to 2 items per level and 3 levels, JSON, multipart bodies of up to 2 fields and 2 files, with quotes and line ends in names and types, forms in the URL; 2 boundaries, 2 calls | a server reads what the client was made with, but for the parts whose names would need escaping |
| `http_responses` | payloads of up to 2 bytes out of CR, LF and a digit, 4 lists of codings, 3 chunks, cut at any byte | whole bodies are decoded to the payload, delimited ones are never shortened |
| `response_heads` | 4 codes, 4 reasons or none, up to 2 lines out of 26 | the code, and every value of every header |
| `json_structs` | 92 definitions of up to 3 fields, nested up to 3 deep, lists of up to 1 item, any one loss | the round trip, and damage noticed or local |
| `cli_runs` | 2 options, 2 arguments, any 2 lines of up to 4 tokens over 2 keys and 2 words | a called command sees this line only |
| `cli_doc_example` | the same with the documentation's indices | a disagreement of code and documentation (section 5) |

Bounds and why they are enough. One configured sink and directories with
several prefixes are covered by the proofs, which hold for any, and are no
runs. Two producers give every conflict on a mutex there is between producers,
workers and the destructor; a second call per producer lets a push meet a batch
that is being written and lets order matter. Three calls let a handler left by
the first reach the second and one left by the second reach the third; two
reads let an order go wrong, and leave data of one session to two later calls. Eight records over files of one or two fill more
files than are kept, several times. Payloads of two bytes hold a whole line
end, and with two codings are six bytes long, enough for three chunks that cut
everywhere. Ten records over files of two make `file_log` give up files several
times, in the first life of the program and after the restart. In a form two
items per level are enough for the separators and for a key given twice, three
levels for a name that is built twice on the way down, and every character that
the encoding treats specially is in a key, a value or both; a second call finds
the length and the boundary of the first; of two fields or files one may have a name
that needs escaping beside one that does not. Two lines give every way in which two
headers meet and in which a status line runs into the first or the last of
them; texts are shorter than `Width`, which only the wraparound reaches. For
JSON one item tells an empty list from one that is not, and two values tell a
value from a default. Two runs of a command are one that leaves something
behind and one that could find it. In `log_shutdown` and its like the producers
are symmetric: no definition tells them apart and no liveness is checked there.
The limits are constants (`MaxCalls`, `MaxSpurious`, `MaxBatch`, `MaxRecords`,
`MaxRestarts`, `MaxChunks`, `MaxPayload`, `MaxParts`, `MaxTokens`, `MaxRuns`),
each guarding one action (`MaxParts` the chunks that are smaller than they
could be), a definition (`MaxChunk`: a server's size lines have two digits at
most, so a chunk has 255 bytes at most), or bound what is chosen at the start (`MaxLines`,
`MaxItems`). Deadlock is checked in every run: each specification has an
explicit step (`Stopped`, `Ended`, `Done`) for the states in which the program
may end, and in `ResponseHead` the status may be asked for again and again, so
anything else that stops is an error.

Fairness. `LogManager!Fairness` is weak fairness of each thread's steps: the
operating system keeps scheduling every thread. Nobody is obliged to log, to
exit, or to wake spuriously. Weak fairness of a blocked thread asks nothing
until its mutex is free, and with the bounded number of log calls it is free
for ever in the end; starvation on a mutex by threads that log without end is
outside the claim. `HttpCall!FairSpec` lets the thread in `run()` run what is
ready and an armed timer expire; nothing is assumed of the peer, the resolver
or the handshake, so only the timer can end a call with a silent peer.

## 4. What is proved

For every value of the constants that satisfies the named assumptions (sets of
producers, bounds, configurations; they only restrict types).

**LogManagerProofs.** `TypeCorrect`, `MutexesHold`, `NoWakeupIsLost`,
`NothingIsLostOrReordered`, `NoWorkerIsLeft`, `ShutdownLosesNothing`,
`ConsoleIsSink` and `FileIsSink`. The argument: mutual exclusion needs the
ownership of the two mutexes inside `scoped_lock` (`ScopedLock`: between its
two acquisitions the destructor has exactly one). Conservation needs that a
worker outside its delivery has an empty batch (`BatchTaken`), so that the swap
overwrites nothing. Shutdown needs that the flag is raised exactly from
`Finish` on, that a worker's `stop` implies the flag and that a worker that has
sampled it holds everything up to `cutoff` in its batch (`ShutdownInv`), that
only configured sinks have workers and only workers that were not started are
"unborn" (`WorkersInv`, `UnconfiguredInv`), and that the joins were passed
(`JoinInv`). Each sink's refinement follows: every action is a step of
`LogSink` or leaves its six variables alone, with `Close` enabled by
`ShutdownLosesNothing`'s invariant.

Of what the queues carry: `ProducersKeepTheirOrder`, `SinksStayInStep`. A record carries the number of the call that made it, so
the order is about numbers. `LatestInv`: a thread inside `push` has the record
of its latest call. `AcceptedInv`: the records of a thread stand in a sink's
queue in rising order, none is from a later call than its last, and while the
thread still owes its record to a sink that sink has records of earlier calls
only; this is what makes `PushRecord` append a larger number. `OutInv` carries
the order over to what is written: all of it is among the records handled.

**HttpCallProofs.** `TypeCorrect`, `OneOperationAtATime`, `ResponsesAreWhole`,
`StaleResponsesAreLeftovers`, `TimeoutsAreReported`. `OneOperation` is inductive together with types; it says
that a handler of the chain that runs is the only one, which gives the effect of
every handler on the queue (`RunningChain`, `RunningTimer`). `ReadInv` ties what
the operating system has handed over to `_raw_result_bytes` and the one read
whose handler has not run, and says that an end of the stream is only seen when
everything was handed over. `SessionInv` says that the engine holds the first
data of the call that made the session, and that nothing is asked of the socket,
nor fails, before all of that is read: a call that reads at all leaves nothing
behind, so what a stale call returns begins at the first byte. `ResponseInv` says that a timeout stays in `_ec` or
gives way to another error.

**LogDirectoryProofs.** `DirTypeCorrect`, `FilesAreBounded`,
`NumbersAreContiguous`, `NumbersAreNotReused`, for any prefixes, limits (also
negative ones), buffers, crashes and restarts. Neither the bound on the files nor
the numbering is inductive: the batch first counts, then removes one file at a
time, then picks a name, then opens it, and a crash may come in between. The
invariant `DirInv` carries what each of these phases knows. `Cleaning`: the
victims still to be removed are the oldest files, without them the directory is
within its limit, and they are not all there is when a file may be kept.
`Chosen`: there is room for one file more, and the number of the picked name is that of the
newest file or the next one. Only `RemoveOldest` and `OpenPath` change which
files there are (`OtherStepsKeepFiles`), so each property has two cases to
show.

Of the records in the files: `RecordsStayInOrder` for any prefixes, limits, crashes and
restarts; `SizesAreBounded` and `DirectoryIsRollingLog` under `OnePrefix`, that is
`Cardinality(Prefixes) = 1`: two prefixes may have files of the same number,
and then the statements are false (section 6). The lemmas are about `DirStep`,
which every step of `LogDirectory` and every step of `FileLog` is
(`NextIsDirStep`, `LogNextIsDirStep`), so both modules share them: such a step
either writes one record (`WriteOne`) or handles files and buffer without a new
one (`Handling`). `RecordsInOrder` is inductive once the open file is known to
be the newest (`StreamInv`: what is flushed lands behind everything) and every
record to be below the next one (`Below`). The bound on sizes needs that a file
that is chosen again is not over the limit, and that what a batch has written is
counted in `inBatch` (`SizeInv`). The refinement goes by cases over what a step
does to the set of records on disk and in the buffer: flushing persists the
oldest, closing persists the whole buffer, removing trims from the oldest file
on, a crash takes the buffer. With `max_files_count` = 0 the file that is open
may be removed; in `RollingLog` the loss of its buffer is a `Crash`.

**FileLogProofs.** `RecordsAreHeldInOrder` for any prefixes and limits;
`NewestRecordsAreHeld` under `OnePrefix`; `FileLoggerIsRollingLog` under
`OnePrefix` and `MaxFiles # 0`. Each step of `FileLog` is shown once to be one
of six kinds (`StepOfLog`): `Pushed`, `Moved` towards the disk, `Trimmed`,
`Dropped` for want of a file, `Emptied` (with `MaxFiles` = 0) and `Died`; the two
theorems about what is held only look at the kinds. `RefusedInv` says where the
batch of a failed stream is: still in the worker, and in none of the files. The order from
queue to disk needs that the worker has a batch only inside its round
(`WorkerInv`), as `Swap` overwrites the batch. That only the newest are held
needs `LostInv`: what was given up is older than all that is held, and was
given up while as many files as configured stay; together with `OlderFull` (all
but the newest file are full) this is the promise about `max_files_count - 1`
full files. `EnoughStay` says that removing never goes below the limit,
`StreamThere` that the file that is open is there, which is where `MaxFiles #
0` is needed: with 0 it is removed, the lines in its buffer go while newer ones
wait in the queue, and the end-to-end log has a hole (section 6).

**CliRunProofs.** `OptionsOfThisRun`, `ArgsOfThisRun`, for any definitions,
command lines and number of runs. `RunInv` says what the locals and the reused
fields have at each point of the loop: `OptionsRead` (each option read has its
last value, and there is nothing else), `ArgsRead` (the words in order),
`OptionsExtracted` and `ArgsExtracted` (the fields before position `i` are this
run's, the ones behind it may be left from an earlier one). A later extraction
must not overwrite an earlier one: `NamesAssumption` says that the fields of one
object have different names, as the members of a C++ struct do.

**HttpResponseProofs.** `WholeBodiesAreDecoded`, `BodiesAreNotShortened` and
the invariant behind them, `ResponseInvariant`, for payloads of any length and
content, any list of codings, any chunks, any cut. They are statements about
loops over data of any length, and the loops' invariants are the proof:

* `LayersInv`: each layer is the coding of the one before. With that, `TodoInv`
  and `ResultInv` are the invariant of `handle_decompressing`: what is left of
  the list are the first codings, and the body decoded so far is their layer
  (or a plain body that was cut, and no gzip undone yet).
* `FramesInv`: the chunks lie in the body one behind the other, as far as the
  body goes, and carry the content piece by piece. With that, `PhaseInv` is the
  invariant of `process_chunked_response`: `sol` is where a chunk begins, and
  the result is what those before it carry. `AtChunk` then says what one round
  reads there: `LineRead` (the line ends where the server ended it, since no
  size line has a CR, and its digits give the size), `DataRead` and `RestRead`.
* `HeadersInv`: after so many header lines the list of codings is as long as the
  items in them, whatever the spelling and the number of lines.
* `NoErrorInv`: a whole body meets no error, since `BytesGrow` puts the end of
  each chunk inside it.

`LayersAreBalanced` is an induction over the codings, `StreamUndone` and
`StreamIsOpen` say that a stream ends at its own last byte, however the
payload's own layers nest. `Depth` and `ChunkSize` are read by
`DepthStep` and `NumberOfDigits`. The theorems assume what the module assumes:
a payload's bytes are none that only a coding makes (`DataAssumption`), which
is how the model abstracts from zlib, and the codings are strings. The bytes
range over `Octet`, the bytes that bodies are made of, instead of `STRING`,
because the prover cannot tell that a given string is in `STRING`.

**ResponseHeadProofs.** `HeadsAreRead` and the invariant behind it,
`HeadInvariant`, for any codes, reasons and header lines, heads of any length
that are shorter than `Width`, with or without the second space. `TextInv` says
how the lines lie in the head: each one where `starts` has it, a line end
between two of them, no position outside. With that, a search for a line end
that begins in a line finds that line's own (`EndIsFound`), the second space is
the one before the reason or the first one of the first line that has one
(`SecondSpaceIs`), and `split` starts behind the lines that are lost, or, where
`npos + 2` wraps, at the second character of the head (`StartIs`). `LineRead` is
about one line: the first colon is the one behind the key, and `trim` takes the
blanks and nothing else. `PlaceInv` is the invariant of the two loops: `split`
stands at the beginning of a line and the header has what those before it say,
or it stands in the status line, where nothing is found (`ColonOfReason`) unless
the head is one that is misread. `Joined`, what the header should have, is
unfolded by `JoinedIs`. The theorems assume what the module assumes:
the characters of keys and codes are neither spaces nor colons, values begin
and end with another character than a space, and no text is as long as a
`size_t` can count.

The library's induction theorems take a predicate, which the prover cannot
instantiate. `NatInductionOnSets` states induction with a set in its place and
is proved from the pigeonhole principle of `FiniteSetTheorems`; a recursive
function is unfolded by exhibiting the function that satisfies its equation.

Only model-checked:

* liveness (`ShutdownCompletes`, `EveryRecordHandled`, `TimeoutEndsCall`), which
  is out of the prover's reach;
* the properties of `HttpRequest` and `JsonStruct`, which say what recursions
  over a form or a nested struct compute. These modules are built from RECURSIVE
  operators, under which the prover loses its SMT backend, and a tree of any
  depth is an induction over data; what they compute is checked over all inputs
  of the runs' size.

## 5. Finding

`cli_builder_macros.hpp:53-63` documents an argument's `idx` as the number of
the argument and declares `X(host, 1, STRING) X(port, 2, INT)`, but `get_arg`
counts from 0 (`cli_builder.cpp:48-52`): the example's command throws
`ArgsNotCorrect` for a line with its two arguments. Run `cli_doc_example`.

## 6. What the models say that is not claimed as correct

* Two prefixes in one directory: two files may share the highest number, and
  `update_current_file` may look at the size of the other prefix's file, so the
  file it appends to grows without bound; `clean_directory` may remove the file
  that is open.
* A timer that expires during the resolve closes sockets that are not open yet:
  if the cancellation of the resolve comes too late, the rest of the call has no
  timeout. A handshake has none at all. `TimeoutEndsCall` excludes both.
* A timer handler that was queued when `cancel` was called runs in the next
  call and makes it fail.
* A second https call on one client uses the TLS session of the first. Its
  handshake succeeds at once, its request is encrypted with keys its peer does
  not have, and it fails when that peer answers; or, when the first call's
  session has ended, it returns what that session had left, usually nothing, as
  a response, which `from_raw_bytes` then rejects unless it has a head.
  `WholeResponse` claims the calls that made their session and those without
  one; `StaleResponse` says what the others may return.
* A file that cannot be opened: nobody looks at the stream, and the records of
  the batch are dropped. `HoldsNewest` and `IsEndToEndLog` say that these, all of
  them, are what is lost.
* A line that a crash cuts in two, to whose first half the next start appends its
  first line: a record is written whole or not at all in the models, so nothing
  is said of it. Writes to a file that is open succeed.
* A record pushed after the worker's last swap, by a thread that passed the
  test of `instance` while it was being destroyed, is never handled:
  `NothingLostAtShutdown` speaks of what was pushed before the flag.
* A plain body whose connection is cut is returned as it is: `Content-Length` is
  not looked at. So is a gzipped one of which no byte arrived. `NeverShortened`
  claims the other delimited bodies only, and allows for the CR of a last line
  end that was cut in two, which ends up in the body.
* A status line without its second space: the search for it ends in the first
  header line that has a space, and the lines up to that one are lost, unless it
  is the last one (`first_eol` is then `npos`, and `npos + 2` is 1).
  `HeadIsRead` claims the lines behind, and a reason without a colon where there
  is no header line at all, since such a head is read as one itself.
* Header values come out in lower case, as their keys do.
* A form, an array or an object without items has no defined string (`pop_back`
  on an empty string). `FormArrives` claims the others.
* A boundary that occurs at the beginning of a line of a part ends the part early;
  nothing looks for it. `BodyArrives` excludes it.
* A quote or a line end in the name or the file name of a part, or a line end in
  its content type, is not escaped: a server reads another name, another type or
  other data. `BodyArrives` claims the other parts, and that there are as many
  parts as were given.
* A required list of objects that is missing is read as an empty one, a required
  object as one of empty fields when it requires nothing itself, and a plain value
  in their place is accepted when their structs require nothing.
  `LossIsNoticedOrLocal` says so. An optional OBJ cannot be written at all: its
  `to_json` does not compile.
* With `max_files_count` = 0 `clean_directory` removes the file that is open. The
  lines in the stream's buffer go with it, though the process does not crash and
  newer ones wait in the queue; `HoldsNewest` allows it (no file is promised),
  `IsEndToEndLog` does not and is claimed for other values only.
* Lines stay in the stream's buffer until it is full or another file is opened,
  for ever if nothing more is logged: a crash takes them.
* The console and the file may show two threads' records in different orders.

## 7. Not modelled, and the plan

Not modelled: trailers of a chunked body (no code reads them; what stands there
is part of what `HttpResponse` leaves to the server), names with a number
beyond `int` in the log directory, several processes on one log directory at
once, two threads in `instantiate` at once (a data race on the optional, with no
defined outcome), the registration of commands by static objects, the
conversions of `utils` (each wraps one call of the C++ library; `random_string`
is a choice of `HttpRequest`), and `main.cpp`, which is one instance of the
environment `LogManager` has anyway.

In order of importance, next:

1. A theorem on how much of the log survives a crash, from the invariants of
   `FileLogProofs`.
2. Two processes on one directory (the size and the removal of files that vanish).
3. `CliRegistry`: registration and lookup of several commands.
