# Web serial multiplexer: TLA+ models and proofs

The server lets browsers (XTerm.js) talk to the serial ports of a host.  A
browser opens a websocket; the session starts in a *control* state, a small
command line, and `connect` puts it into a *serial* state that passes bytes
between the terminal and one serial port until Ctrl-Q.  These modules model the
parts of the server that hold state between events, TLC checks them on small
instances, and TLAPS proves the main results for every instance.

Paths below are relative to the repository: `webserial/` stands for
`lib/webserial/`, `http/` for `lib/http/include/apsn/http/`, `core/` for
`lib/core/`.

## 1. Inventory

### Execution model

In the server, one `io_context` runs on one thread (`bin/main.cpp:175`).  A completion handler
is therefore atomic, and the mutexes of the registry and the port table
(`context.hpp`) never contend.  The concurrency is in the *order* of completions:
every asynchronous operation (`async_read`, `async_write`, `async_close`,
`async_read_some`, `asio::post`) is outstanding for a while, and the kernel, the
peer and the device decide when it ends.  Three rules of Boost.Asio matter:

* an operation that has been *performed* keeps its result even if it is
  cancelled before its handler runs;
* an object captured through `shared_from_this()` lives until the last handler
  that captured it has been run and released, and its destructor runs inside
  that step;
* an object that captured a raw pointer or a reference lives by nobody's leave.

### Components

| Component | State | Operations | Interacts with |
|---|---|---|---|
| websocket session, `http/websocket.hpp`, `webserial/include/cli_handler.hpp` | stream, `m_queue`, `m_state`, outstanding operations | accept, read, write, close; input to `m_state`; destructor | registry (by raw `this`), serial_state |
| session registry, `session_holder` in `webserial/src/context.cpp` | map of rows (id, state, device) keyed by raw pointer; `current_id` | register, unregister, set_state, set_device, cancel | called by handlers, ~serial_state, commands |
| port table, `ports_holder` in the same file | map of entries (device, options, in_use); `current_id` | add_port, get_port, option setters, `refresh` clears it | referenced by `serial_state::m_info` |
| serial_state, `webserial/src/cli/serial_state.cpp` | serial port, `m_send_queue`, `m_info`, `m_out` | run, on_read, on_write, on_send, cancel, destructor | port table and session, both by reference |
| control state, `webserial/src/cli/control_state.cpp`, `history.cpp` | line buffer, history, current menu | editing, `list`, `connect`, `session kill`, `system refresh`, `ports set_*` | registry, port table |
| port options, `port.hpp`, `port.cpp` in `webserial/` | names of parities and stop bits | names to values and back | menus, table |
| input parser, `webserial/src/cli/base_state.cpp` | `m_state`, `m_cmdbuf` | feed | calls on_char, on_csi, on_dcs, on_apc |
| serial scan and open, `webserial/src/serial.cpp`, `serial.hpp` | the settings of each tty | scan reads them, create applies options one by one | file system, termios |
| HTTP listener and session, `http/detail/listener.tpp`, `session.tpp` | acceptor; parser, buffer, deadline | accept; read header, read body, write, end, upgrade | router; creates websocket sessions |
| router, `http/detail/router.tpp`, `trie.hpp` | trie of routes | longest match, before_body, handle | handlers |
| middleware, `http/middleware.hpp`, `lib/http/src/headers.cpp` | `m_ha1`; the metadata of a request | digest, its header parser, NCSA log, xclacks | request objects; cli_handler parses the header again |
| password tool, `bin/wspasswd.cpp` | the password file, the echo of the terminal | prompt, hash, write | the server, which reads the file once (`bin/main.cpp:88`) |
| multiprocess mutex, `core/src/lock.cpp` | pthread mutex, file lock, counter | lock, try_lock, timed_lock, unlock | other processes, through a file |
| results, `core/include/apsn/result.hpp` | a value beside an error | test, dereference (which may end the program) | everybody |
| logging, ansi, fmt (`core/`) | none that others read | formatting | everybody |
| MD5, `contrib/md5/` | | digest of a text | wspasswd, digest_auth |
| options, TLS context, `site/` | | start-up, browser | |

### What is hard

* **Late completions.** `serial_state::cancel()` is `m_port.cancel()`: a read that
  was already performed comes back without an error, and `on_read` re-arms it.
* **Objects that outlive what they refer to.** `serial_state` keeps a reference
  into the port table (`m_info`) and into its session (`m_out`, `m_session`);
  the registry is keyed by raw pointers to handlers, whose addresses are reused.
* **`system refresh`** replaces the table and erases registry rows under the
  feet of running sessions, and can fail half-way.
* **Two writers, one queue.** `on_send` and `on_write` both decide whether to
  start the next write, in the websocket and in the serial_state.
* **Partial and failed writes**, which the two queues treat differently.
* **Never-ending operations**: what keeps a session, a port or the acceptor alive
  or idle for ever.
* **Two owners of one stream.**  What the device sends and what the control state
  prints go through the same ostream and queue, and a session may leave one state
  while the other's completion is under way.
* **One text, four readers.**  The credentials are hashed by a tool, rendered by a
  browser, taken apart twice by the server (once to check them, once for the name of
  the session), with marks in them that mean something to each; and the file may be
  half-written when it is read.
* **A stream cut anywhere**: escape sequences and lines arrive in pieces, and the
  object that reads them is replaced in the middle of a message.
* **Options on a way round**: read from a device, shown by name, typed by name,
  applied one by one with a possible refusal in between, read back.
* In the HTTP part: the 30 s deadline, keep-alive and upgrade; the accept loop;
  bodies that stay in the stream; longest-prefix match on a Patricia trie; metadata
  lost between the two passes over a request.  In the mutex: two locks taken one after the other, the
  recursive count, owner death, and the timed loop.

What would make each component correct: the *session core* keeps the registry true
to the live handlers and gives a port to one session at a time; the *queues*
deliver in order, once, with one outstanding write; the *parser* splits any
stream in the same way however it is cut into messages; the *bridge* shows what was
read and passes on what was typed; *authentication* lets in the user whose hash
the file has, and nobody who does not know it; the *listener* goes on accepting; the *router* chooses the
longest route that is a prefix; the *mutex* excludes processes and threads and is always given back.

`PROJECT.json` lists the hazards line by line with the property that covers each,
or the claim of section 3 that fails there.

## 2. Modules

| Module | Models |
|---|---|
| `Multiplexer` | the session core: handlers, registry, port table, serial_states |
| `PortLease` | abstract: what the port table promises |
| `MCMultiplexer` | instances of `Multiplexer` for TLC, symmetry |
| `MultiplexerProofs` | types, exclusive use of entries; what the registry shows is true; `Multiplexer` implements `PortLease` |
| `WsQueue` | the output queue of one websocket |
| `Fifo` | abstract: a channel that delivers in order, once |
| `Keys` | what is typed to a serial_state |
| `SerialPipe` | the input queue of one serial_state |
| `MCSerialPipe` | what is typed in the instance of `SerialPipe` |
| `Bridge` | one session, its websocket queue, and the port it connects to with its queue and its read |
| `MCBridge` | what is typed in the instance of `Bridge` |
| `BridgeProofs` | invariants of `WsQueue`, which implements `Fifo`; the same of `Bridge`, what it adds, and from the port to the terminal it implements `Fifo`; then all invariants and action properties of `PortOptions`, whose names begin with `Options` where `WsQueue` has them too |
| `SequenceLemmas` | induction over numbers and sequences, and what the proofs need of sequences, maps over them and `FlattenSeq` |
| `MultiprocessMutex` | the mutex of `core/src/lock.cpp`: threads, processes, the file |
| `ExclusiveLock` | abstract: one lock for all threads |
| `MCMultiprocessMutex` | threads and processes of the instances |
| `LockProofs` | exclusion, and `MultiprocessMutex` implements `ExclusiveLock` |
| `HttpServer` | both listeners and their HTTP sessions |
| `Exchange` | abstract: requests of a connection are answered in order, once |
| `MCHttpServer` | the requests of the instance |
| `HttpProofs` | types, deadlines, and `HttpServer` implements `Exchange` |
| `Terminal` | the input parser, the line editor with its history, and the switch between control and serial state |
| `MCTerminal` | the messages of the instance |
| `TerminalProofs` | all invariants of `Terminal` |
| `Router` | the trie, and the two passes of a request through its route |
| `MCRouter` | paths, targets and routes of the instance |
| `RouterProofs` | all invariants of `Router`: handlers behind the digest middleware are guarded; the walk down the trie finds the route with the most in common |
| `Result` | `apsn::result` |
| `Authentication` | wspasswd, the password file, the authorization header and its parser, digest_auth, the name of a session, the log line |
| `MCAuthentication` | names, passwords, targets and headers of the instance |
| `AuthenticationProofs` | all invariants of `Authentication`: who is let in, and the name of the session |
| `PortOptions` | options of the ports: table, names, setters, scan and create |
| `MCPortOptions` | settings, numbers and names of the instance |

`Multiplexer` is the centre.  `WsQueue` and `SerialPipe` are what `sending` and
`writes` of a session and of a serial_state stand for in it, and `Bridge` puts the two
together for one session; `Authentication` fills in what a request's header is in
`Router` and who a row's user is in `Multiplexer`; `HttpServer` ends with
the upgrade that `Multiplexer` begins with; `Terminal` decides which of `Connect`,
`Type`, `CtrlQ` and `OtherCommand` a message is; and `PortOptions` is the same table
seen for its options instead of its flags.

### Multiplexer

| Variable | Code |
|---|---|
| `conn[h]` | which operation of `websocket_impl` is outstanding: `async_accept`, `async_read`, neither; "free" if no object is at this address |
| `sending[h]` | some on_send or async_write holds `h` (the queue itself is `WsQueue`) |
| `closing[h]` | an `async_close` holds `h` |
| `mstate[h]` | `cli_handler::m_state`: a serial_state, or `Control` |
| `sessions`, `nextSession` | `session_holder` |
| `ports`, `nextPort` | `ports_holder` |
| `serial` | the serial_states that have not been destroyed, with their session, entry, device, read and writes |
| `stomped` | history variable: entries whose flag was overwritten through a dangling `m_info` |

A handler or serial_state is an *address*: it is reused once the object is gone,
so dangling pointers can alias a new object as in the program.  The read of a
serial_state is `pending`, `ready` (performed, completion queued), `failed` or
`none`; `Cancelled` turns only `pending` into `failed`.  `Settle` ends a step that
drops a reference: the object stays if something else holds it, otherwise its
destructor runs, in the same step.  `DestroySerial` is that destructor: it looks
the session up by address, and writes `in_use = false` through `m_info`.  If the
entry has been erased, that is a write to freed memory: the model lets it be lost
or hit any entry of the table, and `stomped` remembers the latter.

Each action is a whole handler: `Upgrade`, `AcceptOk`, `AcceptFails`,
`ReadFails`, `SendDone`, `CloseDone` for the websocket; `OtherCommand`,
`Connect`, `Kill`, `Refresh` for a line executed in the control state; `Type`,
`CtrlQ` for input in the serial state; `DeviceData`, `DeviceFails` for the device
and `OnRead`, `OnReadFails`, `WriteDone` for the completions.  `Connect` holds the
state switch of `handle_message` (`cli_handler.hpp:106-113`) as well as the
command.  Characters that only edit the line change nothing here.
The upgrade that is refused is in `HttpServer`, options in `PortOptions`.  Left out:
reads and writes of freed memory that reach no modelled object.

### WsQueue and SerialPipe

Both have a list of posted `on_send` handlers, the queue, the *sequence* of
outstanding writes (so that a second one can be seen) and what came out.
`WsQueue` writes whole messages.  `SerialPipe` writes bytes: `async_write_some`
may take any non-empty part, and the write started by `on_write` is of
one byte at the address of the shared_ptr, `Junk` (`serial_state.cpp:143`).
`Written` is the operation succeeding, `OnWrite` its handler; between the two other
handlers may run.  `Cancel` is Ctrl-Q: a write under way comes back with an error, a
completion that is queued already does not.

### Bridge

`Bridge` extends `WsQueue` and instantiates `SerialPipe`, so that both queues are those
of the modules above, and adds the read of the port (`read`, with the same four values
as in `Multiplexer`), what it read last (`buffer`, a number, in place of `m_buffer`) and
whether the session is in the serial state (`inside`).  `Output` is one handler writing
to the ostream; `source` remembers what each message was made of.

| Action | Code |
|---|---|
| `Console` | a command or a key in the control state, which prints |
| `Enter` | `serial_state::run`, with a port that was just opened |
| `Key(c)` | `on_char`, `on_csi` of the serial state |
| `Exit` | `handle_message` at Ctrl-Q: the port is cancelled, a control state runs |
| `Chunk`, `ReadFails` | the read is performed, or fails; `OnRead`, `OnReadFails` are its handler |
| `Stream`, `Port` | the steps of the two queues |

A port can be entered again only when nothing refers to the last serial_state
(`Alive`), which is what `EntryExclusive` of `Multiplexer` says.

### MultiprocessMutex

Each process has one `multiprocess_mutex` on the same file.  Here there *is*
concurrency: an action is one call of the kernel or of pthreads, or one load or
store of `m_counter` outside the mutex, and threads interleave between them.

| Variable | Code |
|---|---|
| `mutex[p]` | `m_mutex`: owner, how often it is locked, whether its owner ended |
| `counter[p]`, `l_type[p]` | `m_counter`, `m_flock.l_type` |
| `flock` | the process that has the record lock; the kernel keeps it per process |
| `thread[t]` | where `t` is in its call, `err`, the deadline, the loaded count, locks held |
| `now` | the seconds of `CLOCK_REALTIME` |

`Call` and `Unlock` are the program's; it unlocks only what it holds, and locks a
mutex that is not recursive once.  `lock` and `try_lock` share `LockFile`, `Undo`,
`Count` and `Counted`, as the two functions do line by line; `timed_lock` loops in
`TimedFile`, `Sleep` and `GiveUp`.  The seconds given to `nanosleep` are never set,
so it may fail at any time (`Sleep`).  `OwnerDead` is what pthreads does with
`EOWNERDEAD`: it grants the mutex; the code then locks it a second time (twice
locked if recursive, a call stuck for ever or refused with the mutex in hand if
not).  `m_counter` is updated outside the mutex, by a load and a store.  `ThreadEnds`
and `Restart` end a thread that owns the mutex, and a process at any point; the
latter also stands for the destructor and a new object.  Left out: pthread and fcntl
errors that a legal program does not meet, and two mutex objects on one file in
one process.

### HttpServer

| Variable | Code |
|---|---|
| `tls` | which of the two listeners main installs |
| `acceptor` | whether `async_accept` is outstanding; "crashed" when an exception has left `ioc.run()` |
| `pc[c]` | the outstanding operation of the session of connection `c`, before it "away" or "backlog", after it "websocket" or "closed" |
| `deadline[c]` | `expires_after`, `expires_never` of its stream |
| `asked[c]`, `read[c]`, `unread[c]` | what the client has sent, how many headers were parsed, whether the last body is still in the stream |
| `parser[c]` | `m_parser`: the request whose header was read, and its number, which is 0 if it was found in the body of another |
| `answered[c]` | history: the number of the request for which each response was made |

One action is one handler: `Accept`, `OnHandshake`, `OnReadHeader`, `OnReadBody`,
`Handle`, `OnWrite`, `OnShutdown`, `OnWsUpgrade`.  A request is a record of what its
handling depends on.  A request refused in the first pass leaves its body in the
stream, and the next `async_read_header` finds that instead of the next header.  The bytes
parse as the header of any request (`OnReadLeftover`), which then ends within that body or
swallows the header of the client's next request, or they do not parse
(`OnReadHeaderFails`).  `OnReadBody` is the parser of an `empty_body`, which fails
on any body.  Three things end the server: the websocket handler that is destroyed
before it has a state (`OnWsRefused`, `cli_handler.hpp:42`), and `remote_endpoint()`
of a socket that was reset, in either pass (`EndpointGone`).  `Fails` is any operation
that fails; `Expires` is the same, forced by the timer.

### Terminal

`cli` is the session's `m_state` with what its terminal line shows and what the device
was given: `input` and `cmdbuf` are `base_state::m_state` and `m_cmdbuf`, `inbuf` the
line, `commands` and `iter` the history and its iterator.  The one action is
`HandleMessage`, the loop of `handle_message` over a websocket message (`Fed`); `Feed`
is one call of the current feed function, `Call` the virtual function it ends with,
`ControlState` and `SerialState` the two overrides.  Which command a line is, is a
choice: one that connects, or one that leads to a menu, perhaps the current one; the
library looks a line up in the current menu and behind the names of others, so that
every menu is in reach of every other.  `menu` is `m_current_menu`, whose name the prompt
shows (`shown`) and which Ctrl-C resets.  Characters without a case of their own in
`on_char`, Ctrl-Q and NUL among them, go into the line and are echoed, and the terminal
shows nothing of them (`Silent`).  `typed` and `calls` are history.

### Router

`table` is `m_get`, whose keys are all the routes.  `LongestMatch` walks the trie as
`longest_match` does: `Nodes` are the leaves and the places where two keys part, and
`NextChild` the child with the longest common prefix, the first of several.
`BeforeBody` and `Handle` are the two passes; `request` is what both read, and
nothing is kept between them, as in `session.tpp`.  `Digest` is the middleware with
its four kinds of header; one that ends behind a "=" makes its parser throw.
Routes are registered before requests arrive.

### Authentication

| Variable | Code |
|---|---|
| `tool`, `echo` | a run of wspasswd: where it is, and whether the terminal echoes |
| `file` | the password file: absent, empty, or the hash |
| `written` | history: the credentials that were written |
| `server` | `m_ha1` of digest_auth, read by main when the server started |
| `request` | the request being handled: its header, its target, what digest_auth said |
| `reply`, `log` | the last answer, and the lines of ncsa_logger |

wspasswd goes through `RunWithPass` or `RunWithPrompt` and `Answer`, then `Open`, which
truncates the file, and `Write`, the destructor of the stream; `Killed` ends it
anywhere, `OpenFails` is the error that it logs and ignores.  The server starts
(`Start`, or `StartUnreadable`: `read_all` does not look whether the file opened), and
handles a request in two passes, `BeforeBody` and `Handle`, or `OnWsUpgrade`.

Texts are sequences of characters, because what can go wrong is where they are cut:
`Words`, `Field` and `Value` are `authorisation::parse` line by line, `Rendered` what a
browser sends for a name, a realm and a password, quotes escaped.  A digest is a character
of its own that holds what was hashed (`Md5`, of `md5.cpp`, whose arithmetic is left out),
so two digests are equal only if their texts are.  A browser sends what it renders of
its user's credentials; other clients send any header (`Others`), with any digest in it:
one they have overheard, or one they have computed.  `Throws` is the `std::out_of_range`
of `substr` when nothing follows a "="; it leaves `ioc.run()`, as does an upgrade without a usable header (`OnWsRefused`; see
`HttpServer`).  Results are those of module `Result`: `IsOk` looks at the error, `Ends`
at the value, as the two members of `result.hpp` do.

### PortOptions

| Variable | Code |
|---|---|
| `ports`, `current_id` | `ports_holder`, an entry with its options and its flag |
| `settings[d]` | the termios of the device: speed code, size, parity, stop bits |
| `applied[d]` | history: the options of the last `connect` that succeeded |
| `running` | false once `set_parity` has used the value of a result that has none (`SetBadParity`), which terminates the server |

`Scanned` is what scan makes of a termios, with `ToUint` the conversion of
`serial.cpp`, whose enum gives some codes the wrong numbers.  `Create` applies speed,
parity, stop bits and size in the code's order to a port that opening has reset
(`Opened`), and stops at the first that Boost.Asio refuses.  `SetSpeed`,
`SetCharacterSize`, `SetStopBits`, `SetParity` are the menu's commands, `Connect`,
`Leave` and `Refresh` the uses of the table; `Replug` is the device's own doing.

## 3. Runs

| Run | Question | Result |
|---|---|---|
| `mux` | two handler addresses used for three sessions, two serial_states, one or two devices in the table, a refresh: types, registry, exclusive use of entries, devices shown, refinement of `PortLease` | holds, 1.76 million states up to symmetry |
| `mux_live` | under fairness, closed websockets and cancelled serial_states are destroyed | holds, 52 thousand |
| `mux_kill` | killing a session frees its port | violated |
| `bridge` | one session that enters and leaves the serial state, four messages, two codes of two bytes each time: both queues, and what the port reads is shown in order, once, and all of it | holds, 385 thousand |
| `pipe_paste` | what is typed reaches the device, two characters | violated |
| `lock` | not recursive, lock and try_lock, three threads in two processes that all may end: the file follows the mutex, one exclusive lock, try_lock returns | holds, 8 thousand |
| `lock_threads` | recursive, lock and timed_lock, nested, the same three threads, which all may end: those of one process exclude each other | holds, 1.4 million up to symmetry |
| `http` | a client of either listener with three requests of six kinds, or one found in a body, beside a client that only connects: deadlines, implements `Exchange`, who waits is accepted, sessions of silent clients end | holds, 76 thousand |
| `terminal` | five messages out of fifteen that cut keys and sequences at every place, two menus: one reading of the stream, the line and the prompt shown, what the device gets | holds, 1.2 million |
| `router` | tables of up to three of seven paths, fifteen targets, three kinds of route: what the trie finds, who answers | holds, 380 thousand |
| `ports` | one device entered up to three times, found at two settings; setters with seven numbers and seven names: what a connect applies is read back, and kept while a session uses it | holds, 200 thousand |
| `auth` | two runs of wspasswd with three names, two passwords and two realms, a server that may end and start, a request of a browser or of another client: which browsers are let in, and by which name | holds, 250 thousand |

A type invariant is checked by `mux` and `terminal`; those of `MultiprocessMutex`,
`HttpServer`, `Router`, `PortOptions`, `WsQueue` and `SerialPipe` are proved instead
(section 4; that of `SerialPipe` as a part of `PipeInv`).

### What the properties say

* `EntryExclusive`: a sound entry (one not stomped) is flagged in use exactly while
  one serial_state refers to it.  It relates a flag, set by a command and cleared
  by a destructor that runs in some later completion, to object lifetimes.
* `ImplementsLease`: the same seen from outside: entries are acquired when free,
  released by their holder, replaced all at once by a refresh.
* `RegistryLive`: `session kill` never calls through a dangling key; ids are unique.
* `StateShown`: refresh, which decides by the *string* in the row, decides rightly.
* `RowLostOnlyByRefresh`: answers the README's open question (333-336) how a session
  can exist unregistered: through a refresh while it is in the serial state, and in
  no other way.
* `DeviceShownIsHeld`: the device shown is open; late destructors can only blank it.
* `ClosedIsDestroyed`, `CancelledIsDestroyed`: nothing keeps a closed session, or a
  serial_state whose read was cancelled in time, alive.
* `OneWriteOfFront`, `OneKeyAtATime`: one outstanding write, and the lifetime of its
  buffer, in the websocket and in the port.
* `NeverStuck`, `KeysNeverStuck`: no lost wake-up.
* `ImplementsFifo`: order and multiplicity.
* `ImplementsLink`: the whole way from the port to the terminal, through `m_buffer`,
  the ostream and the queue, is a channel as well: `on_read` never reads over what it
  has not copied, and what the control state prints in between moves nothing.
* `ReadIsShown`: whatever was read is shown in the end, although the session may have
  left the serial state by then.
* `OneWritePerCode`: whatever `SerialPipe` does to the bytes, no code is skipped
  or sent twice.

* `HolderHasFile`, `FileUnderMutex`: two locks are one lock only if the file is taken
  under the mutex and given back before it, on every path.
* `ImplementsLock`: to its users, threads and processes alike, the mutex is one lock.
* `ExclusiveInProcess`: the pthread mutex is right by itself, for every kind of mutex
  and call, whatever becomes of the file and of threads that end with it.
* `TryReturns`: nothing that another thread or process does blocks a try_lock.

* `Timed`: through keep-alive, handshake and shutdown there is no operation without a
  deadline; and a websocket has none left of the session's.
* `ImplementsExchange`: requests, pipelined or not, are answered in order, none twice, and
  nothing is answered after the response that closes the connection.  None is passed over
  either, until a request with a body was refused and the connection kept: from then
  on what the body holds may be answered in between, and requests may be lost in it.
  That even this does not repeat or reorder answers is the rest of the promise.
* `Accepted`: only a failed accept, or the end of the program, leaves a client waiting.
* `SessionEnds`: a session ends, or becomes a websocket, whichever operation its client
  leaves it in, unless another of its requests is answered; so silent clients do not pile
  up.  A client that keeps asking keeps its session, since every answer on a kept
  connection arms the timer anew (`session.tpp:30`).

* `ReadOnce`: the calls made so far and the open sequence, encoded again, are the
  characters typed, and no shorter reading exists: the cuts do not matter.
* `LineShown`: the line behind the prompt is the one CR would execute, in the menu
  that the prompt names, through echo, erasing, recall, interruption and changes of menu,
  as long as nothing was typed that the terminal does not show.
* `UpDown`: the history iterator survives what is appended behind it.
* `Redirected`: the device gets exactly what was typed after the message that connected.

* `LeafFound`: the greedy walk never ends at an inner node, which `longest_match`
  would dereference.
* `RouteFound`, `Greatest`: choosing the best child at each node loses neither an
  exact route nor a longer common prefix.
* `Guarded`: although digest_auth looks at the first pass only, no handler behind it
  answers in the second what it has not accepted.

* `AcceptedIsCurrent`: through interrupted runs of the tool, restarts of the server and
  requests of all kinds, a browser that is let in has the user name *and* the password of
  a run that was finished, and of the one the server has read; an empty file, or one
  written for others, lets no browser in.  The header that it renders may hold other
  fields within the name; they do not change what is checked.  It is about browsers only:
  other clients need not know a password when the file is empty (`EmptyAdmitsNobody`
  below), or when they have overheard a response, since the nonce is constant.
* `KnownIsAccepted`: the converse.  It relates the hash of the tool, the rendering of
  the browser and the parser of the server, for names with quotes, "=" and "," in them.
* `SessionNamed`: for a browser, the second parser finds the name that the first one
  accepted, for names without ", ".  Without that condition it is false: of the name
  `a, username=xx`, which the third user of the instance has, the parser makes two fields
  `username`, of which the later is kept.  A browser's header then names `x` (first and
  last character are taken for quotes) and digest_auth, which does not look at the name,
  lets its user in; the session is registered as `x`.

* `SettingsPreserved`: what a successful connect applied is what the next scan
  enters, whatever the device was before; it relates two conversions and the order
  in which options are applied.
* `SessionKeepsSettings`: nobody changes a device whose entry is in use, since no
  device has two entries.
* `ShownIsTaken`, `NotImmediate`, which are proved and have no run: two tables of names,
  written apart, agree; options wait for a connect.

### The claims that fail

Two have a run each:

* `KillRelievesPort` (`mux_kill`): data arrives, then the session is killed; the cancel
  comes after the read was performed, `on_read` re-arms it, and the serial_state of
  the destroyed session reads on.  No session is left to leave or kill, and the port
  stays in use for as long as the device is there.
* `InputRedirected` (`pipe_paste`): the second of two characters is queued behind
  the first and sent by `on_write` as one byte of a pointer.

These are stated in the modules and fail as well.  To see one fail, name it in place
of the properties of the cfg, without its symmetry and changed as given:

| Claim | Instance | What happens |
|---|---|---|
| `DeviceExclusive` | `mux.cfg` | refresh erases rows and entries but closes nothing: a session in the serial state goes on, out of reach of `kill`, and a second one can open the device |
| `ExitEnds` | `mux_kill.cfg` | the late read of `KillRelievesPort`, after Ctrl-Q |
| `RefreshTerminates` | `mux_kill.cfg` | the row goes, the session stays |
| `InputRedirected` | `pipe_paste.cfg`, `Codes <- MCUp`, `MaxTyped = 1` | the port takes a part of `ESC [ A`, `on_write` erases the whole |
| `Exclusive` | `lock.cfg`, `Recursive = TRUE` | a refused call of a recursive mutex still counts; the next one takes the mutex for locked already and skips the file |
| `Exclusive` | `lock.cfg`, `Calls = {"lock", "timed_lock"}` | after an unlock, timed_lock "locks" with `F_UNLCK` |
| `FileUnderMutex` | `lock.cfg`, `Recursive = TRUE` | unlock of a recursive mutex looks at the count before it decrements it, and never gives the file back |
| `CounterAboveZero` | `lock_threads.cfg` | two threads update the count at once; it wraps |
| `LockWaits` | `lock.cfg` | lock asks for the file once and throws |
| `OwnerReturns` | `lock.cfg` | the second lock after `EOWNERDEAD` waits for the caller itself |
| `OwnerReturns` | `lock.cfg`, `Calls = {"lock", "timed_lock"}`, `ThreadsEnd = FALSE` | nanoseconds never exceed a date in seconds, so the deadline is never noticed |
| `ExitQuiet` | `bridge.cfg` | "Type Ctrl + q to exit" (`serial_state.cpp:61`): data that was read before Ctrl-Q is shown behind the prompt of the control state |
| `UserLogged` | `auth.cfg` | the second pass builds its request anew, so the user name that digest_auth stored in the first is gone: every line of the log has `-` for the user, where README.md:258-260 promises NCSA's format |
| `AnyNameAccepted` | `auth.cfg` | the parser splits at ", " inside quotes too: a user whose name has one is refused for good |
| `EchoKept` | `auth.cfg` | a signal at the prompt of wspasswd leaves the terminal without echo |
| `CtrlQExits` | `terminal.cfg` | after an ESC, Ctrl-Q is read as the second character of a sequence and dropped; within a CSI sequence or a string it becomes part of it |
| `LineAlwaysShown` | `terminal.cfg` | Ctrl-Q typed in the control state is kept in the line, the terminal shows nothing of it, and erasing it erases what stands before it |
| `NoStray` | `http.cfg` | a request with a body is refused and the connection kept; the body is taken for the next request and answered, and the n-th response is no longer that of the n-th request |
| `WebsocketsAuthenticated` | `auth.cfg` | README.md:265 says that the websocket requires a digest; `on_read` upgrades a GET of any target, of the routes in `main.cpp:108-136` only `/` has `digest_auth`, and `cli_handler` asks for a header that parses, whoever sends it |
| `EmptyAdmitsNobody` | `auth.cfg` | wspasswd is interrupted after it has truncated the file, or the file cannot be read; `m_ha1` is then empty, and digest_auth takes the response that is computed from the empty text |
| `LongestPrefix` | `router.cfg` | the route with the most in common is taken, even if it is not a prefix of the target: of two routes `/` and `/ab`, the target `/a` gets `/ab` |
| `SettingsRetrieved` | `ports.cfg` | the enum of `serial.cpp` has `Baud600 = 10`, termios has 8: a port at 9600 is entered as 2400 |
| `SettingsAccepted` | `ports.cfg` | one and a half stop bits are taken by the menu and refused by Boost.Asio at the connect |
| `BadParityReported` | `ports.cfg` | a wrong name is reported, and then the value that the result does not have is used, which terminates the server |
| `FailedConnectHarmless` | `ports.cfg` | the options before the refused one stay applied |

### Bounds

`MaxSessions` and `MaxPorts` of `Multiplexer` bound the two id counters, `MaxSends` and
`MaxTyped` the messages; they are in the guards that consume them.  Two handler
addresses and three sessions give an address that is reused while another session
runs, which is what dangling keys need; two serial_states are what exclusive use needs
(a zombie and its successor).  With two ids, and scans that find one device or two,
`mux` has both the refresh that happens while an old serial_state lives, with new
entries to stomp on, and two devices in use at once.  Liveness runs have one
serial_state and no symmetry, which TLC does not support for them.

In `bridge` four messages are one being written, one behind it, one posted and one under
way in `m_buffer`, and enough to enter, leave, enter again and be overtaken by a read of
the first time.  Two codes of two bytes let the port take a part of a code and a second
code wait for it.

In `auth` one request at a time is enough, since nothing but the file and `m_ha1` outlives
a request; the server may end and start again between the two runs of the tool.  One name
has a quote, a "=" and a ",", one a ", ", and one a field behind ", "; of the passwords
one is the first word of the other, which is what the prompt makes of it; the other clients send a wrong
scheme, no field, too few, one with nothing behind its "=", one without quotes, and all
fields with a response computed from an empty hash.

For the mutex, two threads of one process and one of another make every pair that
can meet; two nested locks tell a count from a flag; `CounterRange` stands for 2^64; in
`lock_threads` it is 2, so that the count wraps oftener than any program sees, which
the pthread mutex must not mind.  Deadlines lie in the present second or in the
past.  The clock starts above `LastNano`, as it does today, or in `lock_threads`
below it, as on a board without a clock battery, where the timeout of `timed_lock`
can fire.

In `http` three requests of one client are what order, pipelining and a body left behind
need: one that is refused and leaves its body, one that may be swallowed by what the body
holds, and one behind it.  The other client, which only connects and is silent, shows that
one cannot hold up another; no request of one connection touches another, except
by ending the program.  The six requests take every branch of a session.  A request is taken
to arrive while the session reads or writes: one that arrives earlier is read no earlier.
`MaxAnswers` bounds the answers after which a header is found in a body once more; with two,
that is once in a connection, since one answer is that of the refused request.

In `terminal` the fifteen messages hold each key alone, a sequence cut after each of
its characters, strings that nearly end, and text behind a change of state; five
of them are enough to connect, open a sequence, end it and leave.  Of the characters that
the terminal does not show, Ctrl-Q is among them; the control state treats NUL in the same way.

In `router` the paths are those of up to three characters over an alphabet of three, so
that three routes make every shape of a trie with up to two inner nodes.  Targets begin
with a slash; with one that does not, `longest_match` finds nothing in common and
would dereference the inner node it stands on.

In `ports` the numbers lie on both sides of each guard and conversion (no speed, a slow
one, one that the enum misreads, a fast one; sizes below, in and above the range), the
names are one of each value and one that is none.  Sessions and devices do not affect
each other's options, hence one device; `MaxPorts` gives two refreshes.

The theorems remove the bounds, except where section 4 says that something is only
model-checked.

### Fairness

`FairSpec` assumes only what the runtime owes: a queued completion is run.  For
completions of I/O it assumes what a timeout guarantees: the handshake, a write
that the peer does not take, and the closing handshake are ended by the timeouts
that `websocket.hpp:134-136` installs (`timeout::suggested`), and a tty drains.
Nothing is assumed of users, peers or devices: `Upgrade`, commands, input,
`DeviceData` and `DeviceFails` have no fairness, nor has the end of a read on an
open websocket that nobody closes.  The violated liveness claims fail under this
fairness, so their counterexamples are not mere stops.

`BridgeFairSpec` assumes that what is posted and what has completed is run, and that a
write to the websocket ends, as above.  It assumes nothing of users, devices, or the
writes to the port.

For the HTTP side, `FairSpec` accepts what is in the backlog, while the acceptor is
armed, and lets the timer of a stream expire, if nothing is answered meanwhile.  Every answer
that keeps the connection arms the timer for another 30 s, so the fairness is stated for each
number of answers by itself: it owes nothing to a session that goes on answering.  Between
two answers the timer is armed at most twice (for a handshake and for the header behind
it).  That is all `SessionEnds` needs: no other operation has to end, and nothing
is assumed of the clients.

For the mutex, `FairSpec` schedules every thread that is in a call and lets time
pass.  Nobody has to unlock, to call or to end, and the pthread mutex is not fair.

## 4. Proofs

| Theorem | States |
|---|---|
| `MultiplexerProofs!TypeCorrect` | `Spec => []TypeOK` |
| `MultiplexerProofs!EntriesExclusive` | `Spec => []EntryExclusive` |
| `MultiplexerProofs!RowsAreLive` | `Spec => []RegistryLive` |
| `MultiplexerProofs!RowsShowState` | `Spec => []StateShown` |
| `MultiplexerProofs!RowsLostByRefresh` | `Spec => RowLostOnlyByRefresh` |
| `MultiplexerProofs!ShownDevicesAreHeld` | `Spec => []DeviceShownIsHeld` |
| `MultiplexerProofs!LeaseImplemented` | `Spec => Lease!Spec` |
| `BridgeProofs!OneWrite` | `Spec => []OneWriteOfFront` |
| `BridgeProofs!NoLostWakeup` | `Spec => []NeverStuck` |
| `BridgeProofs!FifoImplemented` | `Spec => Terminal!Spec` |
| `BridgeProofs!BridgeIsWsQueue` | `BridgeSpec => Spec`, and with it the three above of `Bridge` |
| `BridgeProofs!OneKeyWritten` | `BridgeSpec => []OneKeyAtATime` |
| `BridgeProofs!KeysMoveOn` | `BridgeSpec => []KeysNeverStuck` |
| `BridgeProofs!CodesAreWritten` | `BridgeSpec => []OneWritePerCode` |
| `BridgeProofs!LinkImplemented` | `BridgeSpec => ImplementsLink` |
| `TerminalProofs!TerminalTyped` | `Spec => []TypeOK` |
| `TerminalProofs!StreamReadOnce` | `Spec => []ReadOnce` |
| `TerminalProofs!DeviceGetsInput` | `Spec => []Redirected` |
| `TerminalProofs!LineIsShown` | `Spec => []LineShown` |
| `TerminalProofs!UpThenDown` | `ArrowKeys` gives `Spec => []UpDown` |
| `LockProofs!LockTypes` | `Spec => []TypeOK` |
| `LockProofs!ThreadsExclude` | `Spec => []ExclusiveInProcess` |
| `LockProofs!HoldersHaveTheFile` | `Plain` gives `Spec => []HolderHasFile` |
| `LockProofs!FileGivenBackFirst` | `Plain` gives `Spec => []FileUnderMutex` |
| `LockProofs!AllExclude` | `Plain` gives `Spec => []Exclusive` |
| `LockProofs!LockImplemented` | `Plain` gives `Spec => Lock!Spec` |
| `HttpProofs!HttpTypes` | `Spec => []TypeOK` |
| `HttpProofs!AllTimed` | `Spec => []Timed` |
| `HttpProofs!ExchangeImplemented` | `Spec => Client!Spec` |
| `RouterProofs!HandlersGuarded` | `Spec => []Guarded` |
| `RouterProofs!RouterTypes` | `Spec => []TypeOK` |
| `RouterProofs!LeafIsFound` | `Spec => []LeafFound` |
| `RouterProofs!RouteIsFound` | `Spec => []RouteFound` |
| `RouterProofs!GreatestIsFound` | `Spec => []Greatest` |
| `BridgeProofs!PortTypes` | `OptionsSpec => []OptionsTypeOK` |
| `BridgeProofs!AppliedIsRead` | `OptionsSpec => []SettingsPreserved` |
| `BridgeProofs!NamesTaken` | `OptionsSpec => []ShownIsTaken` |
| `BridgeProofs!OptionsWait` | `OptionsSpec => NotImmediate` |
| `BridgeProofs!SessionsKeep` | `OptionsSpec => SessionKeepsSettings` |
| `AuthenticationProofs!OnlyKnownAccepted` | `NamesWithoutColons` gives `Spec => []AcceptedIsCurrent` |
| `AuthenticationProofs!KnownNotRefused` | `Spec => []KnownIsAccepted` |
| `AuthenticationProofs!SessionOfUser` | `Spec => []SessionNamed` |

Assumptions, each declared with its constant: `Control` is not a serial_state, the
empty string is not a device, a scan lists each device once, `Nobody` is no thread or
process, bounds are naturals; paths, targets, requests and found settings have their
types, and names, passwords and realms are texts over one alphabet; of the headers of other
clients nothing is assumed.  Some theorems have a condition of their own.  `Plain` says
that the mutex is not recursive and that `timed_lock` is not called; without it the
four theorems are false, as the claims `Exclusive` and `FileUnderMutex` of section 3
show.  `ArrowKeys` says that
the alphabet has the characters of the up and down keys; without them `UpDown` speaks of
keys that nobody can type.  `NamesWithoutColons` says that there is no colon in names and
realms, as RFC 7616 asks of user names; wspasswd does not check it, and with one, two
different users can have one hash, since `HA1` puts colons between its parts.
The runs that check these properties satisfy the conditions.

**Multiplexer.**  `EntryExclusive` is not inductive alone.  `Inv` adds: `Owned`,
that `m_state` points to an existing serial_state of the same session (so Ctrl-Q
and ~cli_handler settle the right object, and `TypeOK` is preserved); `Idle`, that
only an accepted session has one (so a new handler does not inherit one); and
`Numbered`, that ids of entries and of the references to them are below
`current_id`, so that a refresh, which takes fresh ids, leaves every old reference
dangling rather than aimed at a new entry.  The proof has one lemma for each of the
three ways to end an operation (`DestroySerial`, `Settle`, `HandlerOp`), one for
each action that touches objects, and `QuietInv` for the rest.

**Registry.**  Relative to `Inv`, `Registered` is inductive: `RegistryLive`,
`StateShown`, and ids below the counter.  The action property follows because the only
steps that lose a row of a live handler are refreshes, which take rows whose state
string is "serial", hence, by `StateShown`, sessions in the serial state.

**Registry: devices.**  Relative to `Inv`, `DeviceShownIsHeld` is inductive: a row loses
the serial_state that backs it only to `~serial_state`, which looks up the session of the
object that it destroys and clears whatever device the row shows.

**Lease.**  The holder of an entry is a `CHOOSE` over serial_states.  `EntryExclusive`
in the state before and after a step makes it unique, so it is enough to say which
objects refer to an entry.  `DestroySerial` maps to `Release`, to `Forget` (a stomp)
or to a stutter; `Connect` to `Acquire`, or a stutter on a stomped entry; `Refresh` to
`Replace`.

**Bridge.**  Each step of `Bridge` is a step of `WsQueue` or leaves its variables alone
(`BridgeIsWsQueue`), which gives what was proved of that.  `PipeInv` is for the queue of
the port, over all the times that it is entered: the invariants of `SerialPipe`, that a
write is never longer than the code it was started for (`WritesFit`), and that each code
given up cost the device at least one byte and no more than it has (`BytesCounted`),
which is what `OneWritePerCode` comes from, although `on_write` erases whole codes and
writes single bytes.  `LinkInv` adds to the invariant of `WsQueue` that every message on
its way has a source (`Known`) and that `m_buffer` holds what was read until `on_read`
has copied it (`ChunkRead`).  A read is then an arrival in `Fifo`, the peer's getting a
message a departure of what the message shows, and everything else a stutter.

**MultiprocessMutex.**  `Uses(t)` counts what `t` owes to the pthread mutex: the locks
it holds, and one for its call between getting the mutex and giving it back or
returning.  `MutexInv`: a thread with uses owns the mutex, locked at least as often.
"At least" is what survives the double lock after an owner's death.  It is inductive
for every kind of mutex and call, and gives `ExclusiveInProcess`.  Under `Plain`,
`FileInv` adds that whoever holds, or is about to return with, the lock has the file:
others cannot take it (`Lockable`), and the threads of its own process cannot give it
back, because that needs the mutex.  The holder of the abstract lock is the thread
that holds; only one thread moves at a time, so it never passes from one to another
in a step.

`FileUnderMutex` needs a part of its own (`UnderInv`): a thread that is about to give the
mutex back, in `unlock` or on an error path, has given the file back already.

**HttpServer.**  `Timed` is inductive with `TypeOK`, because whatever starts an operation
arms the timer.  For the refinement, `Counted` says of each connection that the numbers
answered are numbers of headers that were read, and those of requests grow; that `parser`
holds the last header read, answered by nothing yet, while a request is handled, or one that
was found in a body; and that, until a request with a body has been answered (`Torn`), the
answers are behind the headers by one while a request is handled and not at all
between two.  Between two requests bytes of a body are unread only where a connection is torn,
so `OnReadLeftover` happens on no other.  The number that `OnWrite` appends is
then one that `Exchange` allows: the next while nothing is torn, or a greater one, or 0.

**Router.**  For `Guarded`, what the trie finds does not matter: no route is registered
once a request has arrived, so both passes ask the trie the same question and get the same
answer (`SameMatch`).  The invariant carries "the middleware has accepted" from the first
pass into the second.

For the walk, each node is over the keys that begin with its label (`Over`), or over its own
key if it is a leaf.  Two nodes over one key are above each other (`Chain`); so the root is
over all keys, and no key is below two children (`ChildrenApart`).  Two children differ in
the character behind their parent's label, since otherwise the node where their keys part
would be between (`RanksDiffer`); so an inner node always has one best child.  `OnTheWay`
says that the keys below a node have the one with the most in common among them, and the
target if it is a key.  A step down keeps it (`StepKeeps`): a child with less in common than
the best one can only hide a better key if its label is all in the target, and then it is
above the best one or a leaf.  Labels grow on the way down and the table's are bounded, so
the recursive function exists (`WalkExists`) and ends at a leaf (`WalkEnds`).

**PortOptions.**  `Kept` says that a device which was given options by a connect is
what `Create` makes of some termios; `ReadBack` that scanning this gives the options
again, whatever the termios was, by going through the four steps of `Create` one by one
(`CreateFields`) and through the two lists of speeds (`ReadRight`).  `OneEntry`, that no
device has two entries, comes from the scan listing each once and `Refresh` clearing
the table, and gives `SessionKeepsSettings`.

**Terminal.**  A message is a fold of `Step` over its characters, and the fold a recursive
function, whose existence `FedSteps` proves; `FedInd` then gives of a message what holds of
each character.  `Good` is the invariant of a step.  `Reading`, that the calls and the
open sequence, encoded again, are the characters typed, is not inductive alone: it needs
to know that the open sequence cannot have ended yet (`Open`), that is, no final character
in a CSI sequence, and no ESC before a backslash in a string.  `PassedOn` says that the
device has what the calls pass on.  There is one lemma for each feed function
(`FeedTextGood` and the others) and for each of the two overrides (`ControlGood`,
`SerialGood`).  `Shown` relates what the terminal shows to the line and the prompt while
`Seen` holds, and adds that the line and every command that may be recalled are made of
characters that the terminal shows, so that each is its own echo (`EchoedIs`).
`UpThenDown` follows the six characters of the two keys.  The proof has corrected the
model in one place, where two guards of a CASE in `SerialState` overlapped.

**Authentication.**  `Inv` says of an answer that some header explains it: the header was
sent by the one the answer went to (`Sent`), and if he was let in, digest_auth admits it
with the hash that the server still holds (`Admitted`); of the file and of the server,
that they hold nothing, an empty text or the hash of something written (`Held`).  That is
inductive whatever the parser does, because the server reads the file only when no
request or answer of an earlier one is left.  What the parser does makes up the lemmas.

A browser that was let in has rendered its header around its user's name, which may hold
", " and whole fields.  `AnsweringRead` says what the parser reads all the same: whatever the
name is, if the header parses, then its nonce, uri and response are those that stand behind
the name.  The words behind a ", " do not depend on what is before it (`CutsBehind`,
`WordBehind`, `TailWords`), and of two fields with one key the map keeps the later
(`TailFields`), so no field in the name can replace them.  The response is thus the browser's
own digest, and digest_auth has compared it with one of the hash that the server holds.
`ExpectedOnce` takes the two digested texts apart, whose hashes are one character each or
nothing; so the server's hash is the browser's, and not the empty one.  `HashOnce` does the
same with user, realm and password, by the first colon and the second (`Separated`).

The converse runs the parser on what a browser renders.  `SplitFirst` finds the first word
of a text at the first ", "; `EscapedPlain`, by induction over the name, that escaping
makes no new one; `ListingWords` then has the five words, `QuotedField` the key and value of
each, whatever marks the value has, and `ParseListing` the fields (`FieldsAre`).
`KnownNotRefused` and `SessionOfUser` both rest on it.  The proof has corrected the
property `SessionNamed`, whose condition on the name it had not had.

**Induction.**  The provers cannot instantiate the library's induction theorems, which
have operators as parameters.  `SequenceLemmas` has them with sets instead: `NatInd` for
a set of numbers, `SeqInd` for a set of sequences.  What the proofs need of `FlattenSeq`
and of recursive functions is proved from these.

**Only model-checked**: the liveness properties (TLAPS does not prove liveness under
fairness): `ClosedIsDestroyed`, `CancelledIsDestroyed`, `TryReturns`, `Accepted`,
`SessionEnds` and `ReadIsShown`.  All invariants, action properties and refinements that the
runs check are proved.

## 5. Plan

Done: session core, queues, the bridge between them, mutex, HTTP side, authentication
and its tool, terminal with its menus, router, options, and the theorems about all of them.
Left is `HttpServer` composed with `Multiplexer` through `Upgrade`: a connection that is
reset between the upgrade and the handshake.

### Not modelled

* Logging: its output is not read by anything; the one line that a document promises
  something about, ncsa_logger's, is in `Authentication`.
* Formatting (`ansi`, `fmt`, tables, logo, help) and the texts of pages and errors: no
  property is about them.  The control characters and the kinds of escape sequences
  of `ansi.hpp` are in `Terminal`.
* Options: Boost.Program_options parses them; what main does with them is in
  `HttpServer` (the choice of the listener), `Router` (the routes) and `Authentication`
  (the file).
* The library `cli`: which words name which command.  Commands are actions or choices.
* The files that serve_files sends, and `serial.cpp`'s reading of `/dev/serial`: I/O.  Its
  answers, and what it does to termios settings, are in `Authentication` and `PortOptions`.
* The TLS context: it loads three files before the loop starts, or ends the program.
* The arithmetic of MD5, third-party code: `Md5` is a hash without collisions.
* The browser side, build files and assets.

## 6. Running

    tlc -config mux.cfg MCMultiplexer
    tlc -config bridge.cfg MCBridge
    tlc -config pipe_paste.cfg MCSerialPipe
    tlc -config lock.cfg MCMultiprocessMutex
    tlc -config http.cfg MCHttpServer
    tlc -config terminal.cfg MCTerminal
    tlc -config router.cfg MCRouter
    tlc -config ports.cfg MCPortOptions
    tlc -config auth.cfg MCAuthentication
    tlapm MultiplexerProofs.tla
    tlapm BridgeProofs.tla
    tlapm TerminalProofs.tla
    tlapm AuthenticationProofs.tla

`CHECK_DEADLOCK FALSE` is set in the runs of the server: it may be idle, and the
bounds on the counters end every run.  The runs of the mutex check for deadlock.
`mux` and `bridge`, the longest, take two to three minutes; `MultiplexerProofs`,
`BridgeProofs` and `AuthenticationProofs` are the longest proofs.
