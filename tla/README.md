# TLA+ models of msysGit

msysGit is the build environment of Git for Windows: a tree of ported programs and libraries, the
scripts that build and release them, an installer, and a few small programs of its own. This
directory holds TLA+ models of the parts of its own code that have state worth checking, the TLC
configurations that check them, and proofs for TLAPS.

The program with the most behaviour is `connect` (`src/src/connect/connect.c`), which ssh runs as a
`ProxyCommand`: it opens a connection through an HTTP, SOCKS or telnet proxy and then relays bytes
in both directions. It is modelled first. All line numbers below without a file name are lines of
`connect.c`.

## Inventory

| Component | State it keeps | Operations | What is hard | What makes it correct |
|---|---|---|---|---|
| connect: repeater (2612-2769) | two buffers with their lengths, `f_local`, `f_remote`, the read set, the reason to end | one loop: select, receive, read, send, write | two peers move between any two steps; short reads, sends and writes; each end may close first; -P leaves early | both streams arrive complete and in order; half close; it never waits for nothing |
| connect: port forwarding (2772-2845, `main`) | listening socket (static), queue of the port, client, remote session | listen, accept, connect, relay, wait again | clients come while others are served; the socket of an earlier wait; standard input is watched too | a held session is one stream across clients; the program goes on waiting; it stops when told to |
| connect: HTTP proxy (1906-1954, 2309-2510, retry loop of `main`) | line buffer, `relay_host`, `relay_port`, `proxy_auth_type`, password | open, request, status, redirect, challenge, skip, retry | answers in pieces with the tunnel's bytes behind them; long lines; retries; the proxy leaves | the tunnel starts exactly behind the header; credentials are tried once; it ends |
| connect: SOCKS (1849-1904, 2007-2051, 2124-2307) | stage, `dest_addr`, bytes still to come | resolve, greet, authenticate, connect, read the answer | answers in pieces; addresses of three forms; three ways to resolve | the tunnel starts exactly behind the answer; the right target is asked for |
| connect: telnet proxy (2512-2573) | line buffer | send a command, look for phrases | phrases split by the end of the buffer | good and bad answers are told apart |
| connect: direct list (811-1113) | table of 256 addresses and names | fill from the environment, look up | first match decides, negative entries, masks | a destination is relayed unless the list says otherwise |
| connect: options, parameters, passwords, base64 | tables | parse | string handling | - |
| WhoUses: holders of a file (`src/src/WhoUses`) | a snapshot of the handles of the system, the list of those that are files, the name asked for last | read the table, ask each handle for its type and its name, the latter in a thread with 100 ms | handles are closed and opened again between any two questions; a late answer against the end of the thread; a question that does not come back | what is shown holds the file; what holds it is shown; it ends |
| WhoUses: modules, windows, threads | lists | one pass each | - | - |
| depends (`src/src/depends`) | a list of files found per directory | recursive search, merge, look into each image | one failing directory of many; lists are merged and freed | every file of the tree is looked at once |
| git-wrapper, getcp | - | one pass | quoting | - |
| installer: processes that lock files (`install.iss`, `modules.inc.iss`) | Restart Manager session, list of processes, wizard page, the shell extension and its `.new` file | refresh, skip, next, shut down, restart, replace a file in use, the uninstaller's form | processes come and go between a refresh and its use; sessions that are not ended; one of several steps fails | nothing that runs is replaced under it without consent; what is closed can be restarted; the user is told what is left to do |
| installer: environment (`install.iss`, `environment.inc.iss`) | the variables in the registry, the record in `setup.ini` | set and take back at each installation and removal | the user changes variables in between; writes fail; the record grows stale | the user's values survive; nothing of setup is left after a removal |
| installer: the other steps | - | links, shortcuts, menus, fonts, PuTTY | - | - |
| msysGit scripts (`src/share/msysGit`) | git's own repository | finish a checkout, merging rebase, set up, release | locked files, a base that must be found again | - |
| everything else | vendored or generated: `lib`, `mingw`, `share/vim`, `libexec`, binaries, recipes for other projects | | | |

Interactions. Inside `connect`, `main()` calls `accept_connection()`, `check_direct()`,
`open_connection()`, one of the negotiations and `do_repeater()`, which share the socket `remote`
and the globals for host, port, method and authentication; a negotiation asks for a retry by its
return value, and `do_repeater()` asks for another wait by the reason it returns. The bytes that a
negotiation leaves unread are what the repeater reads first. The other programs do not call each
other; the installer runs over the files the scripts release, and its two parts meet in the order of
its steps only: first the processes, then the environment, then the file in use, then the restart.

## Modules

| Module | What it is |
|---|---|
| `Duplex` | abstract: a pair of bounded first-in first-out pipes that ends complete or is broken off |
| `Repeater` | `do_repeater()` and its two peers |
| `Forwarding` | `accept_connection()` and `main()` around a `Repeater` (it EXTENDS it: the local peer is the client being served) |
| `LineInput` | `line_input()`: lines of a stream that arrives in pieces, in a buffer of the caller |
| `HttpRelay` | `begin_http_relay()`, `basic_auth()`, the retry loop and the alarm, on `LineInput` |
| `Socks` | `begin_socks5_relay()`, `begin_socks4_relay()`, user/password, `atomic_in()`, resolving |
| `Direct` | the list of direct destinations: how it is read, and `check_direct()` |
| `Telnet` | `main()` from the list to the connection, and `begin_telnet_relay()`; on `Direct` and `LineInput` |
| `WhoUses` | `WhoUsesFile()`: the table of handles, the questions for type and name, the thread with the time limit |
| `Environment` | the variables setup changes, and what it notes in `setup.ini` |
| `Setup` | the installer and the uninstaller around `Environment` (it EXTENDS it): processes, Restart Manager, file in use |
| `RepeaterProofs`, `ForwardingProofs`, `HttpProofs`, `SocksProofs`, `TelnetProofs`, `WhoUsesProofs`, `SetupProofs` | theorems about the module each is named after; `ForwardingProofs` uses the lemmas of `RepeaterProofs` |
| `LineInputProofs` | lemmas about `line_input()`, which `HttpProofs` and `TelnetProofs` use |
| `MCRepeater`, `MCForwarding`, `MCHttpRelay`, `MCSocks`, `MCTelnet`, `MCWhoUses`, `MCSetup` | instances for TLC |

Some modules define variants beside an action or an operator (`RecvEndKeepsLocal` beside `RecvEnd`,
and so on; the comment says "Variant"). They are plausible mistakes in that piece of code. Each is
put in place of the original to see that the properties notice it; nothing else uses them.

### Repeater

`pc` is the position in the loop; a turn is the steps `Select`, `RecvRemote`, `ReadLocal`,
`SendRemote`, `WriteLocal`, in this order. Everything else between two system calls is part of the
step. `lbuf` and `rbuf` are the first `lbuf_len`/`rbuf_len` bytes of the arrays; bytes are numbered
in the order their producer wrote them. `ifds` is kept from `Select` to the two reads, as in the
code, so what it says may be out of date: `LocalIsSet` does not look at `f_local` again.
`toRemote`, `toLocal` are histories. The peers (`LocalWrites` ... `RemoteTakes`) are external.

* `Polling` is the Win32 build with a standard input: `select()` gets 10 ms and `stdindatalen()` is
  asked afterwards, without a look at the room in `lbuf` (2676).
* `ShortIO`: a `send()` or `write()` takes any number of bytes from 1. Without it, it blocks until
  the receiver has room for all (the sockets and pipes are blocking). `Window` is that room.
* `Faults`: system calls may fail and the remote may reset the connection. A failed `recv`, `send`
  or `write` is `fatal()`; a failed `select` returns.
* The `memcpy` calls overlap (2740, 2756), which C leaves undefined; they are modelled as the
  forward copy that the run-time libraries of the build perform.
* Not modelled: reading a console after `_kbhit()`, which may block for a line; the debug output.

### Forwarding

`mpc` is where `main()` is. `listeners` counts the listening sockets the process has made: `sock`
is static and overwritten, the sockets of earlier waits are never closed (2785). `queue[s]` holds
the connections that the system has completed on listener `s`. `Win32` says whether a second
`bind()` to the port succeeds: on Winsock `SO_REUSEADDR` allows it, and which listener gets a new
connection is not specified; elsewhere it fails. A wait is two calls, which are two steps:
`select()` (`GiveUp`, `Stimulated`), where standard input is looked at before the socket, and `accept()`
(`Accept`), which blocks until a connection is there. Between them standard input may end, or the client
may leave (`ClientAborts`); on systems that take its connection off the queue then, `accept()` waits for
another one and does not see the end of standard input, although the wait is "with watching EOF of
stdin" (2802): a weakness that `StdinEndsSession` leaves out, since it begins while a client is served.
Either call may fail, which is `fatal()`. `Accept` starts the repeater's variables again, as
the call of `do_repeater()` does, and the histories go on: bytes of successive clients are numbered
in one stream. Input on standard input other than its end is read and dropped, and is left out.
The loops that time out after 100 ms on Win32 are the same as waiting.

### HttpRelay

A line is a sequence of tokens: words and the delimiters the code looks for (`:`, `/`, blank, CR,
LF). Case is left out (the code compares case-blind or lowers the line). `Size` stands for the 1024
bytes of `buf`; a line ends at LF, at `Size - 1` tokens or at the end of the stream, and `buf` keeps
what is behind the NUL, as in C. `relay_host` after a redirect is `host_at`, a place in `buf`; when
`begin_http_relay()` has returned, the name is either what was there or garbage (`Retry`), since the
memory is no longer the function's. The password is erased where it came from (`Request`).
An answer arrives in pieces of any length, with the first bytes of the tunnel directly behind it.

### Socks

Byte by byte: the requests as they are put together and the answers as they are taken apart.
`In(n)` is `atomic_in()`; it is one step when `n` bytes have arrived, because the calls of `recv()`
in between change nothing that anyone else sees. `InFails` is its two fatal ends. The server
conforms to the protocol: it picks a method that was offered or 255 and sends whole messages, with a
bound address of any of the three forms. `owed` is the message it still owes. User names, passwords and destinations
that do not fit into one byte or into the buffers of 256 bytes are excluded by assumptions on the
constants, and so are bound names of 250 bytes and more: `buf` has 256 bytes, the
name and its port are read to `buf + 5` (2224), and nothing compares the length with the room.

`-R both` is the same as `-R remote` (2909), although the help says that it tries to resolve here first
(94-95, 2248-2249); `TargetIsAsked` is about the other two keywords.

### Direct and Telnet

`Direct` has the state of `main()` before it connects: the method the options ask for, the list and
the destination. A text of the list is a sequence of tokens, so that the parsing of the code is
there: numbers with dots between them, the three forms of a mask, and whatever is not an address is
a name (`MaskOf`, `Entry`). A number is a token with a value (`Number`); an octet is its value modulo
256. A destination is an address if `inet_addr()` takes it for one: one to four numbers, decimal,
octal or hexadecimal, of which the last fills the octets that are left (`inet_addr`); what a token
stands for there is the constant `Numeral`, since the parser of the list reads the same token with
`atoi()`. `initialize_direct_addr` is one step: nothing else runs. Splitting at commas is left out: a list
is a sequence of texts. `n_entries` (957) is never counted up, so the only limit is that of the
table. `Telnet` adds the connection: a direct one starts relaying, a telnet proxy is asked and its
answer searched line by line (`Verdict`), and the other methods end in `"negotiating"`, where
`HttpRelay` and `Socks` begin. The proxy writes its lines and, behind one with the good phrase, the
tunnel's bytes.

`Covered` says what a text stands for, with no regard to how it is parsed: a number of octets of which
certain bits count (`CoversAddress`), or a name (`CoversName`). A mask can be four numbers, a number of
bits up to 32, or as many octets as there are; what stands behind it does not count, and a text with a
dot in front of the "/" is such an address only if it has four numbers, otherwise a name. `MCTelnet` has
a table, by hand, of the examples in the comments of `parse_addr_pair()` and `domain_match()`, and its
`MCMeaning` compares `Covered` with it. `EntriesMatch` compares `Covered` with the entry that the parser
makes of the text and its test of a destination, which goes from left to right, keeps octets and a mask
and compares bytes under it; `FirstCoverDecides` compares it with how the list is built and searched. The
exception of both is a weakness of the code: an empty text, from a comma too many or an empty variable,
is parsed as an address without octets (893), whose mask is 0, so that every address matches and goes
past the relay.

### WhoUses

Line numbers are of `SystemInfo.cpp`. `table` is the result of the second
`NtQuerySystemInformation()`; the first only gives a size, and the second fails when the table has
grown since (`Snapshot`). `Filter` is one turn of the loop that keeps the entries of type `File`;
`GetType`, `GetNameByType`, `Waited`, `Query` are the questions of `GetName()` in their order, each
with the processes moving before it. The thread of `GetFileName` has two steps, `Answers` and
`Assign`, because it writes into the string of its caller while that may be giving it up; `Timeout`
has the three things that `TerminateThread()` may leave: nothing, the whole answer, or the lock of
the heap. An object is its own name, and `Unlisted` are those of a type
`GetTypeFromTypeToken()` does not know (626): they are not asked for a name, and the name of the entry
before is left. What a handle stands for changes by `Changes`: closed, or
opened again as something else.

The properties name the weaknesses of the code as exceptions. The results of `GetName()`
(`WhoUses.cpp:128`) and `GetTypeToken()` (483) are ignored, so that what cannot be asked is shown
whenever the entry before it is. The text the thread leaves is the record with its length in front,
so a name of a multiple of 256 bytes (128 characters) looks empty, which is taken for access denied.
An entry whose thread was given up is passed over. And the program waits for ever when the thread
was terminated with the lock of the heap, or when a file stops answering between the thread's
question and its own, which has no limit.

Left out: the branch for handles of the own process, the special cases of NT4, the names of
processes, and conversions of device names.

### Environment and Setup

`Environment` is the sequence of steps "Modify the environment" of `CurStepChanged()` and
`CurUninstallStepChanged()`, with a set `broken` of the variables that cannot be written (each
failure is reported and the rest goes on). Values are sequences of texts, as `GetEnvStrings()`
returns them, so that `PATH` is a sequence of directories. `own`, `writer`, `written` and `lost` are
histories for the properties.

`Setup` has a `phase` for each place where setup waits for the user or calls the system:
"wizard" and "page" before the installation, "install", "copying", "post", "replace" and "restart"
in it, "uninstaller", "form" and "uninstall" for the other program. A refresh is one step, since
nothing between its calls is looked at by others; its calls may fail. Processes start and exit
between any two steps (`fresh` is what started since the last refresh). The two ways to find
processes, before and since Vista, are both there.

`MCSetup` lets a behaviour move the processes or the environment, not both (`moving`). They share
nothing but `phase`, and all interleavings of both would multiply the states.

Weaknesses of the code that the properties name or that the model shows: each refresh starts a
session and the one before is never ended; a session handle of 0, which is legal, is taken for a
failure; when a session cannot be started the list is empty and "Next" works; what was shut down is
not restarted when copying is given up, nor when `RmRestart()` fails, whose result is ignored (`Restart`
brings back any of the processes or none); `setup.ini` keeps a note of a value that was taken back; and
where the registry key has no `PATH` the value the process sees is written into it.

Left out: the layout of the page, the message texts, links, menus and shortcuts, the wizard's other
pages, the old file under its temporary name, the reboot flag of the uninstaller, and a variable
that another program changes while setup runs.

## Runs

| Run | Result | Bounds | Question |
|---|---|---|---|
| `Repeater.cfg` | holds | buffers of 2, 3 bytes each way, window 2, polling, faults | Does the repeater with whole sends and writes implement `Duplex`; is the write side shut down only after the last byte (`ShutdownAfterLastByte`); is everything written that the remote sent before it closed (`RemoteStreamComplete`); does half close work (`HalfCloseKeepsRelaying`); is every byte delivered or the relay ended, and does the end of the remote end it? |
| `RepeaterShort.cfg` | holds | the same without polling, 4 bytes from the remote, short sends and writes | Types and buffer bounds; the stream towards the remote in order (`LocalToRemoteInOrder`); never a `select()` without the remote (`RemoteAlwaysWatched`) |
| `RepeaterShortWrite.cfg` | **violated** | 3 bytes from the remote | `RemoteToLocalInOrder` with short writes |
| `Forwarding.cfg` | holds | 2 clients, 2 bytes each way, -P, Win32, faults | The held session across clients (`HeldStreamsContinue`), the bound on listeners, a client that leaves ends its repeater (`ClientLeavesRelay`), and the session when standard input has ended (`StdinEndsSession`) |
| `ForwardingPosix.cfg` | **violated** | 2 clients, no faults, not Win32 | `RepeatsWaiting` |
| `Http.cfg` | holds | `Size` 15; lines of up to 18 tokens; 200, 302, 401, 403, 407 and malformed answers | Tunnel start, one authentication, Basic is answered when it is offered (`BasicIsAnswered`), end of the negotiation |
| `HttpPassword.cfg` | **violated** | a proxy that asks for Basic and then redirects | `PasswordIsSent` |
| `Socks.cfg` | holds | versions 4 and 5, three ways to resolve, three method lists, names of 0, 2 and 249 bytes | Tunnel start, the target that is asked for, end of the negotiation |
| `Telnet.cfg` | holds | 22 lists, ten destinations, a table of 2, `Size` 9, eight answers | What an entry of the list matches (`EntriesMatch`); which destinations are relayed (`FirstCoverDecides`); tunnel start; a refusal is believed |
| `WhoUses.cfg` | holds | 3 handles, one of a refused process; five kinds of object; 1274736 states | What is shown has held the file (`ReportedHolds`), what holds it is shown (`OpenIsReported`), it ends (`Finishes`) |
| `Setup.cfg` | holds | 3 processes, 2 sessions, one of the two ssh variables, three values of each variable; 234080 states | Nothing that must be closed runs while files change, only what was agreed to is closed (`OnlyAgreedIsClosed`), by a session that is there to restart it (`ClosedCanRestart`), the manual steps suffice, the user's variables survive (`UserValueKept`, `PathKept`, `NothingLeft`) |
| `SetupRestart.cfg` | **violated** | as `Setup.cfg` | `ListedComeBack` |

Why the bounds are enough. With a buffer of two bytes there are an empty, a partly filled and a full
buffer, and a short write leaves less, as much or more than it took only from three bytes on or in
consecutive turns, which three bytes per stream allow, four towards the local output in the run with
short writes; the proofs cover every size. Two clients give
one wait that follows another, which is what differs from the first. `Size` 15 makes each kind of
line there is: shorter than the buffer, cut anywhere, and cut just before its CRLF. Three handles let one be opened behind, at and
before the one that is asked, with an entry before it whose name may be left over. The three
processes are one of each kind: with the core files, with the shell extension, and with both but
refused; two sessions are enough to run out of them at the second refresh. The retry loop
of `HttpRelay` is not bounded: its state repeats. The deadlock check is off because the programs
end.

### What the violated runs show

* `RepeaterShortWrite`: `rbuf_len -= len` comes before `if (len < rbuf_len)` (2754-2756): the rest is
  moved to the top only if it is longer than what was written. After a write of one of two bytes the
  first byte is written again and the second is lost. The other direction (2738-2740) is right, and
  `LocalToRemoteInOrder` is proved. Blocking pipes and sockets take everything at once, so this shows
  when the local output is one that does not.
* `ForwardingPosix`: see `Forwarding` above; the header says that the program repeats waiting.
* `SetupRestart`: the user agrees to have the listed applications "closed and restarted automatically"
  (`install.iss:795`); one is closed, a file cannot be written, and the installation is given up:
  `RmRestart()` is only called after a complete one. That it may fail unnoticed is a second way.
* `HttpPassword`: the second connection of a run sends an empty password.

### What the properties except

Several properties hold because they name a weakness of the code, or a peer nobody can rely on, as an
exception; they say nothing about that case, and PROJECT.json notes it at the hazard. `ShutdownAfterLastByte`
is about whole sends: bytes that a short send has left in `lbuf` are lost when the write side is shut
down. The liveness properties of the repeater assume peers that go on reading: the sends block, and one
that does not read holds up both directions. The exceptions of `WhoUses` and `Setup` are in their sections
above.

The exceptions that the properties of `HttpRelay` name are weaknesses of the code too. `CutBeforeEol`:
a header line whose text has a multiple of 1023 bytes ends the header early, and the rest of it goes
to the user. `Spins`: a proxy that closes within the header leaves the program in a loop that reads
empty lines, for ever in a build without the alarm, as the one for Win32. And a redirect is not
followed to where it points: the port is always 0 (2448), since the name has already been cut off.

## Fairness

`Repeater`: weak fairness of each of the five steps of the loop (the thread runs; a step that can
block, such as a whole send without room, is enabled only when it does not) and of the peers' reading.
Nothing makes a peer write or close, and no fault has to happen. `Forwarding`: the same, for the steps
of `main()`. Steps that a system call failing would take are not forced, except that a relaying step
that may fail or succeed has to do one of the two. `HttpRelay`, `Socks`: the program runs, and the
proxy answers and its answer arrives unless it leaves. Fairness is not assumed of the alarm: it is an
option, and the Win32 build has none.

`Telnet` states none: its properties are about safety, and the loop over lines ends with the stream.

`WhoUses`: the program is scheduled (`Main`). The thread, the files and the other processes are not
forced to do anything. `Setup` states none: its properties are about safety. In `Forwarding` nothing
makes a client connect, stay in the queue or leave.

## Proofs

`RepeaterProofs` proves, for every buffer size, window, length of the streams and option:

* `TypeCorrect`: `TypeOK`, which is inductive as it stands.
* `OrderTowardsRemote`: `LocalToRemoteInOrder`, with short sends. Inductive with the types: a read
  appends the next bytes to `lbuf`, a send moves a prefix of `lbuf` to `toRemote`, and
  `(a \o b) \o c = a \o (b \o c)`.
* `RemoteWatched`: `RemoteAlwaysWatched`. It is not inductive: that a turn ends with room in `rbuf`
  and with `f_remote` set follows from where the loop is. The strengthening `Watching` says, for each
  position of `pc`, that `f_remote` is cleared only together with `f_local`, and that a write leaves
  room.
* `FullWritesInvariant`, assuming `~ShortIO`: `FullInv` says that both buffers are empty at `select`
  and what each may hold at each later position, that both streams are in order, and that the
  shutdown came after the last byte. From it `OrderTowardsLocal`, `ShutdownIsLast`, and
* `Implementation`: every step of the repeater is a step of `Duplex` or leaves its state alone, under
  the mapping `Contract`. `FullInv` is needed for the last step: a repeater that returns must have
  empty buffers for the abstract one to finish.

* `StreamComplete`: `RemoteStreamComplete`, and `HalfClose`: `HalfCloseKeepsRelaying`, both from
  `Endings`: `f_remote` is cleared only by the end of the remote or by -P, and the reason says
  "closed by remote" only when all that it sent was received or lost in a reset.

The assumption `~ShortIO` is necessary: `RepeaterShortWrite.cfg` is the counterexample without it.
The assumption on the constants is `RepeaterAssumption`, which TLC evaluates in every run of
`Repeater` and `Forwarding`.

`ForwardingProofs` proves `SessionContinues`, that is `HeldStreamsContinue` for any number of clients.
The invariant `HeldInv` joins those of the repeater to `BetweenClients`: while `main()` waits, the
repeater has returned or begins anew, and the write side is open. A step of the repeater, of a peer
or of `main()` alone is then one of the cases of the lemmas in `RepeaterProofs`; a new client starts
with the buffers that `FullInv` says are empty. `PortTypes` proves `ForwardTypeOK`, with short sends
and writes too, and with it that listening sockets, which are never closed, are at most one more than
the clients accepted. `PortInv` adds to the types that a client stands in one place of one queue
(`QueuedOnce`), also when others leave in front of it, so that each one accepted is new, and that `main()` makes a socket only when a client
has left since the last one (`Listening`). The assumption is that the clients are finitely many.

`LineInputProofs` has the lemmas about `line_input()`, for any stream and any size of the buffer.
`LineFacts` says what a call reads: up to the first LF, to `Size - 1` tokens or to the end of the
stream; `LineIs` what it leaves in the buffer and returns. `Aligned` says where a line begins: at the
start of the stream, behind an LF, within a line that is too long, a multiple of `Size - 1` behind its
beginning (`CutAt`), or at the end of a stream that was closed. `NextAligned` and `ReadAligned` show
that it is kept by every call, and `WholeLine` that a line that fits is read from its first byte to its
last.

`HttpProofs` proves, for any proxies whose answers are of the form that the assumptions name, however
the answers arrive:

* `OnceOnly`: `AuthenticatesOnce`. The retry that counts comes when the type has been set to "basic",
  and with that type no challenge is looked at.
* `TypeCorrect`: `TypeOK`, from `Typed`, which adds that a line with its NUL fits the buffer and that
  `pos <= arrived <= Len(reply)`.
* `TunnelStart`: `TunnelStartsAfterHeader`. The invariant is `Typed /\ Shape /\ Reading`. `Shape` is what
  is known of the answer on the wire: its status is the third token, and the header of a 200 answer has
  one empty line, the last. `Reading` says where the program is in it: while it skips the header of
  such an answer it is `Aligned` and in front of the empty line, or at the end of what a proxy sent
  before it left. An empty line read before the header ends is then the rest of a line that was cut just
  before its CRLF, which is the exception `CutBeforeEol`.
* `BasicAnswered`: `BasicIsAnswered`. `Offering` is added: while a challenge is read, a line that has been
  passed, fits the buffer and offers Basic has set the type. The lemmas `Prefix` and `SchemeIs` say that
  `expect()` and `cut_token()` find the scheme in such a line, and `NextLine` that it is read as one
  line, since reading is `Aligned` in front of it.
* `NegotiationAdvances`: a step of the program goes to a later stage, reads on in the header, begins anew
  behind a redirection or, once, for credentials, or reads an empty line at the end of what a proxy
  that has closed the connection has sent (`Spins`); nothing the proxy does takes the program back. With
  `pos <= Len(reply)` these are the two exceptions of `NegotiationEnds` and no others.

`SocksProofs` proves, for every pair of version and way to resolve, every method list, name, address
and user that fits one byte of length:

* `TypeCorrect`: `TypeOK`. `pos` stays within what has arrived, because a stage reads `need` bytes
  only when they are there.
* `TunnelStart`: `TunnelStartsAfterReply`, from `Framing`, which says at each stage how many bytes of
  the answer are left: nothing is unread when a request goes out, two bytes of a method, seven and a
  length that depends on the address form in a SOCKS5 answer, eight in a SOCKS4 answer.
* `TargetAsked`: `TargetIsAsked`, from `Asking`: `dest_addr` is what was resolved, and the request on
  the wire is the one put together from it. Its hypothesis is that the address does not begin with
  three zeros, since SOCKS4a takes such an address for the sign of a name (0.0.0.0/24 is no host).
* `NeverStarved`, from `Framing`: while `atomic_in()` waits, the server has still to answer, or all the
  bytes that are waited for have been sent; and each step of the program goes to a later stage.

`TelnetProofs` proves, for any size of the buffer, any list and any answers that end with a line and
have the good phrase in the last line only:

* `Refusal`: `RefusalIsBelieved`. Reading is `Aligned`, so that a line that fits is read whole, and what
  the buffer holds up to its NUL is the line (`ReadBack`), so it is searched for the phrases whole.
  `TelnetAssumption` says that the proxy sends no NUL, behind which `strstr()` would not look.
* `TunnelStart`: `TunnelStartsAfterLine`. `Tunnels` adds that a program that still reads is in front of
  the end of the line that grants the tunnel; `LineSays` says that a line in which a phrase is found
  has the phrase on the wire, so that only the last line ends the loop well.
* `TypeCorrect`: `TypeOK`, with the limit of the table. `Choice` says what the list and the method are at
  each position: the list is the table of the texts asked for.
* `EntriesCover`: `EntriesMatch`, for every text and every destination. `CountDotted` says that the parser
  counts the numbers which stand there, `FormInFront` and `FormBehind` which of the forms it has found
  when it stops, and so `MaskWritten` that the mask it makes is the one written, or none. Equal bytes
  under a mask are equal bits where the mask has one (`SameMasked`, from `SumOfWeights`), and the mask of n
  bits has the leading n (`LeadingBitsSet`). For names, `DomainIs` says what `domain_match()` finds by
  reading both from their ends.
* `FirstCover`: `FirstCoverDecides`, for every list, every length of the table and every destination, from
  `EntryCovers`, which says of one text what `EntriesCover` says of all; the rest is the limit of the
  table, the order of the search, "!", and the options.
* `ConnectingAdvances`: each step of the program goes to a later stage or past a line of the answer, since
  an empty line, which is the end of what a proxy that has left has sent, ends the loop (`ReadOnward`).

`WhoUsesProofs` proves, for any number of handles and any objects:

* `TypeCorrect`: `TypeOK`; the entry that is asked is one of the list.
* `Holders`: `ReportedHolds`, from `Credits`: a name that is left over is that of the entry before,
  which was shown, and the object that is asked was seen behind the handle after the snapshot.
* `Openers`: `OpenIsReported`, from `Complete`: a handle that has stood for a wanted file since the
  snapshot is in the table or in the list, has the type "File" when it is asked, and is the object
  that is asked for its name.
* `StepsBounded`: at most `5 N + 3` steps of the program, whatever the other processes do. `Left` is what
  is left of them; each step of `Main` lowers it, none of the thread or of others changes it. `Placed`
  bounds the places in the table and in the list, and the length of the list.

`SetupProofs` proves, for any set of processes and any values of the variables:

* `RequiredClosed`, `AgreedClosed`: from `ListInv`, which relates the list to what runs: who is not in
  it could not be known of (`CoreIsListed`, `AllAreListed`), and no step of the installation is
  reached past a list with an entry that must be closed (`Asked`).
* `ClosedRestartable`: `ClosedCanRestart`, from the parts `Closing` of `ListInv` and `Sessions` of the
  types: processes are closed under a handle greater than 0 only, no step between that and `Restart`
  makes another list, and such a handle is that of a session that was started. That they are then
  brought back is not the case (`SetupRestart.cfg`).
* `ManualSteps`: from `Steps`; the advice stands until setup is started again.
* `RemovalComplete`, `UserKept`: from `EnvInv`: a variable setup has written has the value of its
  note (`Noted`), and every note was once written (`Origins`).
* `PathStays`: `PathKept`, over any number of installations, removals and changes by the user.
  `Foreign()` selects the directories that are not setup's by a loop over the value; that the recursive
  function which stands for the loop exists and takes its steps is `KeptExists` and `KeptIs`, and what
  it selects is shown by induction over the places (`CountUp`, from the well-foundedness of `<`):
  it keeps the directories of others (`ForeignKeeps`) and cuts setup's own at the end (`ForeignCuts`).
* `TypeCorrect`: `TypeOK` of `Setup` and of `Environment`, with the bound of the sessions: `Sessions` says
  that a handle stands for a session that was started.

Every assumption on constants is a named `ASSUME` of the module that declares them, and TLC evaluates
it in the runs of that module.

Those that say more than that a constant is of some kind: the two `AnswersAssumption` are about the
server at the other end, which the repository does not contain: the answers that the modelled proxies
give are texts without a NUL, an HTTP answer begins with a version, one blank and a status or has no
blank in its first line, and a telnet proxy's good phrase is in the last line of its answer.
`EnvironmentAssumption` says that the names of the variables and of the ssh programs are different, as
the installer's are, and that the user does not put a directory of the installation into `PATH` twice,
without which nothing is promised about that. `DirectAssumption` says that a dot and a slash are not
numbers, that a number for `inet_addr()` has one to four octets, and that no text has the token that stands for the NUL behind it.

Model-checked only:

* liveness, since fairness and ENABLED are out of the prover's reach: `LocalByteDelivered`,
  `RemoteByteDelivered`, `RemoteEndEnds`, `StdinEndsSession`, `ClientLeavesRelay`, the two
  `NegotiationEnds`, `Finishes`. What they say of safety is proved for the last three:
  every step brings the end nearer (`NegotiationAdvances`, `NeverStarved`, `StepsBounded`).
  That the next step is taken is what fairness adds;
* the four properties of the violated runs, which are false.

## Plan

Done, in this order: `Duplex`, `Repeater`, `RepeaterProofs`, `Forwarding`, `HttpRelay`, `Socks`;
`LineInput`, `Direct`, `Telnet`; `Environment`, `Setup`, `WhoUses`; the proofs of `Forwarding`,
`Socks`, `WhoUses`, `Setup`, `Telnet`, `HttpRelay` and, for the last two, of `LineInput`.

## Not modelled

* Option parsing, password entry and base64 of `connect`, `git-wrapper` and `getcp`: sequential string
  handling without state. What they compute is a constant of the models.
* `depends`: a recursive listing and pointer arithmetic over a file, by one thread over files that
  nobody changes. Its one hazard, that a directory which cannot be read ends the whole search
  (`directory.c:206`), is plain from the code.
* The lists of modules, windows and threads of WhoUses: each is filled by one pass of calls and read
  once.
* The other steps of the installer: straight-line calls of the system, each of which reports its own
  failure. The post-checkout hook, the merging rebase, the set-up and release scripts: straight-line
  calls of other programs, whose work is git's, tar's or the compiler's.
* Everything vendored or generated, which is all but a few thousand lines of the repository: the
  headers and libraries of the compiler, Tcl/Tk, vim and the rest of `mingw`, `lib` and `share`. It is
  not this project's code, and is why the mapped share of the repository is small.
