# metplot-agent in TLA+

metplot-agent lets a coding agent inspect NetCDF files and plot them. An agent
calls two MCP servers, the `netcdf-reader` and the `plot-renderer`; files on
hosts that ask for a passcode are reached through a third program, the
`ssh-broker`, which the user starts in a terminal and which shares its one
authenticated session over a UNIX socket; a fourth, `metplot-refine`, merges
what the agent has learned into the skill files. The modules here model the
parts of these programs in which order, failure, bookkeeping or agreement
between two parts matter, check them with TLC on small instances, and prove some
of their properties with TLAPS for every instance. Paths below are relative to
the repository.

## 1. Inventory

| Component | Code | State it keeps | Operations | Modules |
|---|---|---|---|---|
| Session holder | `src/ssh_broker/session_holder.py` | the lock, `_sftp`, the channels of the transport | `with_sftp`, `exec_command`, `close` | SessionHolder, SessionSlot |
| Broker server loop | `src/ssh_broker/server.py`, `protocol.py`, `methods.py` | `sessions` with read and write buffers, `last_activity`, `holder_dead_since` | accept, recv, dispatch, send, the three exits | BrokerServer |
| Broker launch and exit | `src/ssh_broker/cli.py`, ends of `serve_forever` | the socket path, the SSH connection | test, authenticate, unlink, bind, chmod, serve, unlink, close | BrokerStartup |
| Broker discovery and client | `src/mcp/netcdf_reader/paths/ssh.py`, `ssh_broker.py` | none between uses | discover, ping, call, fall back | BrokerDiscovery |
| SSH authentication | `paths/ssh.py`, `adapter.py` | none; connections stay open | config lookup, agent, key files, prompt, retry | Login |
| Path classification, multi-file opening | `paths/classify.py`, `paths/multi_file.py` | none | classify, combine | Inspect |
| Opening and conventions | `adapter.py`, `conventions/*.py` | none | open, detect, geometry, time axis | Conventions, Inspect |
| Mesh pairing | `paths/mesh_pair.py` | none between calls; the agent holds the prompt | find, rank, validate | MeshFile, Inspect, SliceSpec |
| Inspection cache | `cache.py`, `tools/inspect.py` | one JSON file per key | stat, lookup, open, write | SourceFile, InspectionCache |
| Slice files, server start | `tools/read_slice.py`, `lifecycle.py` of the reader | a directory per session, a file per request | resolve, load, write, answer; removal at start | SourceFile, SliceStore |
| Selectors, slice resolution | `selectors.py`, `tools/resolve_spec.py`, `read_slice.py`, `peek.py`, `compute_stats.py` | none between calls | resolve, estimate, read | SliceSpec |
| Render tools | `plot_renderer/tools/*.py` | an open figure | take, style, check, draw, save, report | Render, MeshFile |
| Style, safety, oracle | `style.py`, `safety.py`, `oracle.py`, `defaults.py`, `colormap_registry.py` | none | template keys, downsampling, clipping, sources | Render |
| Figure output | `plot_renderer/lifecycle.py` | the figure files and their temporaries | name, validate, save | FigureSave, Render |
| Slice loading, renderer dispatch | `slice_loader.py`, `adapter.py`, `server.py` | an open dataset | load, dispatch | Render, SliceStore |
| Applying refinements | `tools/apply_refinements.py` | pending and archived drafts, the targets | list, show, merge, archive, reject | Refinements |
| Exec allowlist, unstructured selection, CDL, reduce, find, transforms, dispatch tables, log of refinements, installer, builders, skills | see `PROJECT.json` | none that matters here | one pass each | not modelled, section 7 |

How they interact. The agent's host starts one reader and one renderer per
session; several sessions can share a project directory and therefore
`.metplot/inspections`, `.metplot/slices` and `.metplot/figures`. The reader
answers a large slice with the path of a file that the renderer opens later, in
another process; a mesh that the reader accepted is opened and recognised once
more by the renderer, by rules of its own. What the reader cannot decide it asks
in an envelope, and the agent calls again with an answer that may be minutes
old. The reader reaches a broker by the path of its socket; the broker's loop is
one thread, its holder may be called by others. Data files, and the files the
refinements change, belong to somebody else and can be replaced at any moment.

What is hard, and what makes each part correct:

* **Session holder.** Threads, a remote that refuses or ends channels or falls
  silent, a network that drops. Correct: never two channels at once, no lock,
  channel or handle left behind by an error path, no caller loses the client it
  is using.
* **Server loop.** Lines cut anywhere, sockets that fill, clients that leave or
  never read, connection loss noticed late. Correct: one whole reply per
  request in order, an honest answer after the loss, an end when asked for.
* **Launch and discovery.** Overlapping launches and exits that meet only at a
  path; tests that are stale when used. Correct: one broker per host, and
  direct SSH (with its passcode prompt) only if there was no broker.
* **Authentication.** A chain of attempts each of which can fail for reasons of
  its own, then a prompt that must say enough for the retry. Correct: nobody is
  asked who has set up a way in, and what the prompt is answered with works.
* **Inspect.** Eight detectors in order, a mesh in another file, candidates
  ranked before the prompt and opened after it. Correct: the first candidate is
  the one to take, what was accepted can be drawn, what is missing has a reason.
* **Inspection cache.** The file changes or goes between stat and open; two
  servers write one entry; a process ends halfway. Correct: invisible in the
  answer.
* **Slice store.** A start removes directories another process may be using; a
  file has one name for all its contents. Correct: what is drawn is complete
  and not older than the answer that named it.
* **Slice resolution.** Two halves of a call decide by separate tables what a
  selector means; boundaries are inclusive here and exclusive there. Correct:
  what is read is what was asked for, and what resolves can be read.
* **Rendering.** Four tools with early returns at every stage, a template
  applied key by key, one temporary file per output. Correct: what the answer
  says of style, data and file is what happened to them.
* **Refinements.** Merge and archiving are two steps, and two runs know nothing
  of each other. Correct: a draft takes effect once, a target is changed whole.

`PROJECT.json` lists the hazards one by one at their lines.

## 2. Modules and the code

**SessionSlot** is the abstract promise: a slot that is free or holds an SFTP
or an exec channel, one user at a time. **SessionHolder** is
`session_holder.py`: `pc` is the point of each calling thread, a step is the
code between two points at which another thread, the remote or the network can
be noticed. `FreeSlot`, `OpenExec`, `StartExec`, `ReadExec`, `ExitStatus` and
`CloseExec` are the parts of `exec_command` (the `finally` included),
`ReopenSftp` and `RunOnSftp` those of `with_sftp`. The transport grants any
number of channels, so that having one is the code's merit. The remote may stop
answering for good (`FallSilent`) or write without end (`Pour`) on a connection
that stays up; `Stuck` says which calls then wait, since only the reads of an
exec channel have a timeout (line 73). `SlotOf` is the refinement mapping.

**BrokerServer** is the selectors loop. A line is two pieces and a socket
buffers `SockBuf` pieces, so recv and send stop in the middle of lines. The
methods of `methods.py` are told apart by whether they use the channel and by
how they end; `cl`, `sent` and `got` are the clients of
`paths/ssh_broker.py`. `why` says what ended the loop. `Recv` reads some of the
pieces that are there, as `recv(4096)` takes some of the bytes; `Send` writes
those that fit. The order of a pass (read, dispatch every whole line, write) is
the code's. `Hang` is a holder call that waits for a silent remote, and the loop
with it, until the connection is lost.

**BrokerStartup** is `main` and the file system part of `serve_forever` for
several launches. `path` is whose socket the path leads to. `overlap` is
history: some launch passed its test while another was starting.
**BrokerDiscovery** extends it with users: ping and transfer are two
connections, a failed call raises an exception that is caught or not according
to the `except` clauses of `open_ssh_with_broker_fallback`. `gap` is
history: no healthy broker was at the path at some moment of the use. A broker
can hang in a transfer (`Hang`), and then takes no other request.

**Login** is the other way into a host: `Ask` looks the account up in
`~/.ssh/config`, `TryAgent` and one `TryKey` per key file are
`silent_auth_chain`, `NoKeyLeft` is its `SSHAuthNeeded` and the envelope made of
it, `AskWith` the agent's second call with an `ssh_config`, `TryExplicit`
`connect_explicit` with its own prompt. A world is the user's machine with what
lies behind it. The network may come and go at every step.

**SourceFile** is the data file: a version that grows. **InspectionCache** and
**SliceStore** extend it. In the first, `StatKey`, `Lookup`, `ReadSource`,
`TruncateEntry` and `FillEntry` are the steps of `inspect`; `Path.write_text`
is two steps. The file may be replaced, removed and put back as it was, and a
path at which stat finds nothing has a key of its own (`Missing`), whatever
comes there later; `CrashInspect` is the end of the process and every exception
of stat, of the lookup and of the write, none of which is caught. In the second, `Start`, `EmptyDir`, `DropDir` and `Serve` are the
start of a server (`rmtree` takes the files, then the directory; the file system
may refuse either, which is ignored and noted in `refused`), `Resolve` to
`Reply` are `read_slice`, `OpenSlice` and `DrawSlice` the renderer, whose
dataset is lazy: it sees the version it opened, or one written over it, or
nothing. Both modules assume that a replaced file never gets back the size and
modification time it had, which is what the cache key relies on.

**MeshFile** is the part of a NetCDF file that both servers look at: names of
variables, sizes of dimensions, a tag for each attribute that is asked about. It
holds the reader's `DimsFit` (`validate_mesh_pair`) next to the renderer's
`PeekGridKind`, which share no code. **Conventions** is `conventions/*.py`: one
operator per detector and per extractor of geometry and time, and their order
(`Producer`). **Inspect** composes them: `Call` classifies, `OpenHistory`,
`AskCache`, `OpenMesh` and `Conclude` are `inspect` after that, `Draw` is what the
renderer makes of the mesh, and `Replace` may come between any two of them.
`Prompt`, one `OpenCandidate` per candidate and `Offer` are the search and the
ranking of `mesh_pair.py`. The cache is here only as something that may answer
or raise, where its key is made and where its entry is written (`Stored`).

**SliceSpec** has one call per behaviour: `ResolveAsk` is `resolve_spec`, an
operator on a file and a request (`ResolveSpec`, with one operator per selector:
`TimePart`, `LevelPart`, ...) and `slice_shape` (`Shape`, `Product`);
`ReadRaises` and `Read` are the second opening, `_apply_selectors` (`Pick`,
`Reading`) and the ending of each tool; `IOFails` is an open, read, mkdir, write
or stat that the system refuses. A file is its dimensions with their
coordinates, whether its values are numbers (`NoMinimum`), and what a reader of
the specification would look at and the code does not: on which vertical
dimensions the surface is the largest value, and the latitudes and longitudes of
a curvilinear grid. Sizes are counted in elements. The dimension tables of the
two halves are written down separately, as in the code. The file may be replaced
in between. `Means...` is the grammar of the cycle-1 specification, section 5,
and says nothing of how the code finds a position; `Honoured` names where the
two part.

**FigureSave** is `atomic_save`: `MakeDir`, `Open`, `Write`, `Replace`, then
`Look` and `Unlink` of the `finally`, and `Stat`. A file is an inode that has a
name; writing goes to the inode that was opened, whatever became of its name.
`met` is history: saves that overlapped on one path. **Render** extends it with
the tools: `Dispatch`, `Take` (the data), `StyleKey` (one key of the template),
`Check` (what is refused), `Draw` (downsampling, clipping, the five mesh
branches), `Output` (dpi, path and format, then the save) and `Report` (the
envelope and its oracle). A request is a record of what the tools tell apart. Its
field is a sequence of cells, NaN, infinite or of one of four sizes; `Coarse` is
the field of the block means, where a block with a NaN is NaN.

**Refinements** is `apply_refinements.py`: texts are sequences of headings,
markers and lines, and the five operations are operators on them; `Start` to
`Archive` are the steps of one run, `OpenTmp`, `Write` and `Replace` those of
`_safe_write`. `cuts`, `shared` and `raced` are history: merges that were not
archived, drafts two runs had listed, targets two runs were changing.

`MC_*` modules hold only the values of the instances, `*_proofs` the proofs.
An operator next to a definition, named after it with a word more
(`KeyFilesFirst`, `CutAsReset`), is a slip that the definition could have been
written with; none is used by a specification. They show that a property
depends on that definition.

## 3. Runs

| Run | What it shows | Bounds, and why they are enough | States |
|---|---|---|---|
| MC_SessionHolder | exclusive channel, lock discipline, no leaks, a lock that is held for ever is held by a call waiting for a silent or pouring remote, refinement of SessionSlot | three callers: one in, one waiting, one arriving; 3 methods; drops, channel ends, silence and endless output at any step | 24,320 |
| MC_BrokerServer | replies whole, in order and flushed before the exit, honest answers after the loss | two clients, one pipelining two requests and one that may hang up; one-piece buffers make every line stop halfway | 976,644 |
| MC_BrokerServer_live | every waiting client is answered or disconnected; stop, loss and idleness end the broker; unless the loop hangs for ever in a holder call | one request each, one client that pings, sends a line that does not decode or an array and may hang up, one that never reads | 205,266 |
| MC_BrokerServer_hangup | *violated*: a client that leaves ends the broker | as above | |
| MC_BrokerDiscovery | socket file and owner, direct SSH only for cause, no exception without a kill, every use ends unless its broker hangs for ever | two launch slots, used again and again, two users, kills, silent remotes | 219,860 |
| MC_Login | asked only when nothing set up could do; a retry gets in | 72 worlds: agent or none, 0 to 2 default keys, a key in the config at home, elsewhere or none, four ways the machine may be set up; 5 hosts, retries without bound | 115,210 |
| MC_Inspect | candidates, pairing and drawing, what a summary lacks and which exceptions escape | eleven histories, meshes that fit, do not, are incomplete, mixed, missing or unreadable; up to three candidates beside the history, opened one by one; one replacement; files combined to three sizes | 300,496 |
| MC_InspectionCache | fresh, and paired as asked | a local file, a URL or several remote files, there or not, two servers on one cache, two replacements and any number of removals and returns, crashes and exceptions at every step | 1,912,376 |
| MC_SliceStore | nothing stale drawn, answered files readable, old directories removed | two launches (either may die and the other start), one slice read repeatedly, one renderer, two replacements, any removal refused | 407,630 |
| MC_SliceSpec | no error without a cause after a resolution that succeeded, inline values within the limit, positions read are those asked for | eight files (rectilinear, MPAS, curvilinear ROMS, CICE, an empty time axis, characters, latitudes out of order, three vertical dimensions; pressures from the top down and from the bottom up) and about twelve thousand calls | 568,740 |
| MC_Render | saves, precedence, sources, answers, assessment | each of about three thousand requests alone, with fields of up to six cells, coarsened by one, two or more; 16 pairs of requests in two processes, with crashes and exceptions at every step; a figure of two chunks | 297,961 |
| MC_Refinements | once each, by whole merges | fifteen drafts of every operation and odd form, two waiting at a time, two targets, two processes of which one runs twice | 206,585 |

Two processes, launches or servers are enough where the code has no third
party: every protocol here is between one process and whatever is at a name.
Three callers are taken in the holder because a lock that is free has more than
one waiter only then.

**Deadlock** is checked for the holder, discovery, the cache, Login and Inspect,
which never stop. The broker's loop ends, a server that has died is not started again,
a call of SliceSpec or of Render is over when it has answered, and the runs of
Refinements are counted; those runs do not check it.

**Fairness.** Safety runs assume none. In the holder each thread past the lock
keeps going unless it is `Stuck`, and *some* waiter gets a free lock;
`threading.Lock` promises no order, so no individual caller is fair and only the
release of the lock is claimed. Only the reads of an exec channel have a timeout
(`session_holder.py:73`); SFTP calls, `exec_command` and `recv_exit_status` have
none, so a step that waits for a silent remote is not enabled, and no fairness
makes the remote answer or the network drop. In the server the loop, while it
does not hang in such a call, time and the clients that are not `Stuck` keep
going; nothing is assumed of a client that hangs up or never reads. In discovery
a user continues, and a serving broker that does not hang takes a request it is
offered infinitely often (strong fairness: every pass handles every ready
connection); brokers are free to be launched, to end or not. The four liveness
properties each name the call that waits for ever as their exception. The other modules claim no liveness: their calls
are straight-line code, which ends or is killed, and what may be awaited of them
is an answer of the agent or the user.

**Counted or bounded.** `MaxRewrites` and `MaxReplaced` bound replacements,
`Starts` the runs of metplot-refine, `IdleTimeout` and the ages are in ticks and
saturate, the limits of SliceSpec are in elements, `Chunks` are the writes of
one figure. Calls of the holder, launches, uses, reads, inspections and
authentications are unbounded.

The two passing runs of BrokerServer stay apart: joined, the liveness check
takes as long as all the other runs together.

## 4. Where code and documents part

**A client that leaves ends the broker** (MC_BrokerServer_hangup, the finding in
`PROJECT.json`). `send` to a closed peer raises BrokenPipeError and `recv` of a
reset one ConnectionResetError; neither is caught (`server.py:120`, `:143`) and
every client loses its broker. The docstring names two other reasons to end.

The rest are exceptions that a passing property names: it states what holds, and
holds only because the exception is there.

| Property | Exception |
|---|---|
| SocketTellsTruth | Two launches that overlap both serve: the path is tested before the authentication (`cli.py:146`) and removed without a test at the bind (`server.py:81`); the first to exit removes the other's socket. `ssh-broker.md:122` has the second error out. |
| OutcomeForCause | A broker killed between reading a ping and replying makes discovery raise: the empty line is a ValueError that `ssh.py:270` does not catch. |
| LockReleased, NobodyWaitsForever, BrokerEnds, UseEnds | A remote that falls silent while the connection stays up blocks the call that waits for it, without a timeout (`session_holder.py:55`, `:56`, `:74`, `:77`; one that writes without end, `:75`), with it every thread that wants the lock, the broker's loop, all its clients, which have no timeout either (`ssh_broker.py:57`), and every way the broker could end but a kill. |
| AskedInVain | The key of the config is kept with `~` (`ssh.py:56`), a name that opening a file does not expand; a key with a passphrase is told as rejected, its exception being caught by the clause for its base class (`ssh.py:158`, where `:161` and the cycle-1 spec want it told apart); default keys are not tried beside a key of the config; a jump host is looked up and never used (spec line 341), and jump hosts in a circle end in RecursionError, told as internal_error. |
| RetryGetsIn | After one rejection the next prompt gives the host of the path and no port (`inspect.py:564`), and what the config says of the host is lost. The method `ssh_config_alias` that the first prompt offers is handled nowhere. |
| AnsweredReadable | A start removes the slices of running sessions: `lifecycle.py:19` knows only its own directory. |
| DeadDirsRemoved | What the file system refuses to remove stays, and nobody is told: `rmtree(ignore_errors=True)` (`lifecycle.py:20`). |
| CacheNeverShows | The key of a remote file is its URL alone, so its first summary is answered from then on, whatever becomes of the file; the cycle-1 spec says so (line 216). A local file that is missing when its key is made has one key too (`cache.py:37`), and a summary stored under it, of a file that appeared before the opening, is answered whenever the file is missing again; so are lists of `ssh://` names, which are looked up on the local disc (`inspect.py:96`). |
| ReadRaisesForCause, InlineWithinLimit | Two dimensions of one kind: the position of a level is looked up on the first of the eighteen vertical names (`resolve_spec`) and taken along the first of six of these (`_apply_selectors`), where it can be out of bounds; the estimate counts both as reduced to one element. |
| ReadRaisesForCause | Raising after a resolution that succeeded: the system refuses an open, read, mkdir, write or stat (`read_slice.py:156` to `:183`); no values, or values that are not numbers, have no minimum (`:166`); the file was replaced. |
| FirstOfferLeads | A history replaced while its prompt was being made, by one of a family without meshes, is offered candidates ranked for the file that was there. |
| ReadsWhatWasAsked | Three places where the code does other than the grammar of the cycle-1 specification: a date the file has not is moved to the nearest and `read_slice` does not say so (spec line 159, "does not silently snap"; `resolve_spec.py:180`); surface and top are the first and the last position on every dimension but `plev`, whatever the direction of the coordinate (line 168; `resolve_spec.py:222`); latitude and longitude on a curvilinear grid are looked up among the positions of y and x instead of the 2-D coordinates (line 180; `resolve_spec.py:232`). On the first the specification has a second word (line 196): a nearest match may be answered, with its distance, which `read_slice` leaves out. Further: a level is dropped for twelve dimension names that `resolve_spec` knows and `_apply_selectors` does not; ranges, lists and index forms of named selectors are parsed and dropped; boxes on coordinates out of order; two dimensions of one kind; slabs on `ni` or `ncol` together with a cell selector. |
| PairedThenDrawn | A mesh with cell centres and no connectivity is accepted and cannot be drawn; one that shows a second model's grid is drawn as that. |
| LacksForCause | Several files, and remote ones, are never asked for a mesh; a time dimension whose variable holds no dates gives no warning, though `cf.py:127` promises one; a broker that fails while it is asked for a pattern or a header makes `inspect` raise, and so does the cache: its stat, its lookup and its write stand outside the handler (`inspect.py:103`, `:104`, `:394`), so that a finished summary is lost to a full disk. |
| OracleTellsSource | A colormap or projection that a template set is reported as a library default; a section reports as explicit what it ignored. |
| DrawnAsAssessed | NaN are counted before the field is coarsened, and a block with one NaN is NaN (`safety.py:46`): more is blank than the share told, up to the whole map. Infinite cells are masked in the drawing (`render_map.py:224`) and not counted (`safety.py:83`), so that a field of nothing else is drawn blank and not refused. |
| AnswerTellsTheFile | A mesh of a foreign format raises out of the tool; an `output_path` without a format is answered with no format; a stat that fails after the replace (`lifecycle.py:146`) has the figure, which is there, called unwritable. |
| SavesKept | Two saves to one path at a time share the temporary. |
| AppliedOnce, TargetChangesByMerges | A run stopped between merge and archiving leaves the draft pending, and an append or an alias is doubled by the next; two runs at once merge twice, or tear the target. |

Seen while translating, and part of no property: both ways to combine several
files failing is answered internal_error where the cycle-1 spec (line 212) says
multi_file_combine_failed; the names a remote glob expands to are never opened
together; a glob or a directory with one hit counts as several files, so that no
mesh is asked for; a candidate that fits may have no geometry.

## 5. Proofs

Eight modules prove for every value of the constants what the runs check on
small ones: every invariant and every action property of a passing run is
stated by a theorem. So are the refinements: SessionHolder implements
SessionSlot, BrokerDiscovery BrokerStartup, and Render FigureSave. What the
proofs assume are the named ASSUMEs of the modules, which TLC evaluates in the
runs:

* special values differ from the ordinary ones, bounds are naturals, figures
  have a chunk, sockets have room for a piece, clients a request to make;
* file names are sorted (Refinements) and a directory lists each file once
  (Inspect); a path that is no pattern and no directory is one name;
* data files have coordinates among their variables and sizes in Nat (Inspect),
  distinct dimensions with a coordinate each (SliceSpec); targets are texts to
  begin with, and bodies of drafts are made of lines (Refinements);
* requests have the form their schema gives them (SliceSpec, Inspect);
* a style template has a key once, and no key writes null (Render);
* a config names a host and a port for each name, its own or the default (Login).

**Ssh_proofs.** *SessionHolder:* OneChannel is not inductive: to open an exec
channel is harmless only because the handle was dropped before. `IInv` adds what
each point of a method knows about `_sftp` (`HandleByPoint`), that no kind has
two channels, and that an exec channel has an owner. From it follow
HolderConsistent, the action property ClientNotTakenAway, and the refinement:
each step of the holder is a step of SessionSlot or leaves it alone. *Login:*
what the prompt tells was built over several calls. `Chain` says that what has
been tried and what is left make up the list of key files, in order, after the
agent; `Refused` that nothing tried so far was accepted that the chain could
use; `Goals` whose account each call of a conversation connects to. When no
file is left, `Refused` is about all of them, which is AskedInVain; a retry gets
in because its goal is the first call's.

**BrokerDiscovery_proofs.** *Startup:* that only a kill leaves a stale file needs
only the types. That one broker serves needs `Exclusive`: without an overlap one
launch at a time is past its test, and until it binds the path is free.
*Discovery:* first the composition: with users around, the launches still behave
as BrokerStartup says (UsersDoNotDisturb), so what is proved there holds here.
Then `UseInv`: while a use has had no gap, the broker at the path is healthy and
is the one it is connected to, and a request that was read is in a broker that
still serves, unless one was killed. The proof needs no word about overlapping
launches, so neither has OutcomeForCause.

**BrokerServer_proofs.** RepliesKept is about what has arrived; to prove it one
has to know all that is under way. `ServerInv` counts, for each client, two
streams of pieces through their three places: replies in `wbuf`, in the socket
and with the client (`Replies`), requests in the client's hands, in the socket
and in `rbuf` (`Requests`). Each place goes on where the one ahead of it stops
(`Follows`), and while the connection is open the replies are two pieces for
each request answered. `Ends` ties the two ends of a connection, `Flushed` says
that a connection the loop closed has delivered what it owed, `AtLoop` what each
place of the loop knows. HonestAfterLoss rests on `OwnPieces`: while the
session is up no place holds a piece that tells of a loss.

**SourceFile_proofs.** *InspectionCache:* a hit returns what an earlier call
stored, so the invariant is about entries: under a key k stands an unpaired
summary of version k or later, since the key is taken before the file is opened
and versions grow (`EntriesSound`; of the key of a URL and of that of a missing
file it says only that the summary is of a version there has been). `CallSound`
carries the same through a call. *SliceStore:*
`Live` and `Sweep` (what a start has still to remove, and that a dead session
writes no more, but for what the file system refused to remove), `Write` (where a slice file can be incomplete or missing), `Age`
and `Seen` (the order of versions in answers, calls, files and renderers), each
preserved in a lemma of its own.

**SliceSpec_proofs.** Most of this proof is about operators. `Resolved(f, a, r)`
is all that a successful resolve_spec says of its entries r; ResolvedRight proves
it selector by selector, through the folding of parts into one dict. From it
follow, by the kind of the dimension, what `_apply_selectors` picks (PickByKind)
and what `slice_shape` counts (DimLenByKind); that the pick is in bounds and no
longer than counted (PickFits), although the two use different tables; and that
it is what the grammar means (HonouredRight), which is a proof by selector: the
nearest value is the date where the file has the date, the first and the last
position are where the coordinate has its surface and top if it runs that way,
and a position of a regular grid has its coordinate as its place. The number of elements is defined
as the size of a set of tuples of positions, so that a product of longer
dimensions is no smaller by inclusion of sets, where a recursive product would
need an induction. `SpecInv` joins the halves of a call: the entries are those of
some file, and of the file that is there unless it was replaced.

**Inspect_proofs.** Lemmas on the operators: decoding times changes no detection
(SameProducer), and of a pair that fits and has its cells the renderer finds as
many, in the variables of the family the reader saw, whatever the order of the
tests on either side (CellsMatch, DrawnMatch). `PairInv` is about the conversation: what each stage has opened
(`Stages`), that a summary is that of the open dataset (`Summarised`), that the
first offer fits if any does (`Offering`, from CandidatesInOrder), that the
agent's retry with it succeeds (`Retrying`), and that the mesh that is open is
the file (`Drawing`); the last three until a file is replaced. The ranking opens
one candidate after another; that its result is the ranking of the files there
are (`Ranking`) holds as long as none of them changes.

**Render_proofs.** *FigureSave:* that what is found at an output is whole is far
from inductive: a figure reaches it by its temporary, which another call may have
opened before. `SaveInv` says whose the temporary is (`Mine`, `Fresh`, `OneTmp`),
that calls on one path have met (`Rivalry`), what is at the outputs (`Clean`,
`Outputs`), and that a figure once placed is out of every other call's reach
(`Own`, `Kept`). *The tools* implement FigureSave: each step of a tool is a step
of `atomic_save` or leaves its files alone. `Told` relates the stage of a tool,
its save and its answer; with `SaveInv` this gives AnswerTellsTheFile. *Style and
drawing:* `Handled` says that the template's keys still ahead are apart from those
behind, and that each of those is applied or reported, not both; `TakenFrom` what
the fields hold meanwhile, `Resolves` what they hold once the defaults have taken
their place. `Sound` carries this, and what was assessed of the field, to the
answer; what coarsening does to gaps is one lemma on the mean of a block
(MeanShows), for blocks of any size.

**Refinements_proofs.** `CountInv`: a draft at its archiving is in one hand unless
it was shared, and the merges add up. `MergeInv`: what the one changer of a target
has computed is the merge into the text the target still has, and the temporary
is its own. `WholeInv`: the target is a text and would still not refuse the
draft. Then what the operations compute: a section found by its first heading
ends before the next one (BodyRight), what is spliced stands between what was
before and after it (BetweenRight), so each operation does what `Merged` says
(MergedRight); a section replaced by lines without a heading is found again where
it was, so that a second merge changes nothing (RepeatableRight). The first
element of a set of positions exists by well-founded induction on Nat, from the
library.

**Only model-checked:** the four liveness properties (LockReleased,
NobodyWaitsForever, BrokerEnds, UseEnds), since TLAPS proves nothing that rests
on fairness. What the exceptions of section 4 leave out is neither proved nor
checked.

## 6. Abstractions to keep in mind

* Values are abstracted to what decisions depend on: a cell of a field is NaN,
  infinite, low, middle, high or huge, and a block of it runs along one
  direction; a summary is a version (InspectionCache) or the facts about geometry
  and time (Inspect).
* A renderer that opens a slice while it is rewritten in place sees the version
  it opened, the new one or nothing; that it might read some values of each is
  left out (`read_slice.py:161`).
* A remote that falls silent stays so until the connection is lost; a silence
  that ends is a slow answer, which any step of the models may be.
* Exceptions while the oracle or the answer is built after a save are left out,
  and so is a text editor that changes a target during a review.
* Whether xarray can combine two files of one shape is left open. Connections
  and copies that nothing closes or removes are not counted; host keys are
  accepted whatever they are (`AutoAddPolicy`), so no state depends on them.
* `open` is taken not to expand `~`, and a server to let an account in by a
  fixed set of ways.

## 7. Not modelled, and why

Statistics, percentiles, distances, polygons, great circles and pixels are
floating point. The wording of messages, labels and warnings, YAML and CDL are
text. The list of variables with their ranges, the vertical axis, confidence and
evidence of a detection feed no later decision. The exec allowlist is a set
membership test. `reduce_variable`, `find` and the transforms are functions of a
dataset in memory without state. The tables of dispatch and the schemas hold no
state. `refine.py` reads and appends to a log and decides nothing. The installer
runs `uv` or `pip` in one pass, and builders and lint copy files in one pass;
nothing runs beside them and nothing is kept between builds. `ConnectionPool` is
used by nothing. Skills are instructions for the agent.

## 8. Plan

Done, in this order: SessionHolder and SessionSlot, BrokerServer,
BrokerStartup, BrokerDiscovery, InspectionCache, SliceStore, SliceSpec; then
FigureSave, Render, MeshFile, Refinements, Conventions, Inspect, Login; proofs
of every safety property that a run checks.

What is left, by what it would add:

1. A session of the reader as one module: a prompt of Inspect whose retry goes
   through Login and InspectionCache. The parts meet only in the arguments of
   the retry, which each of them takes as any.
2. An abstract specification of the broker's loop, a queue of requests and one
   of replies per client, that BrokerServer implements: `ServerInv` already has
   the mapping, the pieces joined over their three places.
3. The unstructured selection (`selectors_unstructured.py`): which cells a box
   or a nearest point takes, as far as it is not floating point.
