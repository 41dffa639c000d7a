# A TLA+ verification of agent-shell-tools

The repository is a set of small tools that let an agent run commands and tool
servers: `mcpmux` (an MCP proxy in front of child MCP servers), `grpc_exec` (a
gRPC service that runs one command per call, with its daemon and client), `wsb`
(a launcher that keeps one sandboxed `grpc_execd` per workspace) and `sandbox`
(a wrapper of nsjail).  This directory models what each of them does, with the
goroutines, processes, clients and launchers that interleave, checks it with TLC on
small instances, and proves with TLAPS what matters most for every instance.

1. [Inventory](#inventory) – 2. [Modules](#modules) – 3. [Runs](#runs) –
4. [Fairness](#fairness) – 5. [Proofs](#proofs) –
6. [Where code and documentation differ](#where-code-and-documentation-differ) –
7. [Not modelled](#not-modelled) – 8. [Plan](#plan)

## Inventory

### mcpmux child (`src/mcpmux/internal/mcpmux/child.go`)

* **State.** A `Child`: `status`, `session` and `process`, `tools`,
  `stopCancel`, `startDone`, all under `c.mu`; a goroutine in `Start`, a monitor
  goroutine, any number of goroutines in `Stop`, and those that have copied the
  session for a tool call; the operating-system process and its connection.
* **Operations.** `Start` (spawn, handshake, publish, discover tools, commit),
  `monitor`, `Stop` (cancel the start in progress, wait for it, close the session
  with a timeout, kill), the getters.
* **Hard.** `Start` drops `c.mu` between spawn, handshake, publication, discovery
  and commit, and a `Stop` may come in at each of these points; `Stop` itself
  waits twice; a crash races a stop; `session.Close` waits for calls in flight
  and runs in `start()` without a timeout.
* **Correct means.** No process is forgotten, whatever the interleaving; the
  status tells the truth about the process; the status only moves forward; `Stop`
  and a cancelled `Start` return; the death of an idle child is noticed.

### mcpmux proxy (`src/mcpmux/internal/mcpmux/proxy.go`, `src/mcpmux/main.go`)

* **State.** `p.children` (name → child) under `p.mu`; the tool table of the MCP
  server; each handler's locals.
* **Operations.** The handlers of `add_server`, `remove_server`,
  `reload_server`, `list_servers` and of a proxied tool call, each in a goroutine
  of its own; the crash callback, called by a child's monitor; `Shutdown`.
* **Interaction.** Handlers call `Start`, `Stop` and the getters of a child; the
  child calls back through `onCrash`.  A child is inserted before it is started,
  so other handlers reach it while it starts.
* **Hard.** Every handler holds `p.mu` for part of its work only; a handler acts on
  a child it looked up earlier; a crash callback decides under the lock and acts
  after it.
* **Correct means.** Only the handler that took a child out of the map stops it;
  a removed child, and one that failed to start, is dead; the registered tools
  are those of the children that run; no process outlives the proxy; removes, calls
  of dead children, crash callbacks and the shutdown end.

### mcpmux namespace (`src/mcpmux/internal/mcpmux/namespace.go`)

Three pure functions: `ValidateServerName`, `PrefixTool`, `SplitTool`.  Correct
means that a namespaced name is split into the server and the tool it was made
of, and that validation refuses no name it could accept.

### grpc_exec server (`src/grpc_exec/server/server.go`, `grpc_exec.proto`)

* **State.** Per call of `RunCommand`: the handler goroutine, one that waits for
  the command, one that receives from the client, one that watches the stream's
  context, a timer per graceful termination; the channels between them; the pipe,
  its read deadline, and the processes of the command.
* **Hard.** Four goroutines and a timer may kill the process group; a process that
  left the group keeps the pipe open; the client may be slow, send anything, close
  its side, or go away.
* **Correct means.** When the call returns, the shell is reaped and its group is
  dead; an exit event comes after all the output; the end of the shell, a forced
  termination and a disconnect each end what they should.

### grpc_execd (`src/grpc_exec/cmd/grpc_execd/main.go`)

* **State.** A daemon: the socket path it has bound, the calls it serves, whether
  it drains.  It is the process that nsjail's init runs in a sandbox,
  which ends with it, so that its commands die with it.
* **Operations.** `net.Listen`, `Serve`, the signal goroutine with `GracefulStop`.
* **Interaction.** Each call is a `RunCommand`; the path is shared with the
  daemons before and after it, and with `wsb`.
* **Hard.** `GracefulStop` races calls in progress and calls about to start; a
  daemon that is killed leaves its path; closing the listener removes the path
  whatever it names by then.
* **Correct means.** A client whose command was started gets its own result from a
  daemon that drained.

### grpc_exec client (`src/grpc_exec/cmd/grpc_exec/main.go`)

* **State.** A connection, the output printed so far, the exit code.
* **Operations.** Make a command line of the arguments, send one start request,
  print events until the exit event or an error.
* **Hard.** A stream that ends without an exit event gives 0; a daemon that is
  killed or drains between two events; arguments full of quotes.
* **Correct means.** 0 is returned only for a command that succeeded, after all of
  its output; a client does not hang on a daemon that is gone; the shell gives the
  command the arguments of the caller.

### wsb (`src/wsb/main.rs`)

* **State.** Per workspace a PID file (absent, empty, or with the number of a
  launcher or of a sandbox) and a socket path; per launcher where it is and what it
  has read; its sandbox.
* **Operations.** `check_stale`, the claim with `create_new`, `start_sandbox`, the
  PID file rewritten with the sandbox's number, `wait_for_socket`, `wait_for_child`,
  `cleanup`.
* **Interaction.** Launchers share the two files; the sandbox is an `Execd` daemon; a
  launcher that is killed leaves its sandbox running.
* **Hard.** Every system call is a step of its own: another launcher, the daemon or a
  kill may come in between; numbers of processes are reused; the poll for the socket
  runs out while the daemon is about to bind it.
* **Correct means.** One sandbox per workspace, which can be reached; "ready" is for
  the launcher's own socket; a launcher that exits leaves nothing behind.

### sandbox (`src/sandbox/main.rs`, `jail.txtpb`)

* **State.** None: a list of mounts is computed from `jail.txtpb`, the layout of the host
  and the command line, and nsjail is executed.
* **Hard.** The order of the list decides what covers what; a directory has several paths
  where the host has links; the jail always shows `/usr`, `/etc`, `/dev` and the directories of
  the layout.
* **Correct means.** The jail shows what was asked for, at its own path, also within `$HOME`
  and `/tmp`, and hides the real home, by whatever path it is named.

### The rest

* **command_filter** (`LANGUAGE.md`): a language description only.
* Test servers, tool pins and the release archive: no behaviour of their own.

## Modules

| module | models | state and actions |
|---|---|---|
| `Child` | `child.go` | Every variable is a function of the `Child` object, the stopper or the caller.  `startPC`, `monitorPC`, `stopPC`, `callPC` are the control points of the goroutines; an action is what a goroutine does between two points where another can run, i.e. one critical section of `c.mu` or one blocking call.  `BeginStart` … `Finish` are `Start` and `start()`, `StopBegin` … `CloseReturns` are `Stop`. |
| `Proxy` | `proxy.go`, `main.go` | EXTENDS `Child`: a child is named by the request that creates it, a request's goroutine is the caller and the stopper it needs.  `hpc[r]` is the control point of the handler of request `r`.  `AddStart` and `RemoveStop` are joint steps with `BeginStart`/`RejectStart` and `StopBegin`; `CallSession` with `GetSession`; the crash callback ends with `Notify`. |
| `Registry` | what `SPEC.md:57-106` promises of the management tools, and `proxy.go` implements | A table name → configuration that each request changes at once, when it is answered: no children, handlers or lock. `Proxy!ImplementsRegistry` is the refinement, with `answer <- reply` and `table <- Entries` (a server that is being added is not yet in the table, one that is being removed or reloaded still is) and `served <- Served` (the tool calls that have found their server). |
| `ChildLifecycle` | what `child.go` promises | The status, the life of the process, and whether a `Start` or a `Stop` is under way: no goroutines, session or locks. `Child!ImplementsLifecycle` is the refinement, with `life <- proc` and `working <- Working`. |
| `Namespace` | `namespace.go` | Operators on sequences of characters; its variables only enumerate names. |
| `RunCommand` | what `grpc_exec.proto` and `server.go` promise | Any number of calls, each with a command, what it has written, what was delivered and the verdict: no goroutines, pipe or signals. |
| `ExecServer` | `server.go` | `mainPC`, `waitPC`, `recvPC`, `ctxPC` and `grace` are the four goroutines and the timer of one call; `leader`, `member`, `escaped` are the shell, a process of its group and one that left it. `ImplementsRunCommand` is the refinement to `RunCommand`. |
| `Execd` | `grpc_execd/main.go`, `grpc_exec/main.go` | EXTENDS `RunCommand`: several daemons on one path, each serving calls (`HandlerStep`, `CommandStep`), and one client per call. `Terminate` and `DrainEnds` are `GracefulStop`, `Kill` a SIGKILL to the sandbox, `Receive` … `ReceiveError` the client's event loop. |
| `Wsb` | `wsb/main.rs` | EXTENDS `Execd`: a launcher and its sandbox have one name. `pc[l]` is the point between two system calls; `pidFile` records what the file says and whose it is, `reaped` which sandboxes were waited for. `ProbeAlive` is always possible: another process may have got the number. |
| `ShellQuote` | `grpc_exec/main.go` | `shellQuote`, `shellJoin` and the choice of the command line, against `Words`, a tokenizer of `sh`. |
| `Sandbox` | `sandbox/main.rs`, `jail.txtpb` | `exposes_home` and the list of mounts (`BaseMounts` are those of `jail.txtpb` and of the host's layout; `Tmpfs` stands for any filesystem of the jail's own), against what a jail with these mounts shows at a path. |
| `MCChild`, `MCProxy`, `MCExecServer`, `MCText`, `MCWsb` | – | Instances for TLC. |
| `ChildProofs`, `ProxyProofs`, `SerialProofs`, `NamespaceProofs`, `TextProofs`, `ExecProofs`, `ExecdProofs`, `WsbProofs` | – | Theorems. |

How they build on each other: `Proxy` implements `Registry` and EXTENDS `Child`, which
implements `ChildLifecycle`; `Wsb` EXTENDS `Execd`, which EXTENDS `RunCommand`, which `ExecServer`
implements.

Conventions.  Variables and operators keep the names of the source where they
can.  An operator whose comment begins with `MUTANT` is a plausible bug, used
only to see that a property notices it.  The MCP SDK, `os/exec`, the pipe, gRPC, the
kernel and `sh` are external: modelled by what the code relies on, as stated at the head
of the modules.  What is abstracted: texts, schemas, identifiers, which nonzero exit code,
environment, working directory, and the prefixing of a child's stderr.

`list_servers` holds `p.mu` for reading over several steps; the other critical
sections of `p.mu` call nothing that blocks and are single steps, disabled while a
listing is in progress.

## Runs

Passing runs:

| run | instance | what it shows |
|---|---|---|
| `child` | 1 child, 1 tool, 2 stoppers, 2 callers | The child has its documented life cycle (`ImplementsLifecycle`): the status only moves forward, a crash is reported when the process is gone, there is at most one process, and only a running child keeps one. No process is forgotten; `Stop` and a cancelled `Start` return and a crash is noticed, for a child program that may die or hang at any point.  Children do not interact in `Child`, so one is enough; two stops are needed for a stop to find another's work half done; two callers for a call in flight beside one that is refused.  Callers take the session only once `start()` has committed it (`EarlyCalls = FALSE`); `child_early_call` shows what happens otherwise. |
| `proxy_serial` | 3 requests in flight, 2 of them creating children, 2 names; a remove or a reload overlaps with no other change of its server (`OnePerServer`) | Every operation, with racing adds of a name, tool calls, listings and changes of the other server beside it, with crashes and callbacks at any moment.  The management tools are the table of `Registry` (`ImplementsRegistry`); a registered tool is at every moment one of the child in the map, or of one that a remove is taking away, so that a client sees part of a server's tools only while its add or remove is not answered (`ToolsMatchChildren`); and the shutdown leaves no process.  1,302,272 states. |
| `proxy_concurrent` | 3 requests in flight, 2 of them creating children, 1 name | Every operation concurrently.  The claims on a child (`StopIsClaimed`), the fate of removed and failed children, and the inductive invariant `ProxyInv`, of which the stability of a listing is a part.  One name is the hard case: handlers of different names touch different entries and children. |
| `proxy_liveness` | 3 requests in flight, 1 creating | Removes answer, calls of dead children return and the shutdown ends, with calls that are never answered; when the process of an added server dies its tools go, whether the crash callback takes them away or a remove (`CrashedToolsGo`; a death before the add is answered is the one of `proxy_crashed_tools`).  56,842 states. |
| `exec` | 2 chunks written, a pipe of 2 | One call with a background and an escaped process, a client that sends anything, a context that ends at any moment: it implements the abstract `RunCommand`.  210,523 states. |
| `wsb` | 2 launchers with a daemon each, 1 client, 1 chunk; launches do not overlap | One sandbox at a time, reachable, ready with its own socket and cleaned up, whichever launcher, daemon or client is killed; a client's 0 is true; launches settle and clients return.  The second launcher finds everything a first one can leave: an empty PID file, its own number, that of a sandbox that runs, has died, or has a namesake; with or without a socket.  About 218,000 states. |
| `text` | server names of ≤ 6, tool names of ≤ 4 characters; ≤ 3 arguments of ≤ 5 characters together; ≤ 3 mounts over a host of 10 directories and a link | The pure functions.  For names, two kinds of characters (an underscore and a letter) are all that the functions distinguish; for arguments five (two quotes, a blank, a character `sh` interprets, any other); three mounts are one within another and a third over or under both.  628,404 states. |

Runs that end in a violation, each a disagreement between code and documentation,
are in [the section below](#where-code-and-documentation-differ).

Bounds.  `MaxInFlight` and `MaxCreators` bound the requests in flight and the
children that exist, and `OnePerServer` says whether the client keeps a remove or a reload apart
from every other change of its server: it sends one when no add, remove or reload of that
name is unanswered, and none before it is answered (adds of one name may race); they are
constants of `Proxy` and appear in the guard of `Arrive` only.  `OnePerServer` is an
assumption on the client that nothing in the code enforces: `proxy_orphan`
[below](#where-code-and-documentation-differ) shows what happens without it.  `Requests` bounds the number of requests of a behaviour: three are
an operation, one that interferes, and one that observes or interferes with both.
In `proxy_liveness` there is a single child, so the wait of `child_early_call` (a call
that arrives before the child is running) cannot happen there; with more creating
requests and the tools of a predecessor still registered, `RemoveAnswers` would meet
that same wait, which `child_early_call` shows on its own.
`MaxWrites` bounds what the shell writes and `PipeCap` the pipe: with two and two the
pipe can be empty, half full and full, and a chunk can be in the handler's hands
while others wait.  Requests are interchangeable, which the safety runs of `Proxy`
use as symmetry.  `Text.cfg` switches the deadlock check off because the
enumeration ends, `Wsb.cfg` and `WsbClaim.cfg` because launchers, daemons and clients
do; every other run keeps it, and the only states without a successor other than a
stutter are those after the end of the program (`Finished`).

`Overlap` and `LateKill` are assumptions of `Wsb`, not of the code.  With `Overlap = FALSE`
a launcher starts, and a sandbox ends, while no other launcher is between its look at the
PID file and the record of its sandbox, or cleans up; with `LateKill = FALSE` no launcher is
killed between the start of its sandbox and the record.  The code does not keep
`OneSandbox`, `AcceptingIsReachable` and `ReadyIsOwn` without them, as
[below](#where-code-and-documentation-differ); `WsbInv`, `CleanExit`, `ExitCodeIsTrue` and
`DrainedCallsAnswered` need neither.  Two launchers are enough because at most one is
active at a time and what it finds was left by one other; one call is enough because
calls do not interact.

In `Text.cfg`, `Dirs <- HostDirs` and the like give a constant the value of a definition of
`MCText`.  The host of the `Sandbox` instance has `/home` as a link to `/var/home`, `$HOME` named
either way, a workspace in the home, a user whose home is below `/usr`, which every jail shows,
and a `/bin` that is a directory.  Anything may be given with `--home`, the real home and what holds
it included: that the home is hidden is claimed when it is apart (`HomeIsApart`).

Every property of a passing run is listed in `PROJECT.json` with a mutant of
the code that breaks it.

## Fairness

Goroutines that can run do run: weak fairness of each goroutine's steps.  Timers
fire (`CloseTimeout`, `TimerFires`, `DeadlinePasses`).  The SDK's calls return once
their context is cancelled or the connection is lost (`HandshakeAborted`,
`DiscoverAborted`, `CallBroken`), and the loss of the connection of a dead process is
noticed (`ConnLost`).  Nothing else is assumed: the child program may never answer the
handshake, a listing or a call and may never exit, nobody must call `Start`, `Stop`
or a tool, and the client of `RunCommand` need not send anything; it takes what is
sent to it or disconnects.

In `Wsb` launchers, daemons, handlers and clients that can run do run (weak fairness of
`LaunchStep`, `DaemonStep`, `HandlerStep`, `ClientStep`), and a command whose call has lost its
client is killed (`CommandKilled`).  `PollExpires` is strongly fair: the ten seconds of
`wait_for_socket` pass although each look at the socket in between disables it
(main.rs:246-267).  Whether a launcher is started, a command ends by itself, a daemon
gets a signal or anything is killed is up to the environment.

In `exec`, `SlowClient = FALSE` is an assumption on time: what the shell left in the pipe
is sent within the 100 ms of `server.go:105`.  The liveness properties are harder with it,
because the deadline passes later.

## Proofs

Checked by TLAPS, for every number of children, tools, stoppers and callers, from
`ChildAssumption` (the nil child is no child) alone:

* `ChildProofs` proves the safety properties of `Child`.  None of them is
  inductive by itself: that a live process is owned needs to know what `Start` has
  made at each of its points (`StartShape`, `SessionShape`, `ProcShape`), that two Stops do
  not hold the same session (`OneHolder`), what a Stop in progress knows of its child
  (`StopShape`), and that a `Start` outlives the decision to stop only while that Stop
  waits for it (`StopAwaitsStart`).  `IInv` is their conjunction.  The proof has one
  lemma per action; `ChildInvariant` combines them, and the safety properties follow
  from `IInv` by short arguments of their own.  `StatusMovesForward` is an action
  property, from the same invariant.
* `ProxyProofs` proves the safety properties that hold under every interleaving of
  handlers, from `ProxyAssumption` besides.  A handler needs its child to behave as
  `Child` says, and a child needs its handlers to stop and call only children there are;
  so `IInv /\ ProxyInv` is inductive as a whole: every step of the proxy is a step of
  `Child` or leaves the children alone (`StepRefinesChild`), which keeps `IInv`, and keeps
  `ProxyInv` by one lemma per action.  Those lemmas need little of a child: that it is
  never new again nor stopped by itself, that what is over stays over, and that a Stop
  begins only where it is called (`QuietFor`, `NoNewStop`, proved of the steps of `Child`
  once).  `ProxyInv` adds what the properties lack: what the control point of a handler
  says of its child (`HandlerShape`), that a child not yet inserted is new and unknown
  (`FreshShape`), that a removed one is over and nobody comes back to it
  (`RetiredShape`), where a failed one ended (`ErrorShape`), that one in the map is
  there under its own name and nobody's to stop (`MapShape`), and whose a Stop is
  (`ClaimShape`).  `ProxyImplementsChild` is the refinement: the theorems of
  `ChildProofs` hold of the children of the proxy, and `RemoveEndsProcess` and
  `FailedAddEndsProcess` follow from them.
* `SerialProofs` proves what needs a client that keeps removes and reloads apart from other
  changes of their server, for any numbers of requests, names, tools and requests in flight: from
  `OnePerServer`, `SerialInv` is inductive together with `IInv` and `ProxyInv`.  It says that of two
  handlers that change one server both are adds (`Apart`); that a child out of the map was never
  started, is over, failed to start or is in the hands of a `remove_server` or of Shutdown
  (`Accounted`), which an add that overlaps a remove breaks by deleting the entry of a name that has
  become another child's (`EntryShape` is where `Apart` is needed); and that a registered tool is one
  of a child that is in the map, or is being removed, and all of the child's are registered unless a
  handler is at work on them or the child crashed (`ToolsShown`).  `SerialNoOrphan` follows from the first with the theorems
  of `ChildProofs`, `SerialTools` from the second.  `ConfigInv`, which is inductive with these,
  follows a configuration from the `add_server` that brought it through every reload
  (`SerialConfig`); `SerialReload` says that a reload preserves it.
  `SerialImplementsRegistry` is the refinement of `Registry`.  Its argument: the entry of a
  server is its child's configuration when nobody changes it (`Settled`), and what the
  handler that changes it knows of it while one does (`Worked`; `EntriesUnderInv`).  So a step of a handler
  changes the entry of its own server at most, and that only with its answer
  (`MoveLeavesEntries`, `GoingOn`, `Answering`); a listing, a tool call, a crash and the
  steps of the children change none; and the lookup of a tool call finds a server that is in
  the table or being added (`LookupServes`).  TLC confirms `SerialInv` and `ConfigInv`
  on the instance of `proxy_serial` (as additional invariants of its configuration).
* `NamespaceProofs` proves `RoundTrips` for names of every length: the separator in a
  namespaced name that was put there is the first one, because a valid server name has
  none and does not end with half of one; and `RefusalsAreNeeded`: in any other name a
  separator begins, at the latest at its end, and the first one (which exists because `<` on
  the naturals is well-founded) is found there.  Its assumption is `NamespaceAssumption`.
  `NamespacedNamesDiffer` follows from the first, and justifies that `Proxy` names a registered
  tool by the pair of its server and its name.
* `TextProofs` proves `ArgsSurvive` and `JailShowsWhatWasAsked` for any number of arguments and
  mounts of any length.  The tokenizer of `sh` is a recursive function of the position in the
  command line (`Scanned`), so the first is shown position by position: the scanner enters the
  quoted text of an argument in the state in which it left the last one.  The induction over
  positions and arguments is by the least one at which the claim fails (`IndexInduction`), as
  `<` on the naturals is well-founded.  For the second, the mounts are listed in the order of
  the code: what every jail has (`BaseMounts`), the home, what was asked for read-write, then what
  was asked for read-only; the last one at a path or above it is what the jail shows there.  An
  asked mount hides another only within it, where it shows the same directory of the host, and
  those that show something else come before all of them.  Of the mounts that may show the real home,
  those asked for are refused by `exposes_home`; one that every jail has shows a directory
  at its canonical path, so that the real home would be at `$HOME` itself, where the
  jail's own is mounted later (`HomeHidden`).  What is left is `HomeIsApart`, which the program
  does not check: `--home` names the real home or a directory above it, or `$HOME` is a path through a
  link and its canonical path is below `/usr`, `/etc`, `/dev` or a directory of the layout.  Without it the
  theorem says nothing about the real home, and the same as ever about the rest.
  `ShellAssumption` bounds the arguments of the runs and nothing else.
  `SandboxAssumption` says of the host that its links are in its root directory, as `/home` to
  `/var/home`, and point to directories, that a path the kernel has resolved has no link in
  it, that the directories every jail shows are not links (those of a merged `/usr`, which the
  jail repeats, are left out), and that the home exists.  A link further down is not covered:
  `exposes_home` resolves the path of a mount and compares it with the home, and does not look at
  what is below it.
* `ExecProofs` proves, for every amount of output and every pipe (`ExecAssumption`), that
  `ExecInv` is inductive: it ties the control points of the four goroutines to what has
  been closed, reaped and killed.  `GroupIsDead` follows from it alone.  `OutputComplete` and
  the refinement `ExecImplementsRunCommand` need a prompt client (`SlowClient = FALSE`), as the
  run `exec_slow_client` shows; the refinement maps each step of a goroutine, the timer, the
  client or a process to a step of the abstract call or to none.
* `ExecdProofs` and `WsbProofs` prove, for any numbers of launchers, daemons and calls,
  that `WsbInv` is inductive.  Its first part, about calls, daemons and clients and what a
  launcher's point says of its own sandbox and files (`SandboxOK`), needs nothing but
  `RunAssumption`, `DaemonAssumption` and `WsbAssumption`: from it follow `WsbExitCode`,
  `WsbDrained` and `WsbCleanExit`, whatever overlaps and whoever is killed.  Its second
  part is conditional on `~Overlap /\ ~LateKill`: that one launcher at a time makes or removes
  files (`Exclusive`), what that one knows of the PID file and of the socket (`FileOK`,
  `SocketOK`), and that a live sandbox is in the PID file or about to be (`Recorded`).  The
  last is what makes the probe of the next launcher meaningful; `WsbOneSandbox`,
  `WsbReachable` and `WsbReady` follow.
* `ChildImplementsLifecycle` is the refinement of `ChildLifecycle`, from `IInv`: the steps that
  change neither status, process nor the number of Starts and Stops under way are
  stutters, the return of the last one is `Settle`, for which `IInv` must show that nothing
  but a running child keeps its process.  With `ProxyImplementsChild` it holds of the
  children of the proxy too (`ProxyImplementsLifecycle`).

Only model-checked: liveness and fairness (`StopReturns`, `CrashDetected`,
`CancelledStartReturns`; `RemoveAnswers`, `DeadCallReturns`, `ShutdownEnds`, `CrashedToolsGo`;
`ExitReturns`, `ForceKills`, `DisconnectEnds`; `LaunchSettles`, `ClientReturns`), which are out of
the prover's reach.  Every invariant and every refinement of a passing run is a theorem.

## Where code and documentation differ

Each of these is a run that TLC ends with a counterexample; `PROJECT.json` quotes
the text.

* `child_early_call` – a tool call on a session that `start()` has published and
  then fails to commit blocks the `session.Close` of `start()`, which has no timeout, and
  with it the `Stop` that waits for that `Start` (`child.go:183`, `249-252`).  In the
  proxy a call reaches a child that is still starting when its tool was registered for
  a predecessor of the same name.
* `proxy_orphan` – an add whose child was stopped by a concurrent remove deletes the
  name although it maps to another add's child by now; that child outlives the
  proxy (`proxy.go:139-142`, `SPEC.md:150`).
* `proxy_crashed_tools` – a child that crashes between the status check of an add and
  the registration loop keeps its tools (`proxy.go:147-171`, `SPEC.md:145-147`).
* `exec_slow_client` – the read deadline applies to the shell's own output too: with a
  client slower than 100 ms, output is lost and the call reports a normal exit
  (`server.go:93-107`, `170`).

* `wsb_claim` – a launcher that has created the PID file and not yet written it is
  taken for a dead one: the other removes the file, and both have claimed the
  workspace (`main.rs:172-186`, `299-303`).  The run has three launchers, no client and
  nobody killed late.

Met while modelling, without a run of their own (TLC finds each of the first four
when the property or the bound named is put into a configuration):

* the crash callback checks under `p.mu` that the child is the current one and removes
  tools after it has released it: a reload in between loses the tools of the new child
  (`proxy.go:297-305`; `Proxy!SuccessorKeepsTools`, with two creating requests, one in flight at a
  time);
* `reload_server` copies the configuration, releases `p.mu` and then removes whatever
  has the name: after a remove and an add in between the new server is replaced by
  one with the configuration of the former (`proxy.go:198-208`, `SPEC.md:104-105`;
  `Proxy!ReloadKeepsConfig`, with four requests, two of them in flight; with a reload that
  no other change of its server overlaps it holds, `SerialReload`);
* a launcher killed between the start of its sandbox and the rewriting of the PID
  file leaves a file with its own number and a sandbox that runs: the next launcher
  starts a second one (`main.rs:353-367`; `OneSandbox` with `LateKill = TRUE`);
* a launcher that cleans up while another starts removes the other's files
  (`main.rs:284-287`; `AcceptingIsReachable` with `Overlap = TRUE`);
* a `--ro` mount covers every `--rw` mount within it, whatever the order on the command
  line (`sandbox/main.rs:231-236`): `wsb` mounts the directory of `grpc_execd` with `--ro`
  (`wsb/main.rs:335-343`), so a workspace inside that directory is read-only
  (`RightsAreKept` says when);
* a remove during the registration loop of an add removes the tools registered so
  far; the loop registers the rest for a server that is gone
  (`proxy.go:155-171`, `SPEC.md:91`);
* `list_servers` reads `StartTime` without the lock under which `start()` writes it
  (`proxy.go:246-247`, `child.go:194`, `SPEC.md:163`);
* the receiving goroutine kills the group before it reports a protocol violation,
  and the handler looks for the report without waiting, so that the violation may be
  answered with an exit event (`server.go:151-152`, `196-202`);
* `killPG` after the shell was reaped may meet another process group with the same
  number: `server.go:104`, and the selects of `119-123`, `140-143` and `160-164`, which
  may choose either case when both are ready.

## Not modelled

* `command_filter`, the test servers, tool pins and the release archive: no
  behaviour.
* Of `sandbox`: mounts of single files (`/dev/null`, `/dev/urandom`), the links of a merged `/usr`
  that the jail repeats (main.rs:82-90), the other options of `jail.txtpb`, the memfd and the exec:
  data for nsjail and system calls that leave no state in the program.
* Of `mcpmux`: an `add_server` whose name `ValidateServerName` refuses, which changes nothing
  (`proxy.go:116-118`); `Names` of `Proxy` are the valid ones, and `Namespace` models the refusal.
* Of `wsb`: the identifier of a workspace and its directories, the search for binaries, the
  log.
* Of `grpc_exec`: flags, the working directory, which nonzero code is returned.
* Process identifiers and their reuse, in `server.go`.
* The data race on `StartTime`: the value is only printed.
* The prefix writer of `child.go:335-347`.

## Plan

Done: `Child`, `Proxy`, `ExecServer`, `Namespace`; then the abstract `ChildLifecycle`,
`RunCommand` and `Registry` with their refinements, `Execd` with daemon and clients, `Wsb`,
`ShellQuote` and `Sandbox`; proofs of all the invariants and refinements.

Left, in this order:

1. Safety without `OnePerServer`: what of `Accounted` remains when changes of one server overlap.
2. `OneSandbox` and its companions under a weaker assumption than `~Overlap`.
3. Links below the root directory, those of a merged `/usr` among them, in `Sandbox`.
