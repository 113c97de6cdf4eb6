# A verification project for any-aicli-remote

The repository is a Go daemon (`backend/`), two phone clients (`ios/`,
`android/`) and a macOS launcher. The daemon starts one AI CLI *agent* process,
keeps one WebSocket to it, and lets any number of phone and web clients share
that connection. The hard part is the sharing. Everything a client sends passes
through tables guarded by a handful of mutexes, while the agent, the clients,
the timers and a shutdown may come and go between any two critical sections.

This directory holds TLA+ models of those parts, TLC configurations that check
them on small instances, and TLAPS proofs that cover every component modelled
here.
`PROJECT.json` maps every definition to the lines it stands for and lists the
hazards, runs, mutants, findings and theorems.

## 1. Inventory

Paths are relative to `src/`. "Hard" names the behaviour a test would hardly
reach; the properties in the last column are those that make the part correct.

### Daemon: hub (`backend/internal/hub`)

| Part | State | Operations | Hard | Correct when |
|---|---|---|---|---|
| connection lifecycle (`hub.go`, `agenttransport.go`) | `agent`, `agentGeneration`, `closed`, `connectionMutex` | `Ensure`, `publishAgent`, `agentDisconnected`, `DisconnectAgent`, `Close` | several goroutines dial at once; `Close` races a dial; teardown is two critical sections | one connection, the latest; nothing published after `Close` |
| client requests (`clientrpc.go`, `pending.go`, `clienttransport.go`) | `pending`, `clients`, `initResult` | connect, submit, write, expire, drop | five ways to remove an entry race each other | each request is settled once, none is forgotten, limits hold |
| internal calls (`rpc.go`) | `internal` and one channel per call | `CallRPC` | the reader must never block on a channel | a waiting call is in the table or has its answer |
| agent messages (`agentdispatch.go`) | the reader's locals | responses, notifications, session registration | the generation is checked before, not at, the table's lock | a late message changes nothing of the next connection |
| reverse requests (`reverse.go`, `reverseinteraction.go`, `sessions.go`) | `reverseRequests`, `sessionClients`, `reverseWait` | forward, answer, expire, replay, run an operation | forwarding, answering, expiry, disconnection, replay and teardown race | one reply at most, to the connection that asked, from an eligible client |
| terminals (`terminal.go`) | `entries`, per terminal `done`, exit status, output | create, output, wait, kill, release, close | a start races the close; kill waits without a deadline | no process survives its table entry |
| session bindings (`sessions.go`) | session and provider to the pinned directory | resolve from the catalog, capture from an answer, validate | several requests bind one session while its directory is moved; bindings outlive connections | all file operations of a session happen in one directory |

### Daemon: the rest (`backend/internal`)

| Part | State | Hard | Correct when |
|---|---|---|---|
| `loops`: scheduler, store | `jobs`, `tasks`, one goroutine a job, a JSON file | the daemon dies or a save fails between table and file; Create and Stop race `run` and `Close` | acknowledged jobs survive, refused ones do not, `Close` leaves none running |
| `process`: agent process manager | a state file, the process, its port | crash between spawn and save; PID reuse; two daemons in a hand-over | at most one owned agent; a foreign process is never signalled |
| `server`: life cycle and stack routes | two mutexes, `closing`, a retry flag | ensure, stop, start, authentication retry against `Close` | nothing is spawned after `Close` |
| `server`: HTTP, git, file, voice, skill routes | none | none of their own | request decoding |
| `room` | a file of JSON lines; each client's `since` | a write cut short, a compaction or a `Clear` between two polls | the newest acknowledged messages are there; feeds go forward |
| `sessionapi`: archive, history, rename | the file of archived sessions | the archive's read-modify-write | no change of the list lost |
| `fsapi` with `hub/sessions.go` | the pinned root of each session | a path is checked, opened and checked again while it may be replaced | one session, one directory |
| `provider/grok`: catalog, summaries | the agent's own files | the agent moves and rewrites them meanwhile | a rename is not undone unreported |
| `provider/grok/historydata` | offsets the clients hold | the file grows, half a line at a time, while it is read in windows | nothing repeated; nothing missed but far behind |
| `provider`, `grok`: interactions | the request kept between question and answer | clients name a question by position, the agent by text | an answer reaches its question |
| `process/redacting_writer.go` | the text held back | values split over writes, failed writes | no sensitive value in the log |
| `config`, `compat`, `cmd/` | the configuration file, secrets, the earlier program's files | two daemons start at once, one dies half-way; five layers of settings | one secret a data directory, nothing of the earlier program lost |
| `gitapi`, `skills`, `voice`, `terminalexec` | none | none of their own | pure functions of their input and of other programs |
| `atomicfile` | none | an end in the middle of a save | the old file or the new one |

### Clients

| Part | State | Hard | Correct when |
|---|---|---|---|
| Android and iOS clients | request table, connection generation, transcript | reconnect with requests in flight, echo of one's own prompt, replayed history | no turn shown twice or lost |
| macOS launcher | the daemon it supervises | starting a new daemon while the old one stops | one daemon, one agent |
| Apple shared storage, build scripts | keychain entries, none | none | |

### Interactions

```
 phone / web  --WebSocket-->  hub.HandleWebSocket --+
 HTTP routes  --calls------>  hub.CallRPC ----------+--> Ensure --> agent process
 loops        --calls------>  hub.CallRPC ----------+        (process.Manager)
 agent        --responses-->  reader of one generation --> pending / internal
 agent        --requests--->  reader --> reverseRequests --> subscribed clients
                                     \-> operation goroutine --> files, terminals
 server.Run   --Shutdown, loops.Close, hub.Close, process.Stop-->  everything
```

`stateMutex` guards the tables, `agentMutex` the pointer and the generation,
`connectionMutex` a dial from start to end. The first two are never held
together, and writes to sockets happen outside both. That is why one handler is
several actions in the models: each critical section is one action, and
whatever the code does between an unlock and the next lock is another.

## 2. Plan

1. `AgentLink`, `HubRequests` and their proofs. **Done.** This is the core:
   every other part of the daemon goes through it.
2. `ReverseRoutes`, the abstract `ReverseContract`, and the proof that the one
   implements the other. **Done.**
3. `Terminals` and its proofs. **Done.**
4. `Loops` and its proofs. **Done.**
5. `AgentProcess`, the process manager with the server's life cycle, and its
   proofs. **Done.**
6. `Room`, `History`, `Interaction`, `Archive`, `Redactor`: the daemon's
   smaller services, and their proofs. **Done.**
7. `Sessions`: a session between the hub's binding, the pinned directory and
   the provider's store, and its proofs. **Done.**
8. `Configuration`, the pure resolution of settings, and `Startup`, the
   daemon's start with its secrets and migration, and their proofs. **Done.**
9. Left to model: `ClientTurns`, the phone client's request table and
   transcript; the launcher's hand-over between daemons, composed with 5; and
   the algorithms without a caller that remembers anything: interval parsing
   and normalisation of loops (with its overflow), `limitedBuffer`, the line
   window of file reads, the options of a permission.

Abstract specifications worth stating: `AgentLink` for the hub (used below),
`ReverseContract` for reverse requests (used below), a durable set for the loop
store. The log of the room is not append-only (it is compacted and cleared), so
`Room` states what survives instead.

## 3. Modules and code

### AgentLink

`Ensure`, `publishAgent`, `agentDisconnected` and `Close`, with no tables. A
connection is named by the generation it was published under, so `agent = 0`
is the nil pointer. Each goroutine that may call `Ensure` is an element of
`Ensurers`; holding `connectionMutex` is the whole of dialing, with its
attempts, back-off and spawning of the agent process. Teardown is `Detach`
(under `agentMutex`, reset the pointer) then `Clear` (under `stateMutex`, empty
the tables), because that is where the code unlocks in between; `clearing` is
the set of generations in the gap. `Close` is a program of its own, `closing`,
from the flag through the sweep, the lock, the teardown and the wait.

### HubRequests

Extends `AgentLink` with the tables. A client or an internal call is a
goroutine with a program counter `pc`. The reader of a client handles one
message at a time, which is why a client has at most one `current` request.
Registering (limits, insertion), loading the connection, writing, and arming
the timer are four steps because the code unlocks between them. The agent
may answer anything it was sent, in any order and more than once; `Receive` is
the generation check, `Dispatch...` the later table look-up. `told` is the list
of what the hub sent about a request; nothing in the code reads it.
The shared step `Clears` is `AgentLink!Clear` with the tables emptied.

Abstractions: a request's payload is nothing but whether it is an
initialization request; identifiers are the requests themselves, which is sound
because `nextID` only grows. A client that reconnects is another client, as in
the code.

### ReverseRoutes and ReverseContract

Extends `AgentLink` again, with the requests the agent makes of the clients.
`reader` and `inbox` are the agent reader's position and message: forwarding to
several targets is one `ForwardSend` per target, since each is a socket write
that may fail and remove the client. `expiring` are the deadline goroutines and
`replays` the goroutines a subscription starts. Four disjoint kinds of request
take different paths: permissions, interactions, unknown extension
methods, and the operations the daemon carries out itself. The answer's
content is reduced to `answer`, `cancelled`, `error`, or `failed` for a write
that did not go through.

`ReverseContract` says what all of it is for: a request gets at most one
reply, while its own connection is up. `ReverseRoutes` implements it under
`latest <- agentGeneration, reply <- Outcome`.

### Terminals

Operations of `handleReverse` for terminals, as goroutines that are started,
look up, signal and await. A terminal's processes are its leader, a child in
its process group and a descendant that left the group: the code can signal the
first two only, and waits for all three through the output pipe. `Starts` reuses
the same operation slots, so an unbounded number of operations, at most two
at once, run against each terminal. Output bytes are left out.

### Loops

`Create`, `Stop`, `StopSession`, `Start`, `Close`, the job goroutine step by
step, and the JSON store. `disk` is the content of the store. Saving is
atomic (`atomicfile`), so a save happens or does not; crashes may fall
between any two steps, and `CrashInCreate` and `CrashInStop` put one between
the save and the answer to the request. `owed` and `refused` are history: jobs
whose creation was acknowledged and nobody has asked to stop, and jobs whose
creation was refused. Time is `TimePasses`, which may expire a job at any moment.

### AgentProcess

`process.Manager` and the part of `server` that calls it. A daemon's `stage`
is how far `Server.Run` has come, from listening on the HTTP port to the end of
the stop; `pc` is where the transaction under `agentLifecycleMutex` stands, and
`kind` what it serves: an *ensure*, a forced restart, or the retry after an
authentication. Status, the kill of an owned process, the check that follows
it, the spawn and the save are steps of their own, because the processes, the
port and other daemons move between them. Several daemons run on one data
directory and share `state`, the state file; the HTTP port admits one at a
time, but a port is free before its daemon has stopped its agent.
`Crash` ends a daemon anywhere.

A process stands for its number and start stamp together, as the state file
records them, so a number that passed to another process matches no state. All
daemons have the same configuration. Two pieces of history delimit the
properties: `lost` are the agents that a crash between spawn and save, or a
clean-up that failed, left to themselves; `contested` says that two daemons
ran at once.

### Room

`Say` holds the mutex from its read to its return, so its steps interleave with
crashes and failures but not with polls: `SayReads`, `SayCompacts`,
`SayAppends`, then `SayReturns`, or `SayFails` anywhere. `Tears` is the write
that is cut short, which leaves part of a line or all of it but the newline; the
next append is glued to it (`Appended`), as `O_APPEND` does. A line is its
identifier and its message, and a message is the number of its `Say`, so that
the order of the numbers is the order of saying. The identifier is drawn from
what was *read*, before the compaction. A follower is a client that polls with
the last identifier it got, through `handleRoomFeed`. The loops that keep the
lines that parse, and those above `since`, are `Selected` of the module
`Selection`, a recursive function, since the provers know nothing of the
library's `SelectSeq`. `History` uses the same module.

### History

`updates.jsonl` grows by whole lines or half ones while three readers look
at it: the live tail (`ReadLive`), the chat pages with their growing backward
scan (`ChatPage`) and the full pages with their budgets (`FullPage`). Offsets
count *half lines*: an odd one is inside a line, which is where every window of
bytes may begin, and all that `AdvanceAfterLine` must get right. A client of
each kind goes on from what the reply told it, so the properties are about
sequences of replies and not about one.

### Configuration and Startup

`Configuration` has no state: it resolves the document of either version, the
defaults, the environment (with the names before the rename), the provider's
options and the flags, in the order of the code, each step giving a document
or `Refused`. Fields that the code treats alike stand for each other. A
variable that is blank counts as not given; a flag does not: it has the
sequence of values that the command line gives it, the last of them replaces
what lies below even when it is blank (`LastGiven`), and then a directory
takes its default again and a blank bind is refused. A boolean flag takes
fewer words than a variable (`FlagReadable`). `Startup` adds the state:
configuration files that users edit and `config apply` replaces, `config
show`, and daemons that start at once on one home directory. `step` is what a
daemon is about to do and with which file. A start is a sequence of steps a
crash (`Ends`) may cut anywhere: resolve, then for each file of the earlier
program a look and a write, then for each secret a read or a generation, the
exclusive creation, the fill and the close. Each secret may instead be
`elsewhere`: in a variable, or in a file that a variable or a flag names.

### Sessions

One session between the three places that know it: `binding` is the hub's
entry (every table is keyed by session and no handler touches two of them, so
one stands for all), `at` what the paths name, with at most one link on the
way, `home` and `summary` the session's directories in the provider's store.
`request` is an HTTP request with all it holds: it resolves the session
(`Asks`, `AsksCatalog`, `Canonical`, `Pins`, `Binds`), then validates, opens,
validates and works (`Validates`, `Opens`, `Operates`), each a step because
users may move directories in between; or it renames the session (`AsksRename`
to `Replaces`). `Captures` is the other way to a binding, an answer of the
agent. An inode number belongs to one directory at a time, and to an open one
as long as it is open; `InodeOf` says whether it can be used again later.

### Interaction, Archive and Redactor

`Interaction` carries a structured question from the agent's frame over the
neutral request to the result the agent gets; who may answer and when is in
`ReverseRoutes`. `Archive` is the list of archived sessions: a call takes the
mutex, loads, changes, saves and answers, and may fail or die at each step;
`agreed` is the list the saved calls would make one after another. `Redactor`
is the writer on the agent's output: it holds back as much text as a value may
still need, and repeats what it held when a write fails. The marker of a redaction
and that of a restart are characters of their own (`#`, `!`), which the agent's
output does not have; a text like either in the output is left out of the model.

## 4. What the runs check

| Run | Instance | What it shows |
|---|---|---|
| `hub_limits` | 2 clients, 3 requests, table of 2, 1 per client, 1 connection | limits hold in every race of admission (`LimitsHold`); no request of a live client is forgotten (`NoneForgotten`) |
| `hub_generations` | 1 client, 1 initialization request, 1 internal call, the watcher, 2 connections, fair | each request is settled once (`SettledOnce`), no entry waits on a connection that is gone (`NoDeadCarrier`), the cached initialize result is fresh (`InitCacheFresh`), internal calls are served (`CallsAreServed`), entries settle (`EntriesSettle`) and `Close` returns (`CloseReturns`) |
| `routes_sessions` | 2 clients, 2 sessions, 1 permission | the answer taken is from a client that was in the session (`EligibleAnswerOnly`), departed clients are in no table (`NoGhost`) |
| `routes_contract` | 1 client, 1 interaction, 1 operation, 2 connections, fair | `ReverseRoutes` implements `ReverseContract` (`ImplementsContract`); only the end of an older connection's teardown loses a request of the connected agent (`AsksAccounted`); a route that reached a client ends (`RoutesSettle`) |
| `terminals` | 2 operations at a time, 1 terminal, 2 sessions, fair | no process is left without an entry or a killer (`NoOrphan`), `Close` reaps (`CloseReaps`), the exit status told is the true one (`StatusIsTrue`), `Close` and waits end (`CloseEnds`, `WaitsEnd`) |
| `loops` | 3 jobs, 2 sessions, limit 2, fair | acknowledged jobs are in the store (`AckedDurable`), refused ones nowhere (`RefusedLeavesNothing`), a job has one live goroutine (`JobsRun`), `Close` ends (`CloseEnds`) |
| `agent_process` | 2 daemons on one data directory, 3 agents | every agent is in the state file or in a transaction's hands (`Tracked`), there is one (`OneAgent`), none is spawned after `Close` (`SpawnBarrier`), a stop that succeeds leaves none (`StopLeavesNone`) |
| `services` | room: 1 follower, 6 messages, compaction at 3; history: 6 lines, pages of 2; interactions of up to 2 questions; archive: 2 calls at once, 3 changes; log: 7 characters | `AckedKept`: the newest acknowledged messages are in the room's file, but for one per torn write. `FollowersInOrder`: a follower gets messages in order and none twice. `MissedOnlyFarBehind`: without a torn write it misses one only by falling behind. `FollowerMissesOnlyFar`: the same of a live client of the history. `PagesAdjoin`: pages of the history meet without gap or overlap, and going back ends. `AnswersReachTheirQuestions`. `ArchiveLosesNothing`: concurrent changes, failures and crashes lose no saved change. `NoValueLogged`: however the writes split them, no sensitive value reaches the log, and nothing else is lost |
| `startup` | 2 daemons, 3 starts, 2 configuration files, 14 texts | settings come back as they were given (`SettingsRoundTrip`), each from the highest layer that gives it, where a flag given blank is a layer (`LayersRespected`); one pairing secret a data directory (`SecretLasts`); a ready daemon has the earlier program's files (`LegacyCarriedOver`) |
| `sessions` | 2 requests, 2 paths, 2 directories, 2 copies of the session, 3 changes of paths, 3 writes, 1 restart | the file operations of a session happen in one directory while a daemon runs (`OneDirectory`); no two renames replaced the same title (`RenamesChain`) |

Two runs check sentences of the repository that the code does not keep:

| Run | The sentence | The code |
|---|---|---|
| `routes_no_deadline` | `docs/PROTOCOL.md:209-210`: no client or the deadline, the agent gets `cancelled` (`PermissionsConclude`) | when every send fails no deadline is started (`reverse.go:220`) |
| `sessions_inode_reuse` | `hub/sessions.go:73-75`: never bound silently to a replacement directory (`OneDirectory`) | the identity is compared by device and inode number and nothing holds the directory open, so a directory that got the number of a removed one passes (`fsapi/root.go:69`) |

Disagreements met while modelling that have no run of their own. Those of the hub
and of the reverse requests first:

- A request already failed by the teardown of one connection is written to the
  next one (`clientrpc.go:113`), though `agenttransport.go:1-3` says that a
  write for a superseded generation is dropped.
- The late half of an old teardown drops routes of the new connection
  (`agenttransport.go:200`), against the same sentence.
- A timed-out interaction is answered with the permission outcome
  (`reverse.go:241`), though `reverse.go:365-368` says that an interaction never
  gets a permission-shaped result.
- A handler whose write fails answers its client even when the disconnection
  has already answered (`clientrpc.go:113-117`). `SettledOnce` excludes exactly
  that pair of answers.
- A response for a client whose closed flag is set but which is not yet removed
  is sent to nobody (`agentdispatch.go:56`); the test at `hub_test.go:160`
  expects a completion notice once the client is gone. This is the answer
  `lost` in `Completion`.
- The late half of a teardown also fails pending requests of the next
  connection (`agenttransport.go:190`).
- When all clients of a permission disconnect the route is kept for replay
  until its deadline (`clienttransport.go:141`), though `docs/PROTOCOL.md:209-210`
  says `cancelled` is returned.
- A reader that checked its generation before the teardown may insert a route
  after it (`agentdispatch.go:16`, `reverse.go:202`); nobody on the next
  connection waits for it, and its reply is dropped.

Of the loops, the agent process and the terminals:

- Loops: a second Stop after one whose save failed finds no job and reports
  success, while the job is still in the store and returns at the next start
  (`job.go:96`, `job.go:123`). `AckedDurable` counts a job as owed only until
  somebody *asks* to stop it.
- Loops: cancellation may arrive between the look and the fire, though
  `scheduler.go:1-2` says both are checked before every fire.
- Agent process: the next daemon can listen as soon as the old one has shut
  down its HTTP server, and may spawn and save an agent before the old one
  removes the state file (`lifecycle.go:131`), which then removes the *new*
  agent's state. That is why `Tracked`, `OneAgent` and `StopLeavesNone` are
  stated for daemons that do not overlap; `SpawnBarrier` holds regardless.
- Agent process: an identity is verified and then signalled by number
  (`inspection.go:219`); nothing the operating systems supported offer closes
  that window, and the model leaves it out.
- Agent process: a process whose start stamp or command line cannot be read is
  taken for somebody else's (`inspection.go:110-117`). If an agent that has not
  bound its port is misread so, a start spawns a second one. The model takes the
  operating system to answer about a process that runs, and `taskkill` to
  return when the process is gone.
- Terminals: the output is copied before `done` is looked at
  (`terminal.go:93-96`), so a final status may come with output that misses
  the end. A descendant that left the group and holds the pipe keeps `kill`
  waiting (`terminal.go:123`); `CloseEnds` is therefore stated for terminals
  without such a descendant.

Of the smaller services, the sessions and the start:

- Room: after `Clear` identifiers begin at 1 again (`room.go:271`), so a
  client that polls with an old cursor gets nothing until the new identifiers
  pass it. `MissedOnlyFarBehind` is therefore stated for followers that joined
  after the last `Clear`. A torn line costs the message appended after it
  (`room.go:197`): hence `tears` in `AckedKept`.
- History: a poll that finds nothing but part of one line takes it for read
  (`readers.go:27`), and the line is never delivered; `TooFar` excuses it. When
  the buffer of `limit * 4` chunks is full at the start of the file and holds
  fewer than `limit` joined messages, `has_more` is false though older
  messages exist (`readers.go:134`); `PagesAdjoin` therefore says nothing of what
  lies before the oldest message shown. The full pages keep chat before tool
  events of the same window (`readers.go:192-213`), so a message may be missing
  between two that are shown; `PagesAdjoin` is stated for the chat pages there.
  A line longer than the window stalls the paging: a window that has grown to
  its maximum holds at least two lines (`HistoryAssumption`).
- Sessions: between reading `summary.json` and replacing it a rename overwrites
  what the agent writes meanwhile (`sessioncatalog.go:142`); the mutex is the
  daemon's own. `git` is run in the directory's path after the validation
  (`gitapi/command.go:41`), so a swap in between goes unnoticed there.
- Archive: a toggle that a client repeats because it did not see the answer undoes
  itself (`archive.go:61`).
- Redactor: after a write that fails half-way the whole text is still pending
  and is written again at `Close`, and `os/exec` stops copying the agent's
  output; `NoValueLogged` marks the place with `!`.
- Start: a daemon that dies between creating the file of a secret and filling
  it leaves a file no later start accepts (`resolver.go:318`), though
  `docs/DEPENDENCY_DECISIONS.md:334-335` has private state replaced as a
  complete file. A file of
  the earlier program that cannot be read counts as none (`compat.go:128`), and a
  new secret takes its place: hence `faults = 0` in the properties. `config
  apply` accepts a provider option that every start refuses
  (`factory/options.go:29-48`).
- Server: the reply of a history query for an unknown session lacks
  `childAgents`, which `docs/PROTOCOL.md` lists for every reply.

### Bounds, and why they are enough

`MaxGeneration` is a guard on `EnsurePublish`. Two generations are what the
races need: the old connection's teardown and late messages against the new
one. The runs whose properties concern a single connection use one. Two clients
give every race for the table's last slot and every hand-over of a route; three
requests against a table of two make one be refused. `Jobs` (three, limit
two) makes both the limit and an identifier stopped and never reused occur.
One terminal with two operations reaches every pair of operations on it;
terminals share only the table and the close flag, and the proof
obligations on them are per terminal. Two daemons give the hand-over and the
adoption of an agent by the next daemon, and three agents let one be restarted and
replaced and still leave one to be spawned.

`services` explores five modules one at a time: one of them moves while the
others stay where they began (`MCServices`). They share no variable and each
property reads the variables of one, so a state of the product violates a
property only if the state of that one module does. The bounds: `MaxSays` is
twice the compaction's threshold, so the file is compacted and grows again
beside a `Clear` and a torn write (`MaxClears`, `MaxTears`). `MaxLines` is
three pages of two, and the windows are from a line and a half to the whole
file and begin inside a line as often as not; the file that a live client
follows has lines of two kinds, since `ReadLive` asks only whether a kind is
kept. `MaxCalls` lets two changes race and a third see the outcome, with a
crash (`MaxCrashes`). `MaxWritten` is longer than the longest value with its
overlap, `MaxWrite` splits every value. The frames and answers of `MCServices`
have each way to be well formed and each to be refused; keys are two
characters long at most, enough for a leading zero. In `startup` a start costs
one and an edit of a configuration file two (`EditCost`) of `MaxStarts` = 3:
three starts, or one edit before or after one start; `MaxEdits` and
`MaxFaults` are 1, and `config show` is asked once after each write. In
`sessions`, `MaxSwaps` is three since a replacement that is noticed late takes
a removal, another directory and a return; `MaxWrites` counts titles and moves
together, two for racing renames and one for what they race with; after
`MaxRestarts` the daemon binds afresh.

An interaction that was answered, a log that was closed and a home directory
whose starts are used up have no next step, so `services` and `startup` do not
check for deadlock. Every other run does.

Wherever a run leaves out a kind of
participant (`Calls = {}`) another run has it. Symmetry is used in the runs
without liveness only, over sets the module treats alike.

### Fairness, and why the code justifies it

Go schedules every runnable goroutine, so the steps of a goroutine that need
nobody else are weakly fair: handlers, readers that hold a message, teardowns,
`Close`, operations. Dials, writes, fires and operations are bounded by the
policy's timeouts, timers fire. Nobody is assumed to connect, to ask, to answer
or to hang up, the agent may stay silent for ever, and a terminal's processes
may run for ever. One strong fairness: in `Loops`, Go's `select` chooses at
random between a timer and a cancelled context when both are ready, so a
goroutine that passes the select again and again does not take the timer each
time (`SF_vars(Quits(j))`).

## 5. What is proved

The proofs cover every modelled component, for every value of its constants, in eight
modules:
`AgentLink`, `HubRequests`, `ReverseRoutes`, `Terminals` and `Loops` have one each,
`AgentProcess_proofs` is about `AgentProcess` and `Redactor`, `Sessions_proofs`
about `Sessions` and `Interaction`, and `Storage_proofs` about `Configuration` with
`Startup`, `Room`, `Archive` and `History`. All safety invariants that a run checks
are theorems. Each has the same argument: an inductive invariant, one lemma per
conjunct that needs its own reasoning with one step per action, and the properties as
its consequences. The parts about texts and lists rest on lemmas about their
operators besides. Those need induction over data, and a lemma `Induct` (or a step
that takes the least counterexample) gets that from the least element of a set of
naturals, since the library's induction rules take an operator as a parameter.

`AgentLink_proofs` and `HubRequests_proofs` hold for every number of
clients, requests, calls and connections and for every limit. They assume only
`LinkAssumption` (the bound is a natural number, the two reserved holder names
are nobody's) and `HubAssumption` (the kinds of goroutine and of identifier are
disjoint and the limits are natural numbers).

- `LinkInvariant`: `LinkInv` is inductive. Besides types it has
  `CurrentIsLatest`, `DialerFindsNone` (while an ensurer holds
  `connectionMutex` there is no connection, which is what makes publishing
  safe), `ClearsConnections` and `CloserHolds` (where the closer stands when
  it holds the mutex, which is what makes `CloseBarrier` inductive).
- `HubImplementsLink`: each step of `HubRequests` is a step of `AgentLink` or
  leaves its variables alone. Hence `HubCloseBarrier`, `HubCurrentIsLatest` and
  `HubPublishReplacesNothing` follow from the smaller module.
- `HubTypeCorrect`: `TypeOK` with `Handling`, which ties a client's program
  counter to its current request.
- `HubNoDeadCarrier`: the strengthening is `CarrierInv`, which carries the fact
  from the moment `sendAgent` loads the connection: an entry is in the table
  before its connection is loaded, so either the teardown has yet to clear the
  table or the entry is gone.
- `HubSettledOnce`: `SettledInv` adds what is known of a request from the
  place it is in. A request in the table, or one not yet registered, has been
  told nothing (`UntoldWhilePending`, `UntoldInHand`). One whose handler still
  runs after its entry went has been told at most what dropped the entry
  (`OnlyDropped`), and what a reader holds has been written
  (`InboxCarried`).
- `HubLimitsHold`: `LimitsHold` bounds the cardinality of the table and of each
  client's share, so it is inductive once the table is known to be finite
  (`LimitsInv`). Only `Register` adds an entry, to its own client's share, and
  it has counted both in the same critical section (`TableSteps`).
- `HubInitCacheFresh`: what a reader holds was written to its own connection
  (`InboxFrom`), and it fills the cache only if the entry is still in the
  table. By `HubNoDeadCarrier` that connection then has yet to be torn down.
- `HubCallsAreServed`: `ServedInv` says of every place a call can be in whether
  it has an entry and whether it has a response. The entry is taken before the
  response is put on the channel, which is why there is never a second.
- `HubNoneForgotten`: the five ways to remove an entry each tell the client, or
  lose it to a closed connection. `Presence` supplies what the model's guards
  leave unsaid: a client connects once, before its first request, and a detached
  entry's client has gone.

`ReverseRoutes_proofs` assumes `LinkAssumption` and `RouteAssumption` (the four
kinds of request are disjoint). The main theorem, `RoutesImplementContract`,
needs to know that whoever writes a reply is the first to. `OnePlace` says that
a request is in one place (not yet come, in its reader's hand, in the table,
with an operation), `Unreplied` that nothing was written to it there; every
step that writes a reply also takes the request out of its place, so both are
inductive. `Reading` ties a reader to the connection its request came from, and
`DialerFindsNone` of the link makes a publication the contract's `Up`. The
properties about clients rest on `TargetsVisited` and `GoneIsClosed`: a target
has been in the session of its request, also after a replay, and a client that
is gone is closed and a target of nothing, in the table or out of it.
`RoutesAsksAccounted` is an action property, since the invariant one expects, that
no request of a connected agent is forgotten, is false with two connections: the
second half of an older teardown empties the whole table. The theorem says that
this step is the only one, for any number of connections; it needs to know that a
request came over a connection already published (`AskedPast`).

`Terminals_proofs` assumes `TerminalAssumption` (the closer is no operation).
What all three properties rest on is `Custody`: a terminal whose exit is not yet
recorded is in the table or in the hands of an operation, or of `Close`, that has
found it and will wait for it. `Accounts` relates the process, the wait goroutine
and the stored status, and `Barrier` the stages of `Hub.Close`: once the table has
been taken nothing enters it, and what was taken is killed before `Close` waits.
`NoOrphan` is inductive with those three. `CloseReaps` follows at the end of
`Close`, when there is no table, no operation and nobody's hands are left.

`Loops_proofs` assumes `LoopAssumption`: the identifiers are a finite set (any
finite set), each has a session, and the limit is positive. `AckedDurable` is
not inductive. A save writes the *table*, so the table must hold what is owed
whenever a daemon has loaded it (`OwedHeld`); and that survives a restart only
because `load`, which cuts a store down to the limit, never meets a store above
it (`LimitHolds`). A refused identifier stays away because none is drawn twice
(`DrawnOnly`), and a job has its goroutine after `Start` because nothing
runs before (`NoneBeforeStart`). `LoopInvariant` is the conjunction; the other
theorems name the properties.

`AgentProcess_proofs` assumes `ProcessAssumption`: somebody else's process and
the value for "nobody" are neither daemons nor agents. `Tracked` becomes
inductive with `Alone` (without an overlap, every other daemon has not begun or
has ended) and `NothingOwned` (a transaction about to spawn has seen that
nothing it owns is alive, and nothing has changed that since), and
`TransactionsRun` ties the transactions to the stages that allow them.
`OneAgent` follows by counting: an agent that is not lost is the one in the
state file or the one in the hands of the daemon that runs, and `NothingOwned`
excludes both at once. `SpawnBarrier` and `StopLeavesNone` are action
properties proved from the same invariant.

The same module proves `NoValueLogged` from `RedactorAssumption` (the markers are
not in the output's alphabet, the sensitive values are finitely many). The writer
scans from the left and takes the longest value at each place, so it is not obvious
that what it does piece by piece is what it would do to the whole. `Safe(t, b)` says
that no value can reach from before `b` over the end of `t`; up to such a boundary
the matches in `t` are those in any text that begins with `t` (`StartMatches`). From
that, `CutStream`: what is put out of `t`, and then of what it held back and what
follows, is what is put out of both at once. So the invariant is `Ahead`: whatever
comes yet, redacting all of it at once gives the log so far and then what is held back
with what comes. A failed write may leave any part of
what it was to write: a start of a clean text is clean (`CleanStart`, `PartIs`), and
no value reaches over the restart marker (`RestartIs`), so `RInv` keeps the log clean
in all three states of the writer.

`Sessions_proofs` assumes `SessionsAssumption` (paths, directories and `None`
are different things, copies are finitely many numbers), and
`SessionKeepsDirectory` that `InodeOf` is injective: without it the theorem is
false, which is what `sessions_inode_reuse` shows. `DirectoryInv` says that a
session in the store names a workspace (`Placed`), that a request past its
resolution holds the hub's binding and has opened the directory that was pinned
(`Following`), and that the directories operations ran in have the pinned
number (`RanPinned`). The binding changes only from `None`, when `ran` is empty
and nobody holds one, so all of it is kept. `RenamesChain` needs to know that
titles are drawn once (`TitlesNew`, `TitlesKnown`) and that between the read
and the replacement of a summary no other rename replaced it (`ReadsLatest`),
which is what the mutex is for.

Its second part assumes `InteractionAssumption`: frames have lists of questions, and
the entries of an answer are finitely many and their keys are texts. An answer to a
question is found by `CHOOSE` among the keys that name it, so the theorem
`AnswersArrive` needs that there is one only. Without leading zeros, two keys with the
same number are the same text (`KeysDiffer`): the number determines the digits from
the last one on (`AgreeAlong`), and a key that had digits left over would begin with a
zero (`NotShorter`). On the other side `QuestionsValid` has refused frames in which two
questions have one text (`QuestionsDiffer`). Together an entry comes under the text of
the question its key names (`ByQuestionIs`), for keys and lists of any length.

`Storage_proofs` assumes `ConfigurationAssumption` (the default ports are in range
and differ, there is the limit that older documents lack), `StartupAssumption`
(directories are non-empty paths, documents have the fields of a document, flags
have sequences of values, the earlier program left an archive that is absent,
unreadable, or of one of its two formats), `RoomAssumption` (the limits are positive
and a compaction retains at most as many messages as set it off),
`ArchiveAssumption`, and `HistoryAssumption` (a window of bytes holds two lines or
more). It has five parts.

- The settings. `NormalizeDocument` leaves a normalized document alone and fills
  only what is not given (`NormalizeFields`, `NormalizeFixed`), so a document that
  was accepted comes back when it is saved and loaded (`SavedComesBack`).
  `ResolvedFields` takes a resolution apart into the document it began with and
  what was laid over it, and `LayersLaidOver` says that choosing the first layer
  that gives something is the same as laying the layers over each other from the
  last. `ConfigurationInv` keeps what each file holds
  (`FilesInv`), what was applied to it (`AppliedInv`) and what `config show`
  printed (`ShownInv`); `SettingsRoundTrip` and `LayersRespected` follow, for any
  files, environments and flags, blank and repeated ones included; that a boolean
  flag was readable follows from its resolution being accepted.
- The start. `StartInv` says, as long as nothing failed: what a daemon copies is
  the earlier program's (`Copying`) and what it is past it has carried over
  (`Carried`). It makes a pairing secret only where there is none to carry over,
  and goes on with what the file holds (`Making`). A directory's file is absent or
  the earlier program's, and what was used in it is what the file holds
  (`DirectoryInv`); the exclusive creation lets one daemon fill it (`OneMaker`).
  Daemons of one directory disturb each other only through its files, and
  `FilesChange` is all that a step does to them (`Bystander`): a file is written
  where there is none, or with what it holds.
- The room. `SelectedPicks` says what `Selected` returns: an ascending choice of
  exactly the positions that are wanted. It rests on
  `Induct`. `FileInv`
  (the readable lines ascend, by identifier and by message), `HeldInv` (what a `Say`
  has read covers the file, also after its own compaction) and `FollowInv` (what
  lies above a cursor is newer than all its follower has) give `FollowersInOrder`.
  `AckedKept` counts: `KeptInv` says that the messages lost, and the one that the
  next append would lose (`Debt`) or has just lost (`Glued`), are no more than the
  writes cut short. A line without its newline is never acknowledged, and a
  compaction loses none of the newest because in ascending lines numbers grow at
  least as fast as positions (`Spread`). `MissedOnlyFarBehind` needs to know that
  a message missing from the file has enough newer ones there (`StoredInv`), and that
  a cursor is not above the last line (`Reached`), so that the next message gets an
  identifier above it; `Excused` says of each message a follower lacks that it was
  not passed or that enough newer ones were received.
- The archive. `HolderWorks` says that a call between its lock and its return is
  the one that holds the mutex; hence what one has loaded is what was agreed, and
  what it saves is the agreed list with its change.
- The history. Lists of line numbers that rise and have the same members are equal
  (`ListsOne`), so every reader is described by the *set* of lines it answers:
  `InOrder(s, S)` says that `s` lists `S` in order, and selecting, joining and
  cutting lists are facts about sets (`SelectedRises`, `ListsJoin`, `ListsEnd`). For
  the live client `LiveInv` says that it has every kept line that ends at its
  position or before, but for those it is excused of. A position inside a line comes
  only from a file whose torn end is all that is new, and `Spares` says that this
  line is then excused. For the paging one, a chat page always begins at the start of
  a line (`ChatPageIs`), so a window ends where the next one begins and no line falls
  between (`WindowJoins`), which `PagerInv` says of all pages together. The scan
  grows until it ends a page, at `MaxScan` at the latest (`ScansGrow`), so there is
  a least one that does (`LeastIs`, `ScanFound`). Appended lines change no
  window below the old end (`WindowKeeps`).

Some theorems state properties that no run checks, because they follow from
another's invariant or are the types: the `TypeOK`s, `CurrentIsLatest`,
`CloseBarrier` and `PublishReplacesNothing` of the hub, `RoutesAreTimed` and
`CloseWaitsForOperations` of the reverse requests, `LimitHolds` and
`CloseBarrier` of the loops. Requests of an unknown extension method are in the
theorems of `ReverseRoutes`, for any set of them, and in none of its runs.

Only model-checked: everything about liveness and fairness (`EntriesSettle`,
`CloseReturns`, `RoutesSettle`, `CloseEnds`, `WaitsEnd`), which is out of the
provers' reach, as `ENABLED` is. `PagesAdjoin` includes that each page begins before
the one it continues; that going back therefore ends is liveness and not stated as a
theorem.

## 6. What is not modelled

Everything in the inventory not named in section 3; `PROJECT.json` gives the
reason for each component. In the modelled parts: payloads and wording,
notifications broadcast to clients, the heartbeat's timing (a client's socket
may close at any time), `IngestClient` tokens, authentication and HTTP
decoding. In the room, the list of members. In the sessions, the resolution of
a path *below* the root (`os.Root`'s), the content of files, chains of links,
and the table of bindings beyond one session. In the sessions, too, a scan of
the catalog is one step, although it reads one summary after another. In the
start, the content of secrets in files that were named explicitly, the JSON
schema and the pairing address. In the history, what an update says beyond its
kind. `git`, voice and skills run other programs or read files and keep
nothing. The phone clients and the launcher are left for the plan's last step.
A data race or weak memory is not modelled, since the shared state is behind
mutexes. The agent is external: it may answer anything it was sent, ask
anything, and go away at any time.
