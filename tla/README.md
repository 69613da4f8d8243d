# A model of the Zyvro engine

TLA+ modules, TLC runs and TLAPS proofs about the engine of this repository: the
daemon `zyvrod` that runs workflows on a user's machine, the engine it runs them
with, and the project folder it keeps them in.

## The system

A workflow is a graph of nodes. The daemon serves an HTTP API to an editor and an
MCP surface to agents, keeps everything as JSON files under `.zyvro/` of the opened
project, and runs workflows in goroutines of its own.

| part | source | state it keeps | operations | modelled by |
|---|---|---|---|---|
| Workflow graph | `engine/graph.go` | none | `TopoOrder`, `UpstreamOf`, `ToolNodesOf`, `SubgraphForNode` | `Graph`, `TopoOrder` |
| DAG executor | `engine/runtime.go` | outputs, replayed set of one run | `ExecuteWithReporting`, `cachedOutput`, the nodes that ask a provider | `Execution`, `Calls` |
| Replay cache | `engine/cache.go`, `engine/files.go`, `cmd/zyvrod/main.go` | none: read from run files | `ComputeFingerprints`, `LoadCache`, `replayCache` | `Execution` |
| Run lifecycle | `cmd/zyvrod/main.go` | one record per run, in memory and on disk | `prepareRun`, `execute`, `runRecorder` | `Execution`, `RunTools` |
| Batch driver | `cmd/zyvrod/batch.go`, `localstore/batch.go` | the batch file, `batchStop`, one private copy per driver | `createBatch`, `retryBatch`, `cancelBatch`, `driveBatch` | `Batch` |
| Provenance | `engine/provenance.go` | paths read in one run | `sourceOf`, `resolveSource` | `Provenance` |
| Brain agent | `engine/brain.go` | the conversation of one node run | `runBrain` | `PluginHost` |
| Plugin host | `plugins/*`, `engine/plugins.go` | call budget, script clock of one node run | host functions, `sandboxRun` | `PluginHost` |
| Packs | `cmd/zyvrod/packs.go`, `plugins/pack.go`, `plugins/registry.go` | the registry and its listing | `loadPacks`, `Load`, `Install` | `Packs` |
| Workflow and run store | `localstore/localstore.go` | workflow and run files, a mutex | create, update, duplicate, delete, list | `Workflows`, `Shelf`, `RunTools` |
| Configuration | `localstore/machine.go`, `secrets.go`, `preference.go`, handlers of `main.go` | keys in two places, addresses in two places, the order | `setSecret`, `deleteSecret`, `setProviderOrder`, `setProviderEndpoint`, `providerConfig` | `Settings` |
| Provider routing | `providers/*router.go`, `preference.go`, `endpoints.go` | none | five routers, credentials, models | `Routing` |
| Provider adapters | the rest of `providers/*` | one call: its job, its process | HTTP exchanges, video jobs, local CLIs | `Calls` |
| MCP surface | `cmd/zyvrod/mcp.go`, `mcp/*` | none | tools over the functions above, `waitForTerminal` | `RunTools` |

They interact through the project folder and little else: a run keeps its record in
memory and rewrites its whole file at every transition, a poll reads the file, a
later run reads earlier files for its replay cache, a batch is a file that names
runs. The two pieces of shared memory are `daemon.batchStop` (which batch has a
driver that can be told to stop) and the pack registry.

What is hard: requests that read, decide and write in separate steps while a driver
rewrites the same file; a driver that can be stopped only once its goroutine has
registered; files that two processes, or two handlers without a lock, read and write
back; writes that fail and are only logged; a paid job that goes on at a provider
after its reply was lost; a process that goes away at any
step and looks at nothing when it comes back; fingerprints that stand for results
they do not fully describe. `PROJECT.json` lists each of these at its line, with the
properties that would catch it going wrong.

What makes each part correct:

* graph: an order of the whole data flow in which sources come first, exactly when there is one;
* runs: an outcome is final, a completed run did all of its work, what is replayed is what would have been computed, every run ends;
* batches: what the file says is backed by run files, completed files are not run again, a cancel is honoured, one writer per batch;
* configuration: saving one provider leaves the others alone, a deleted key does not come back, what the panel calls covered is served;
* workflows: every change happens at once, to the workflow as it stands, and none to one that is gone;
* packs: what runs is what is listed, from one reading of the folder;
* plugin host: budgets bound what a node run can spend, a waiting node is not killed, a spinning one is;
* providers: the first provider that can answer is asked, once, in terms it understands; what is answered is what it made; every call ends.

## Modules

`Graph` has the pure operators of `engine/graph.go`. A graph is its node list in the
editor's order and its edge list in the order drawn; an edge is a data edge unless
its kind is `tool`. `WellFormed` asks of a graph that node ids are unique; edges may
be doubled, loop, or name nodes that are not there. `TopoOrderOf` is the order as a
recursive function of turns (`Turns`): one `Turn` takes the head of the queue and
appends what it frees. `Ancestors(g, n)` is what `SubgraphForNode`'s walk collects: the
nodes of every set that holds `n` and, with a node, what feeds it (`Fed`).

`TopoOrder` is Kahn's algorithm as the code runs it. `waiting[n]` is the set of data
edges `n` still waits for, so `degree[n]` is its cardinality; each edge out of the
node just taken is released in a step of its own, in edge order.

| action | code |
|---|---|
| `Validate` | lines 60-85: dangling data edges, `dataTouched`, degrees |
| `Seed`, `Seeded` | 86-91 |
| `Take` | 93-100: the head of the queue, skipped when no data edge touches it |
| `Release`, `Released` | 101-106 |
| `Conclude` | 107-118 |

`Execution` is the life of the runs of one workflow. A run's goroutine is
`live[r]`: a program counter, the record it keeps (`mem`), its fingerprints, cache,
order, outputs and context. `record[r]` is its file. A value is the account of how
it came to be (node, configuration, run input, file contents, tools, upstream values), so two
values are equal exactly when everything they depend on is; a fingerprint is the
structure `FingerprintOf` hashes. Every write of `runRecorder` is its own step, and
may fail; the process may go away between any two. The workflow is any that can run:
well formed, without a dangling edge or a cycle (`ExecutionAssumption`); what becomes
of one that cannot is `TopoOrder`'s verdict.

| action | code |
|---|---|
| `PrepareRun` | `startRun`, `prepareRun` |
| `Begin`, `Plan`, `RefuseTarget` | `execute` up to `ExecuteWithReporting` |
| `StartNode`, `ReplayNode`, `ExecuteNode`, `FailNode` | the loop of `ExecuteWithReporting` and the closure of `NodeStart` |
| `FailRun`, `MarkReplayed`, `Complete` | the rest of `execute` |
| `EndContext` | the 30 minute deadline, or the batch's cancel |
| `EditNode`, `EditFile`, `Stop` | the user, another program, the process going away |

`RunHistory` is what run files promise to whoever polls them: a run is accepted as
queued, its progress only grows, an outcome is final. `Execution` implements it
(`FilesKeepHistory`), with a run's finished nodes as its progress.

`Batch` is one batch: its file, the run files of its items, `batchStop`, drivers and
HTTP requests. A driver owns a private copy of the plan and rewrites the file from
it. A request reads the file, checks `batchStop`, and writes in three steps, because
the code holds no lock across them. `batchStop = d` when the map holds the cancel
function of driver `d`. An execution is three steps here: the record written as
running, its outcome, the read-back.

| action | code |
|---|---|
| `CreateBatch`, `Spawn` | `createBatch`, `newBatch` |
| `ReadBatch`, `CheckNotRunning`, `SaveRetry` | `retryBatch` |
| `ReadBatch`, `LookupStop`, `SettleCancel` | `cancelBatch` |
| `Register`, `MarkRunning`, `SkipCompleted`, `TakeItem`, `Finish`, `Leave` | `driveBatch`, `finish` |
| `RefuseItem`, `PrepareRun`, `MarkItemRunning`, `StartRun`, `EndRun`, `SettleItem` | `runBatchItem` |
| `Stop` | the process going away; `main` waits for requests only |

`PluginHost` is one execution of a node written in Lua. `pc` is where the script's
goroutine is: between two instructions (`lua`), past the context check of one
(`step`), inside a function of Go's library (`library`), inside a host function
(`host`), handing over its result, gone. `guards` counts the pcalls it is inside of, so
an error unwinds or ends the script as in Lua. `again` is how many functions the library
functions under way still call, the current one included: `table.sort`, `string.gsub`
and `pcall` call others back, host functions too, and nothing looks at the context in
between. `turn` is the host function's dealing with a provider: one request, an agent's
turns, or the two to five passes of a matte; and whether a helper that a CLI left behind
holds it. `clock` is the `scriptClock`; `ran` is what a stopwatch held beside it
would show, and `bill` and `late` count what the code does not.

| action | code |
|---|---|
| `NextInstruction`, `Compute`, `RaiseOwn`, `ReturnOutput` | the Lua machine under `newState`'s context, `runNode`, `output` |
| `CallLibrary`, `EndCallback`, `LeaveLibrary` | the library functions `allowedLibFuncs` leaves, as `wrap` forwards to them |
| `RefuseCall`, `SpoilCall`, `EnterCall` | `bindNode`, `luaLLM`, `chargeProviderCall` |
| `AskProvider`, `CallTools`, `AnswerTools` | the loop of `runBrain`; a plain provider call is one turn of it |
| `NextPass` | the passes of `runRemoveBackground` |
| `HelperHolds`, `HelperLeaves` | `runLocalCLI`, whose `cmd.Run` waits for the output to be closed |
| `ReturnCall`, `FailCall` | the end of a host function, `fail` |
| `Send`, `TakeResult`, `GiveUp` | the channel and the `select` of `sandboxRun`, `explainError` |
| `WatchScriptTime`, `WatchHeap`, `RunDeadline` | `watchScriptTime`, `watchHeap`, the context of `startRun` |
| `ScriptTick`, `HostTick` | time |

`PluginHost` bounds what a node *sends*; who it sends to, and what becomes of it, is
`Routing` and `Calls`.

`Routing` has the routers as operators over a configuration, the record
`providerConfig` builds: which providers do a job (`ProvidersFor`), which of them can
be used (`Has`, `Usable`), who answers (`Resolve`, `PreferredOrDefault`, `OwnRule`),
with which credential and model. One definition stands for the five routers where
their code is the same and names the role where it is not.

`Calls` is one node's call. `cfg` and `node` are what it is given; `sent` is every
request that costs, `job` the provider's side of a submitted job, `child` the process
of a CLI, `ctx` the run's context, `answer` the outcome. A model name stands for
whose name it is: a provider's id for a name of that provider's.

| action | code |
|---|---|
| `Refuse` | the guards of the nodes in `engine/runtime.go` (`LLMRefuses`, `EditImageRefuses`, ...) and of the adapters (`VeoRefuses`, `BflVideoRefuses`, `CLIRefuses`, ...) |
| `Ask`, `Answered` | one HTTP exchange; `Accepted` says what each adapter takes for an answer |
| `MatteAnswered` | the white and black passes of `runRemoveBackground` |
| `BflSubmit`, `VeoSubmit`, `Wait`, `Poll`, `VideoDownload`, `BflDownload` | `bflvideo.go`, `geminivideo.go`, `blackforestlabs.go` |
| `StartCLI`, `CLIReturns`, `KillChild` | `runLocalCLI` and the four CLIs' readers |
| `StoreImage`, `StoreVideo` | `storeImage`, `storeVideo` |
| `JobMoves`, `ChildExits`, `HelperLeaves`, `ContextEnds` | the provider, the process, the run's deadline or end |

`Requests` is what every handler of the daemon is built on: a script is a set of
requests that come together, `req[r]` is where each stands and what it saw, `mu` who
holds the store's mutex, and `Mishap` one failed write or one restart. On it:

* `Settings` (the configuration): `machine`, `secrets`, the preference file as
  `inode`, `published` and `partial`, because its writers share the name of the file
  they write beside it and none holds a lock. Every read and every write of a handler
  is a step of its own (`BeginSet`, `SetOnMachine`, `SetInProject`, `AnswerSet`, ...).
  Of its histories, `kept` is the request whose order the preference file must hold: the
  last that was saved by a request that had the file to itself, until two rewrite it
  together (`shared`);
  another window's daemon saves in two steps of its own (`OtherReads`, `OtherWrites`).
* `Workflows`: `shelf` is the workflow files. A save holds the mutex from reading the
  file to replacing it (`ReadToReplace`, `WriteUpdate`); a create with a description
  is two such sections, a copy writes the copy and then counts it. `Shelf` is what
  this promises, and `Workflows!ImplementsShelf` says that it is kept.
* `RunTools`: `record` is the run files and `going` the goroutines. `StartRun` and
  `RecordRun` are `prepareRun`; `RunReadsProjectKeys` and `RunReadsMachineKeys` are
  the two reads of `mergedSecrets`; `PollRun`, `AfterPoll`, `WaitRunsOut` and
  `ReadStatus` are `waitForTerminal` and the tools around it.
* `Packs`: `folder` is what the user edits, `registry` and `packs` what is served. A
  directory is its place, `1..FolderNames`, in the order of names. A reload reads the
  folder (`ListFolder`, `OpenPack`, `ReadNodeFile`, `InstallPack`) and then replaces
  both together (`ServePacks`); opening the project reads it in one step, directory
  by directory (`Loading`, a recursive function).
* `Daemon` composes the four, with `Restart`: the requests, goroutines and mutexes go,
  the files stay, the packs are read again.

`Provenance` walks a graph in `TopoOrderOf`'s order: `sources` is `Runtime.Sources`,
`named` what each file output was written under.

`MCTopoOrder`, `MCExecution`, `MCReplay`, `MCBatch`, `MCPluginHost`, `MCCalls`,
`MCDaemon` and `MCProvenance` hold the small instances. `GraphProofs`,
`TopoOrderProofs`, `ExecutionProofs`, `BatchProofs`, `PluginHostProofs`,
`RoutingProofs`, `CallsProofs` and `DaemonProofs` hold the theorems; `TopoOrderProofs`
and `ExecutionProofs` rest on `GraphProofs`, `CallsProofs` and `DaemonProofs` on
`RoutingProofs`.

Variants named `...Twice`, `...Assumed`, `...Early` and so on stand before the
definitions they vary: each is a plausible mistake, and `PROJECT.json` names the
property that fails when it takes the definition's place.

## Runs

| run | what it asks | bounds |
|---|---|---|
| `Batch` | Is the file backed by runs, whatever interleaves? | 2 files, 2 drivers, 2 requests in flight, 3 in all, no failure |
| `BatchLive` | Does it end, does a cancel count, with a failed write or a crash? | 2 files, 2 drivers, 2 requests, 1 mishap |
| `BatchOneWriter` | Does the comment on one writer hold? It does not. | 1 file |
| `TopoOrder` | Is the verdict right, and the order? | every graph of 3 nodes and up to 3 edges |
| `Execution` | Do run files keep their promise, do runs end? | 2 runs at once, 1 mishap |
| `Replay` | Is what is replayed right, is what did not change replayed? | 3 runs, 1 edit |
| `ReplayStale` | Does a fingerprint say what a node would produce? Not behind a file. | 2 runs, 1 edit |
| `SingleNode` | Does a single-node run run its node? Not one without ancestors. | 1 run |
| `PluginHost` | Does a node spend what it may, is it stopped when it should be and told why? | 2 calls, 5 turns, 5 passes, 2 callbacks, 2 ticks of script and of host time, 1 pcall deep |
| `Calls` | Who is asked, in which terms, how often, and what is an answer? Does a call end? | 7 configurations, about 80 nodes, any reply |
| `Daemon` | What can requests, runs, another window, edits, failed writes and restarts do to one another? | 27 scripts of 2 or 3 requests, 4 states of the stores, 2 mishaps |
| `SourceIsOne` | Is a file named after one source written from it alone? It is not. | 3 file inputs, up to 4 edges |

What the runs that find something show. `BatchOneWriter`: a retry that looks at
`batchStop` before the first driver has registered starts a second one. `ReplayStale`:
a file that changed is read again, but the node it feeds is replayed, because its
fingerprint hashes the path. `SingleNode`: a target that no data edge touches is left
out of the order, and its run completes having run nothing. `SourceIsOne`: a merge of
two files has no source, which further down reads as nothing to say, so a third
file's name is taken for a result made of all three.

Why the bounds are enough. Two drivers are what a racing retry makes; a third adds
no new pair of actors, since drivers only meet through the file and `batchStop`.
Three requests let a create, a retry and a cancel (or two retries) overlap; two
files let one be completed while the other is not. Three nodes hold every cycle
length that differs for Kahn's algorithm (a self-loop, a pair, a cycle behind a
tail), and with three edges doubled edges, diamonds without their tip, dangling
ends and tool edges between data nodes all occur. Two runs are a run and the one it
replays or runs beside; three let a single-node run come between two whole ones.
`MaxMishaps` bounds failed writes plus crashes: one shows each of them at every
step; in `Daemon` two, since a fall-back from one store to the other takes a first
failure and only then meets a second, or a restart. `MaxRequests`, `MaxRuns`, `MaxLive` and `MaxEdits` bound what a user does.

Two ticks of budget let a script be stopped in the middle of it, two of host time
let a call be longer than the budget left, and a sixth turn is asked for where five
are allowed, as many as a matte has passes. Without a pcall a script's first error is
its last. Two callbacks are one after another or one inside another; `MaxCallbacks`
stands for the length of the table sorted or the string searched, which the code bounds
by the size of values only.

The configurations of `Calls` are the ones routing tells apart: nothing at all, a new
project, every key, only local servers, an order, half-configured endpoints, a
deployment's defaults. Its nodes are every kind, and for each guard one that passes
and one that does not; the shapes cover both orientations of every ratio. The scripts
of `Daemon` put together requests that touch the same file, the same provider or the
same workflow; the others only take turns at the mutex. Three requests are a reader
and two writers, or two requests and another window. Its four states of the stores are
a machine without a configuration directory, one never set up, a key in both places,
and a damaged project file under an install that imposes its defaults.

What `Daemon`'s properties leave out, they say: `DeletedIsGone` speaks of a deletion
that no set of the same key overlapped; `OthersKept` lets another window's write
through, and what comes of this one's write when the other came in the middle of it,
because the machine's mutex is each process's own; `CoveredIsServed` and
`OrderIsFollowed` except text, whose project always names a provider
(`localstore.go:246-248`), and jobs for which the launch imposes one. Two saves of one
endpoint at once do lose one, and so do two writers of the preference file, after which
`OrderIsFollowed` asks nothing until an order is saved again; that is what the code does, it is in the model, and `hazards` in `PROJECT.json` says so.

`CompletedMeansEvery`, `PollSeesDriver` and `QuietIsSettled` carry provisos: no
write failed, and for some no request raced a driver. The provisos are needed. A
failed write leaves an item `running` in the copy that `finish` counts as not
failed, so a batch can be called completed with such an item; two drivers are what
`BatchOneWriter` shows. Dropped, each of the three is violated. Of `Execution`,
`PollSeesRun` holds while writes work and the process stays up; `CompletedIsWhole` and
`SettledHasNoRunningNode` hold whichever writes failed.

`Replay` passes for a workflow where nothing that can be replayed depends on what
no fingerprint describes. The constants `Readers`, `Templated`, `Brains` and
`Images` name four ways out of that: a file read, an `{{input:...}}` in a
configuration, a tool node of a Brain, and an image whose payload the record
truncates; a node with two inputs, whose order the sorted fingerprints lose, is the
fifth. `FingerprintCovers` says that a workflow has none of them; `MCReplay` assumes it,
so that TLC evaluates it for the workflow of that run. The code asks nothing of the
kind. `ReplayStale` shows the first; given the others, the same property fails the
same way.

## Fairness

Drivers, runs and requests being served are goroutines, and Go schedules them:
`WF` on each one's steps. That an execution ends is justified by its context, which
expires after `executionTimeout` and is handed to every provider call. Nothing is
assumed of clients, of the clock, of writes succeeding or of the process staying up.
In `PluginHost` the script's
goroutine, its caller and the script's watcher are scheduled (`WF`; a host function
answers or fails, because every provider call ends with its client's timeout or with
the run, unless a helper that a CLI left behind holds it), and a script that runs for ever takes for ever (`SF` on `ScriptTick`, since
it may leave the clock for a host function again and again). Neither the heap nor
the run's deadline has to help for a caller to be let go. A helper need never let go,
and the script's clock stands still meanwhile: `Released` excepts a helper that holds a
call for good while nothing cancels, `GoroutineEnds` one that holds it for good at all.

In `Calls` the code goes on (`WF` on `Code`: an HTTP client gives a reply up after
five minutes), the run's deadline ends its context and the CLI's own ten minutes kill
its process (`WF` on `ContextEnds` and `KillChild`). A provider's job, a process and a
helper it left behind are not bound to end. `CallEnds` therefore excepts a helper that
never closes the CLI's output: `runLocalCLI` sets no `WaitDelay`, and nothing else
reaches it. `Daemon` states no fairness; its properties are about what may happen.

## What is proved

Every safety property that a passing run checks is a theorem too, for every value of
the constants, from the named assumptions of the modules only:

| assumption | what it asks |
|---|---|
| `TopoOrderAssumption` | graphs are well formed (node ids are unique) |
| `ExecutionAssumption` | the workflow is one that can run, bounds are naturals |
| `BatchAssumption` | there is an item, `NoDriver` is not a driver, bounds are naturals |
| `PluginHostAssumption` | budgets are naturals; the ceiling, the time budget and the bound on callbacks positive |
| `CallsAssumption` | nodes are of the known kinds, orders are lists |
| `RequestsAssumption` | requests of a script have ids of their own |
| `SettingsAssumption` | what the stores first hold has their records' fields, orders are lists |
| `WorkflowsAssumption` | the first files are well formed, ids drawn for new workflows are in no first shelf, a patch changes only what a user can |
| `PacksAssumption` | built-in node types are reserved, directories are among `1..FolderNames` |

One theorem has a hypothesis besides: `ReplayHonestWhereCovered`, see below.

* `GraphProofs`: `OrderFacts` (of a graph without dangling edges `TopoOrderOf` lists nodes
  of the data flow, each once and after what feeds it, and all of them when nothing is
  deadlocked) and `SubgraphFacts` (the subgraph for a node is its ancestors, and can run
  when the graph can). The invariant of the turns (`TurnInv`) says that the queue and
  the order share no node and together hold exactly the nodes whose sources are all
  out (`Ready`). As many turns as there are nodes empty the queue, and nodes left
  behind then would be deadlocked.
* `TopoOrderProofs`: type correctness, `OrderIsRight`, `AcceptedIsRight`,
  `RefusedIsRight`, from one inductive invariant: a node's waiting set is its
  incoming edges minus those already released from nodes of the order, and a node
  that waits for nothing is in the queue or came out. That an accepted graph is
  acyclic follows from the first node of a deadlocked set in the order; that a refused
  one is not, from the set of nodes left behind. `AcceptedOrderIsFixed` says which order
  it is: at every step of the code's loop the queue and the order are those of some
  number of turns, up to what of the current turn is not yet released (`TurnExact`).
* `ExecutionProofs`: type correctness, `CompletedIsWhole`, `SettledHasNoRunningNode`
  and `PollSeesRun` from one invariant (`RunInv`): a goroutine's place says which prefix
  of the order its record holds and with which statuses (`RunFits`), a final record is
  closed and a completed one whole (`RecordFits`), and the file is what the
  goroutine holds unless a write failed (`OnFile`). From it, `FilesKeepHistoryAlways`:
  every step is a step of `RunHistory` or leaves the files' history alone. It needs that
  a goroutine that can still write has not settled its record, and that the nodes it
  finished only grow.
* `UnchangedIsReplayedAlways`: fingerprints are functions of configurations and run
  input along the order, so two runs that agree on these at every ancestor of a node
  agree on its fingerprint, which is then in the cache the second one loads.
* `ReplayHonestWhereCovered`: *under* `FingerprintCovers`, what a run holds for a node,
  replayed or computed, is what executing it in this very run would have given. The code
  does not guarantee that hypothesis; the theorem says that the ways out named above are
  all there are, and each of them is a hazard of its own in `PROJECT.json`. A fingerprint
  determines the value of a covered node (`Both` carries the two along the order), and
  `HonestInv` says of records, caches and outputs that what they hold of a covered node
  is that value.
* `BatchProofs!TypeCorrect`. `TypeOK` is not inductive: it needs that a driver on an
  item has that item's index in range and, from `PrepareRun` on, the index of an
  existing run (`ItemInRange`, `RunInRange`).
* `BatchProofs!CompletedItemsAreProven`. The invariant (`ClaimInv`) says of every
  copy of the plan - the file, each driver's, each request's - what the property says
  of the file: its completed items are proven by run files. It is kept because
  no step takes a completed run's status away, which needs that two drivers never
  hold the same run, and that a run still open has not completed.
* The other properties of `Batch` need layers of their own. `CompletedMeansEveryAlways`:
  while no write failed, no copy has a queued item, and a driver has settled every item
  it has passed (`HonestInv`, on `FitInv`, which says what each place implies of the
  copy). `QuietIsSettledAlways`: while nothing was lost besides, an open run is in a
  driver's hands, and an open file has somebody who will still write it (`SettledInv`).
  `PollSeesDriverAlways` and `ResumeAlwaysSkips`: while no two requests raced, the batch
  has one owner, a driver or the request about to start one, and the file agrees with
  the owner on the items it has not come to (`OwnerInv`).
* `PluginHostProofs`: type correctness and all four safety properties of the run.
  `SpendIsPaidFor` needs that the requests an agent or a matte may still send are
  paid for along with those it sent (`SpendInv`); the clock's theorem that it stands
  still exactly inside host functions (`HostInv`); `LateCallsAreOwed` that the late calls
  made and those the library functions under way still owe are together no more than
  the bound, and that a cancelled script past its context check has made none (`LateInv`).
* `RoutingProofs!PreferenceIsRight`, for every configuration whatever: whom a node
  that names nobody is sent to. It rests on what each job's list holds, and on there
  being a first place of a list where something usable is (`FirstHit`).
* `CallsProofs`: type correctness, `RoutedRight`, `AnswersAreEarned` and `PaidOnce`.
  The invariant says what a call has done by where it stands (`Progress`), what kind of
  node can stand there (`KindFits`; that only text goes to a CLI comes from the
  routing lemmas), and that everything sent is this node's request, no more often than
  its passes (`Asking`).
* `CallsProofs!SentAlwaysUnderstood`: what is sent names a model and a size its endpoint
  takes. `Asking` reduces it to the request of a node, and the models to the routing
  operators. The sizes are a finite computation: seven ratios times three lengths, each
  with an integer square root, which is unique (`IsRoot`, `RootIs`).
* `DaemonProofs!ShelfIsImplemented`: the daemon's workflow files change the way `Shelf`
  says, every request and every restart included, for all scripts. The invariant
  (`ShelfInv`): whoever stands between reading a workflow and replacing it
  holds the store's mutex, and what it read is what the workflow still is (`HolderSees`);
  an id drawn for a workflow is nobody's until the workflow is there (`IdsAreFree`);
  every workflow is well formed (`ShelfFits`). `HolderSees` is what makes an
  update one atomic step of `Shelf`. All other requests stay aside: they leave the
  shelf and the mutex alone and never stand in the middle of a change (`Aside`). A
  restart drops the holder with its mutex.
* `DaemonProofs!WaitIsFreshAlways`: a run that a wait saw ended has ended for good, since
  nothing but its own goroutine writes its file once it is recorded, and a run is
  recorded once (`WaitInv`).
* `DaemonProofs!DeletedIsGoneAlways`: a key that counts as gone is in neither store and
  nobody is about to write it back (`GoneIsGone`, and `HalfGone` between the two
  stores); a run that reads its keys afterwards does not get it (`RunKeys`). Whoever is
  between reading the machine's file and writing it back holds its mutex, and what it
  read is what is there unless another window wrote (`Holders`). From that clause comes
  `OthersAlwaysKept` too: what is written back differs only in the provider asked about.
* `DaemonProofs!CoveredIsAlwaysServed`: the panel and a run build their configuration
  from the same stores, so it is the routing lemmas applied to a configuration of which
  only this is needed: every file the preference writers leave, half written or not,
  holds orders that are lists (`PrefsInv`).
* `DaemonProofs!OrderIsFollowedAlways` compares the list somebody asked for with whom a
  node is sent to. The invariant (`FollowInv`) follows the order through the file: whoever
  rewrites it for the sake of an address carries the order that is kept (`Carries`), and
  who has the file to itself has before it what it opened (`Saves`), so what is renamed
  is what it meant to write. `FirstIsCleaned` does the rest: cleaning a list, which takes
  out strangers and repetitions, changes nothing to which of its usable providers is
  first. It needs that the rank of a place among those that stay is a bijection (`Ranks`).
* `DaemonProofs!RegistryIsAlwaysOneListing`: what is installed is what is listed as not
  refused, file by file, for what is served and for what a reload has put together so
  far (`PacksInv`); two reloads share nothing until one replaces both. Opening the
  project is `LoadedUpTo` every directory.

Only model-checked, and why:

* liveness - `DriversEnd`, `CancelHonoured`, `RunsEnd`, `Released`, `GoroutineEnds`,
  `CallEnds` - is out of the prover's reach: it speaks of fairness, thus of `ENABLED`;
* what the runs that find something show: a counterexample is its own proof;
* `Provenance`: its claim is the one `SourceIsOne` refutes.

## What is not modelled, and the plan

* Node types that compute text, JSON or pixels, and `engine/matte.go`: values without
  state. `Calls` has which pictures a background removal needs, not what it does with
  their pixels.
* Path resolution (`localstore/fileaccess.go`): string computations on one path. What
  storing a picture or a video may answer is in `Calls`.
* The HTTP surface (handshake, token, CORS, routing table) and JSON-RPC framing:
  filters on one request. The node catalogue: a table.
* The bodies of requests and replies, beyond what their readers tell apart; wording.
* The project's order for text: a project always names a text provider, which comes
  before the order, so the order is never asked.

A read of a file that exists succeeds, except where a store's code handles the
failure (`Settings`) and the read-back of a batch item. How a batch finds its files is
abstracted to their number. Shape edits of a workflow between runs are not modelled in
`Execution`, only edits of configurations.

`SpendIsPaidFor` counts what a node itself sends. A tool of its agent is a node run
with a budget of its own, and nothing in the code bounds how many tools one turn
calls. A provider's own timeout reads, in Go, like a passed deadline, and
`explainError` reports it as the run's: that is why `ReasonIsHonest` allows for an
error that says so.

Next, in this order:

1. an abstract specification of a batch, as `RunHistory` is one of a run: what its file
   may say from one poll to the next, and the refinement by `Batch` while no two
   requests raced;
2. for `Provenance`, the part of its claim that does hold: a file named after one source
   when every way into it says which;
3. the workflow edits `Execution` leaves out: a shape that changes between a run and the
   one that replays it.
