# A TLA+ model of the Nexus CLI

The Nexus CLI (`src/clients/cli`) fetches proving tasks from an orchestrator, proves
them and submits the proofs, over and over, until a limit is reached or the user
leaves. This directory holds TLA+ modules that model its core, the TLC
configurations that check them on small instances, and proofs that TLAPS checks for
every value of the constants. `PROJECT.json` lists the runs, the source lines each
definition stands for, the hazards and the findings.

    tlc -workers 2 -config fetch_timing.cfg TaskFetcher     # a run
    tlapm TaskFetcherProofs.tla                             # proofs

## 1. The system

Paths are relative to `src/clients/cli/src`.

| component | state it keeps | operations | talks to |
|---|---|---|---|
| request timer (`network/request_timer.rs`) | instant of the last request, queue of request instants, deadline of the retry delay | `can_proceed`, `time_until_next`, `record_success`, `record_failure` | the network client and the fetcher, each with a timer of its own for fetching and submitting |
| network client (`network/client.rs`, `error_handler.rs`, `orchestrator/error.rs`) | attempts of the call | `fetch_task`, `submit_proof`: request, classify the error, repeat or give up | orchestrator client, timer |
| task fetcher (`workers/fetcher.rs`) | last success (difficulty, seconds), last assigned difficulty | wait for the timer, choose the difficulty, fetch, record | client, event queue |
| proof submitter (`workers/submitter.rs`, `orchestrator/client.rs`) | the submission under way | build the payload, submit, report | client, event queue |
| authenticated worker (`workers/authenticated_worker.rs`, `workers/prover.rs`, `workers/core.rs`, `runtime.rs`) | tasks completed, max_tasks | fetch, prove, submit, count, stop | event queue (mpsc, 100 events), shutdown and completion signals (broadcast) |
| headless session (`session/headless_mode.rs`) | two subscriptions | version check, Ctrl+C task, print events, leave, join | worker |
| dashboard session (`session/tui_mode.rs`, `ui/app.rs`) | screen, receivers | version check, frame loop, keys, leave, join | worker |
| adaptive batcher (`prover/adaptive_batch.rs`) | current size, streaks, time of the last change; one for the process | choose a size, record a batch | pipeline |
| proving pipeline (`prover/pipeline.rs`) | proofs and hashes of the task | split into batches, one task per input, join, collect | batcher, proof engine |
| dashboard state (`ui/dashboard/updaters.rs`, `state.rs`) | task counts, last status, clock of the task, prover state, activity log, countdown | process an event, told by its worker, kind and text | event queue |
| session setup (`session/setup.rs`, `system.rs`) | none | number of workers from options, cores and memory | pipeline, which ignores the number |
| registration, configuration (`register.rs`, `config.rs`) | the JSON file with user, wallet and node | register user, register or link a node, start, log out | orchestrator client; other processes, through the file |
| version gate (`version/`) | none | three sources for the version document, country, constraints; prints or exits | release site, proxy, repository, two country services |
| version proxy (`src/functions/src/index.ts`) | one cached response per instance | answer from the cache, ask the origin, serve what is stale | version gate, origin |
| reporting (`analytics.rs`) | time of the last report per wallet | post events, report at most once an hour | remote services |
| orchestrator client (`orchestrator/client.rs`) | cached country and metrics | the endpoints | server |
| command line (`main.rs`) | none | the commands; the panic hook, which ends the process | all of the above |

What is hard about it, and what makes each part correct:

* **Timing.** The timer is asked, slept on and asked again while time passes; its three
  constraints interact, and retries inside a call write to it without asking. The first
  request of a call must respect interval and delay, the queue must stay bounded and
  ordered, and no combination may stop the fetching for good.
* **A lossy network.** Requests and answers get lost, and a server that did the work may
  still be heard to fail. A reported success must be one, and a repeated submission must
  carry what the first one did.
* **Cancellation.** `select!` drops the work cycle at any await. The counts, the reports
  and what the server accepted must still fit together.
* **Signals and the bounded queue.** A broadcast reaches the receivers there are. A worker
  that waits for room in a queue nobody empties must still see the shutdown.
* **Adaptation.** The batch size and the difficulty follow what happened earlier, read at
  one time and used at another.
* **Concurrent proofs.** The proofs of a batch end in any order and in several ways;
  order and completeness of the result must not depend on it.
* **A view made of events.** The dashboard sees some of the events, late, and none of the
  worker's state. What it shows must be so once it has caught up.
* **One file, several processes.** A command may be killed between any two system calls,
  run beside another, or lose an answer the server meant for it. What can be read from the
  file must be true of the server, and what cannot be read must be put right.
* **One cache, several requests.** They overtake each other while they wait for the origin.
  An answer must be as recent as the cache says it is.
* **Sources that fail.** The version check has three and a clock that moves on; the program
  must neither start unchecked nor wait for ever.

## 2. The modules

| module | models |
|---|---|
| `RequestTimer` | the timer, as operators and actions other modules use |
| `NetworkClient` | what both request loops do with an answer; EXTENDS `RequestTimer` |
| `TaskFetcher` | the fetcher with the fetch loop; EXTENDS `NetworkClient` |
| `ProofSubmitter` | the submitter with the submit loop and the server; EXTENDS `NetworkClient`, `Reporting` |
| `Reporting` | the tasks that report an accepted proof, on several threads |
| `AuthenticatedWorker` | the worker, the event queue and both signals |
| `WorkCycle` | the abstract work cycle the worker implements |
| `HeadlessMode`, `TuiMode` | the sessions around the worker; both EXTEND `AuthenticatedWorker` |
| `Dashboard` | what the dashboard makes of an event; `TuiMode` has an INSTANCE of it |
| `AdaptiveBatch` | the batcher, as operators |
| `BatchTuning` | the batcher over a long run of tasks; EXTENDS `AdaptiveBatch` |
| `SessionSetup` | the number of workers, as operators |
| `ProofPipeline` | the proving of a task; EXTENDS `AdaptiveBatch`, `SessionSetup` |
| `Registration` | the commands around the configuration file, as processes, and the server |
| `VersionProxy` | the caching proxy with its requests and the origin |
| `VersionGate`, `MCVersion` | the version check at startup, as a client of the proxy; constraints for TLC |
| `TaskFetcherProofs` | lemmas about the timer and the client; the theorems of the fetcher |
| `ProofSubmitterProofs` | the theorems of the submitter and of the reports |
| `BatchProofs` | lemmas about the batcher; the theorems of its long run and of the pipeline |
| `AuthenticatedWorkerProofs` | the invariant of the worker and that it refines `WorkCycle`; lemmas about the event queue |
| `HeadlessModeProofs`, `TuiModeProofs` | the theorems of the two sessions; both EXTEND it |
| `RegistrationProofs` | the theorems of the registration |
| `VersionProofs` | the theorems of the proxy and of the gate |

How they correspond to the code:

* *Time.* The timer keeps instants; the model keeps their ages. An age stops growing at
  the first value at which no comparison of the code tells it from a larger one, so time
  is unbounded and the states are finite. An absent instant is an age that has stopped
  growing, an absent or expired deadline a delay of which nothing is left.
* *Awaits.* In `AuthenticatedWorker` each value of `worker_pc` is an await, and an action
  is what runs between two of them; cancellation (`StopWorker`) is possible at each, except
  in the pause after a cycle, which is outside `select!`. The reports that do nothing else
  are one action over the table `Report`.
* *Sends.* `Send` waits for room while the receiver is open and does nothing once it is
  dropped, as `mpsc::Sender::send` whose error is ignored.
* *Broadcasts.* A signal is put before the receivers that exist at that moment
  (`Broadcast`, `SignalMax`).
* *The server* is nondeterministic. In `ProofSubmitter` taking the proof and the client's
  hearing of it are separate actions, so a lost answer is a transport error or a 5xx after
  `ServerAccepts`. `Registration` does the two in one step and lets the client hear or not.
* *Errors on the way.* Each early return is a disjunct of the action it leaves: a proof that
  cannot be serialized ends `Submit` before anything is sent.
* *Reports.* `ReadClock` and `CheckAndNote` are two steps because `now` is read before the
  lock is taken: a report may find an entry that is later than its own `now`, and
  `duration_since` is zero then. `Delay` bounds how long a thread is held up in between.
* *The dashboard.* Events are told apart by their text in the code and by a name here. A frame
  queues the events there are (`add_event`) and processes them in `update` before it draws;
  nobody reads the state in between, so `TakeEvent` does both for one event. The splash screen
  takes events and drops them; `unseen` counts the reports among them.
* *The file.* `Config::save` is an open with truncation and a write, with other processes
  and a kill in between. A write starts at the beginning, so after two of them the end of a
  longer text may remain (`Covers`, `EndRemains`): a config with a node is longer than one
  without, and two node ids may differ in length. A file that was removed while it was open
  (`unlinked`) swallows the write. At first there is no file, or one an older version left:
  a node and nothing else (`Legacy`), which `config.rs` still reads. `RegisterNode`,
  `LinkNode` and `Start` refuse it for want of a user.
* *The proxy.* The clock is read when a request comes in (`Miss`) and used when the origin
  has answered (`FetchReturns`). Documents are numbered by publication; `replaced` keeps
  when each left the origin.
* *The gate.* The document is chosen constraint by constraint as the loop reads it, which
  covers every document; versions are numbers, and `None` one that does not parse. Once the
  program has its document the proxy is followed no further (`Fetched`), since nothing asks
  it again. A clock that stands before the epoch (`requirements.rs:130`) ends the program
  before the first constraint (`ClockFails`).
* *The number of workers.* Memory is in megabytes and the code's factors are percents.
* *Data.* An error is its kind and its Retry-After value. A task is its difficulty, its
  type or its number of inputs, whatever the properties of the module depend on. A proof
  is its presence (submission) or the index of its input (pipeline). The performance of a
  batch is its average proof time in tenths of the target; factors such as 0.8 are tenths
  too and products are cut off, which agrees with the floating-point products of the code
  for the sizes it reaches.
* *Faults.* Definitions introduced by "A fault:" are plausible mistakes. No behaviour uses
  them; each one, put in place of the definition it varies, breaks a property.

## 3. The runs

| run | shows | bounds |
|---|---|---|
| `fetch_timing` | `QueueBounded`, `OldestInFront`, `FirstRequestWaits`, `KeepsFetching` | two attempts per call, three requests per window, delays from 0 to beyond the cap; the window outlasts the interval, so that it can bind |
| `fetch_difficulty` | `DifficultyEarned` over the whole ladder; `WindowNeverBinds` | four of nine difficulties assigned by the server, both sides of the threshold; interval longer than the window, as in the code |
| `submit` | `SuccessIsAccepted`, `HashRetriesIntact`, `RateLimitEndsCall`, `AtMostOncePerHour`, `EverySubmissionEnds` | three attempts, up to two proofs (the code distinguishes none, one, more), two calls one after the other with their reports side by side; an hour is two units, a thread is held up for at most one |
| `headless` | `ReportsMatch`, `HeardSignalEndsSession`, `ImplementsWorkCycle` | limit of two tasks, a third may be fetched, queue of two events |
| `tui` | `ReportsMatch`, `FetchesMatch`, `StateShownIsReal`, `LeavingEnds`, `HeardMaxEndsSession` | the same |
| `tuning` | `SizeInBounds`, `SlowShrinks` | the code's bounds 4 and 20, the multiplier 1.5, one performance in each branch |
| `pipeline` | `ProofsInOrder`, `NoProofLost`, `EveryTaskEnds` | up to four inputs on two cores, sizes one to four with the multiplier 0.8, so several batches, a partial last one, critical errors at any place of a batch, and inputs that wait for a thread |
| `registration` | `SavedUserRegistered`, `NodeOfUser`, `SessionOfOwner`, `OldFileKept`, `FileRepaired` | two processes, two wallets, three users, one node; no file at first, or one of an older version |
| `version` | `AnswersAreRecent`, `MostSevereFound`, `VerdictJustified`, `GateEnds` | two requests at the proxy, three documents, a response kept for two of three seconds; up to three of seven constraints |
| `submit_proofs_lost` | violated: `ProofsInEveryAttempt` | as `submit` |
| `headless_max_lost` | violated: `MaxTasksEndSession` | one task, a queue that never fills |
| `pipeline_max_threads` | violated: `MaxThreadsKept` | two inputs, two cores, `--max-threads 1` |

The passing runs but the two of `TaskFetcher` also check the type invariant of their
module; that of `TaskFetcher` is proved. The largest runs are `version` (440,000 states),
`submit` (250,000), `pipeline` (130,000) and `registration` (72,000).

Why these bounds are enough: the timer's constraints compare ages with three constants,
and the values chosen keep every order between them that matters (below, at, above); a
second attempt is where a repeated request first differs from a first one and a third
where it could differ from a second; a report can find an entry that is older than an hour,
younger, or later than its own clock; a queue of two is full while a third event waits, and
empty again within a cycle; the streaks (three, five) and the ladder (nine) have the code's
size. Two processes are enough for one to read, truncate, write or remove the file between
any two steps of the other; a third user is what a second registration of the same wallet
would need. Of the proxy's requests one fetches while the other is served, and
three documents are needed for an older one to overwrite a newer one that is not the
last. The order of two violations, and a third that replaces the worse, needs three
constraints.

`headless` and `tui` do not check for deadlock: the program ends, and in `headless` it may
also be left waiting for a signal that was lost (`headless_max_lost`). `version` does not
either: the gate decides once, and the world is followed no further. No other run turns the
check off.

### Fairness

* `TaskFetcher`: weak fairness of the worker's steps and of time. Every request is
  answered because the HTTP client has a timeout of ten seconds, and the runtime polls a
  task whose sleep is over.
* `ProofSubmitter`: weak fairness of the client's steps, for the same reason. The server
  need not do anything, and no report need be made.
* `HeadlessMode`, `TuiMode`: weak fairness of the worker and of the session; strong
  fairness of `StopWorker`, since the pause between two cycles suspends it again and again
  and `select!` polls its branches in random order; in `HeadlessMode` weak fairness of
  `LeaveLoop` beside the printing of events for that last reason. Nobody has to press a
  key, and the task that waits for Ctrl+C has to start only.
* `BatchTuning`: tasks keep coming and end, and time passes. `SlowShrinks` assumes that the
  machine stays slow and nothing else about it.
* `ProofPipeline`: the spawned proofs end; a next task need not come.
* `VersionGate`: weak fairness of the gate alone: each request of the program has a timeout
  (ten seconds for the document, five for the country), and nothing else is waited for. The
  proxy, the origin and the clock need not move.
* `Registration`: nothing is fair but one user who does not give up (`Insists`): one process
  keeps running `register-user` for one wallet, each command ends, and no step of it fails
  every time it is tried. This is an assumption about people, machine and network, and not
  about the code; what it shows is that no state of file and server is a dead end. Every
  other process may run, fail or stop as it likes.

### What the code does not keep

Three statements of the sources are checked and violated; `PROJECT.json` quotes each.
Further differences met while modelling, which no run checks:

* `request_timer.rs:60` says delays of the server override local timing. A repeated request
  inside a call is sent at once, without asking the timer (`network/client.rs:105`); only
  the first of a call waits (`FirstRequestWaits`).
* `adaptive_batch.rs:182` says a batch that is too slow reduces the size. The reduction is
  computed from the size of the task, which the memory multiplier may have enlarged by half,
  so one such batch may enlarge it; a machine that stays slow is still brought down
  (`SlowShrinks`).
* `adaptive_batch.rs:169` has a branch for a batch that failed completely. `pipeline.rs:109`
  records failures as proofs, so it is never reached.
* `register.rs:130` says a given node id "will be used to register the node"; the server is
  not asked (154-171). `start` asks it, and fails if the node is not registered
  (`SessionOfOwner`).
* `setup.rs:85-105` is not monotonic: a machine with more memory may get fewer workers,
  because a larger multiplier for the subprocesses may no longer fit.
* The metrics of the machine are zero in every submission of the first 30 seconds
  (`orchestrator/client.rs:255`).
* The fetching state of the dashboard never leaves Idle: the text `updaters.rs:213` waits for
  is never sent.
* The country falls back to `US` (`orchestrator/client.rs:377`), so that the list of
  restricted countries is not applied when no service answers; `VersionGate` has this as
  `Fallback`.
* `request_timer.rs:131` says a delay of the server overrides all other timing; a later
  failure without one puts the default in its place (143-146), and `record_success` clears
  none, although the test comment at 249 says it should. `FirstRequestWaits` follows the
  delay of the last failed attempt, as the code does.
* `workers/fetcher.rs:114` says `Small` does not promote by itself; 123-125 promotes it.
  `README.md` of the repository (line 105) says the difficulty starts at `small`; it starts
  at `SmallMedium` (157-158).
* `consts.rs:85` speaks of a minimum interval between submissions; the submit loop writes
  the timer and never asks it.
* `error_handler.rs:48` says client errors are not retried except for rate limiting; 49-50
  do the opposite.
* `--max-tasks 0` lets one task be processed (`authenticated_worker.rs:166`). `WorkCycle`
  is instantiated with the limit the code really has (`CycleLimit`).
* Ctrl+C between the spawn of its task and the subscription (`headless_mode.rs:38-45`) is
  lost for the session in the way `headless_max_lost` shows for the other signal, and
  `tui_mode.rs:75` subscribes to the completion signal late too.
* `OPTIMIZATION_RESULTS.md:71` promises 30 seconds between two adjustments; a streak
  changes the size without noting the time (`adaptive_batch.rs:219-226`).
* A task of which every input failed is reported as proved (`pipeline.rs:179`).

## 4. What is proved

Every theorem is about the specification without fairness (`Spec`, in `BatchTuning`
`TuningSpec`), and holds for every value of the constants that satisfies the named assumptions
of its module. All but `LimitIsKept`, the `WorkerImplementsCycle` of `TuiModeProofs` and
`PipelineSizeInBounds` state a property that a run checks.

| module | assumptions | theorems |
|---|---|---|
| `TaskFetcherProofs` | `TimerAssumption`, `ClientAssumption`, `FetcherAssumption` | `TypeCorrect`, `QueueStaysBounded`, `OldestStaysInFront`, `FirstRequestsWait`, `DifficultyIsEarned`, `WindowIsIdle` |
| `BatchProofs` | `BatchAssumption`, `TuningAssumption`, `PipelineAssumption` | of the long run (`TuningSpec`): `TuningTypeCorrect`, `SizeStaysInBounds`; of the pipeline: `PipelineTypeCorrect`, `ProofsStayInOrder`, `NoProofIsLost`, `PipelineSizeInBounds` |
| `ProofSubmitterProofs` | `TimerAssumption`, `ClientAssumption`, `SubmitterAssumption`, `ReportingAssumption` | `SubmitterTypeCorrect`, `SuccessWasAccepted`, `HashesSurviveRetries`, `RateLimitIsFinal`, `ReportedOncePerHour` |
| `RegistrationProofs` | `RegistrationAssumption` | `RegistrationTypeCorrect`, `SavedUserIsRegistered`, `SavedNodeIsOfUser`, `SessionIsOfOwner`, `OldFileIsKept` |
| `VersionProofs` | `ProxyAssumption`, `GateAssumption` | `VersionTypeCorrect`, `ProxyIsRecent`, `WorstIsMostSevere`, `VerdictHasReason` |
| `HeadlessModeProofs` | `WorkerAssumption` | `SessionTypeCorrect`, `ReportsAlwaysMatch`, `LimitIsKept`, `WorkerImplementsCycle` |
| `TuiModeProofs` | `WorkerAssumption` | `SessionTypeCorrect`, `ReportsAlwaysMatch`, `FetchesAlwaysMatch`, `StateShownIsAlwaysReal`, `LimitIsKept`, `WorkerImplementsCycle` |

### The fetcher

The first part of the module holds the lemmas about the timer: pruning drops a prefix, keeps a
queue ordered and leaves nothing expired; an age never shrinks by waiting.

The inductive invariant is `FetcherInv`, the conjunction of `TypeOK`, `DifficultyEarned` and
the parts below. Of the properties only the order is inductive as it stands.

* The queue (`CallFitsWindow`). `QueueBounded` alone allows a call to begin with a full
  queue. The strengthening counts attempts: before a request the queue may hold any
  remainder up to the bound, while a request is under way at most
  `MaxRequests - 1 + attempts`. The request leaves only after a check that pruned the queue
  below `MaxRequests`.
* The order (`OldestInFront`). Appending age zero keeps it, pruning drops a prefix of an
  ordered queue, and time adds one to every age below the cap.
* The window (`AgesFollow`). No entry is younger than `since_last`, as far as the model
  tells ages apart: when the interval has passed and outlasts the window, every entry has
  expired.
* The wait (`TimerKnows`). `since_answer` and `since_last` are the same age, the delay of
  the last failed call is never longer than what the timer still holds back, and none of it
  is left while a request is under way.
* The difficulty (`SuccessIsReal`). The last success is among the completed tasks, and a
  task in hand has the difficulty the fetcher remembers; that is why the promotion is safe
  although tasks are abandoned and others assigned in between.

### The batcher

The invariant is `TuningInv`, the type invariant with `SizeInBounds`; through `TuningIsSteady`
it is `Steady`, what every use of the batcher keeps: the size in its
bounds, the good streak below five and the bad one below three. `RecordSteady` shows that
recording a batch keeps it, from one lemma for each way in which a size arises (`Bounded`,
`Halved`, `Enlarged`). It needs a batch of at least one proof, which `ChosenSize` gives: a
batch holds at least one input and no more than the task has.

### The pipeline

The pipeline uses the batcher through the same lemmas, so the size stays within its bounds
there too (`PipelineSizeInBounds`). `PipelineInv` adds to `Steady` and the type invariant

* `TaskCut`: while a task is under way its batches hold between one and all of its inputs,
  and the loop over the results stays within a batch. `BatchIs` turns it into where a batch
  begins and ends, the last one included.
* `OutcomesFollow`: nothing has happened to the inputs behind the batch. Without it the start
  of a batch could wipe out the failure of an input, and `NoProofLost` would not be inductive.
* `Ordered`: the proofs collected are in order, and belong to the inputs the loop has been
  through (`batch_start + looked_at`); so the next one is behind all of them.
* `Accounted`: of those inputs each failed, or its proof is there, or a critical error is less
  than a batch before it. `NoProofLost` speaks only of a task that has returned.

The order in which the tasks of a batch end is in none of these: the handles, not the tasks,
fix the order of the results (`ResultAt`). `WorkersInCores` is a lemma about `SessionSetup`
alone: whatever the options, the number of workers is between one and the number of cores.

### The submitter and the reports

The two share no variable, and each has an invariant of its own.

`SubmitInv` is `SubmitTypeOK` with the three properties and

* `AttemptsCounted`: before an attempt `sent` holds as many requests as there were attempts,
  and there is one left; after it one more. It bounds `sent` and ends the call.
* `HashesKept`: what `Take` leaves of the submission still selects the complete payload of a
  hash task, and that is what is on the wire. `HashRetriesIntact` alone says nothing of what
  the next attempt will send.
* `AcceptedIsSent`: a verdict of acceptance is about what is on the wire.

`ReportInv` adds `LatestIsLast`: no noted report is later than the entry of the wallet.
A report is noted only if it is an hour later than that entry, and so than all of them.
Its clock may be older than the entry when it takes the lock; then it does not report.

### The registration

What is saved is what a process has in its hand, so the invariant `Inv` says what each hand
may hold at each await (`HandsOK`): before a write, a user the server knows, its wallet, and
a node that is its own or was given. It stays true while other processes run because the
server only learns (`Learns`): it forgets no user and no node. `NewUsersDiffer` says that two
processes that are about to register a user have different ids, without which the step of
one would make the other's answer false. `ServerOK`, that the owner of a node is registered,
is what `SessionOfOwner` needs. `FileOK` says the same of the file as of the hands, or that
it is what an older version left, from which no command takes a user. No part of the
invariant speaks of the order in which the processes truncate, write and remove the file:
`NodeOfUser` holds because a write replaces the whole content or garbles it.

### The proxy and the gate

`ProxyInv` says that what is in the cache was at the origin when its request came in
(`CacheIsRecent`), and so is what a request has in hand (`RequestsInOrder`), for however many
requests overtake each other. `GateInv` says what has been passed on the way to where the
gate is (`GateInOrder`): three sources have failed before the program gives up, there is
no document while they are tried, the country is off the list before the first constraint, and
of the constraints read no active one was unparsable. From these follows that every exit has
the reason it gives (`VerdictJustified`); the lemma `ClockInv` covers the clock. `MostSevereFound` is
inductive as it stands; the proof of one turn of the loop splits on the two types that meet.

### The worker and the headless session

`ReportsMatch` speaks of the queue, the screen, the worker and the server at once, and a
cancellation may fall between any two of their steps. `AuthenticatedWorkerProofs` proves
`WorkerInv`, which both sessions use:

* `CountsAccepted`: the tasks counted are no more than those settled, the accepted tasks
  without the one in hand (`Settled`). The task in hand must be left out: the server may
  have taken its proof before the worker counts it, and the count that follows makes it a
  settled one. With `accepted` in place of `Settled` the statement is not inductive.
* `BelowLimit`: until the last cycle is over, the count is below the limit, and it never
  passes it (`LimitIsKept`); the abstract cycle needs it to begin a task.

`HeadlessInv` adds that the receiver is open and that what is printed and what waits in the
queue make up the count (`Reported`). `CountedAppend` and `CountedTail` say how many events
of a kind a queue holds behind a place after one is sent or received.

`WorkerImplementsCycle` proves that every step of the session is a step of `WorkCycle`, or
none, under the mapping of `AuthenticatedWorker`; there is one lemma for each group of the
worker's actions (`RefinedReport`, `RefinedFetch`, `RefinedSubmission`, `RefinedRest`), and
in each session one for what is not the worker's (`RefinedSession`).

### The dashboard session

What the screen shows follows the worker through a queue of any capacity, and may begin in
the middle of it, so the properties of the screen are not inductive: they speak of the queue
as it is, and a step of the screen takes an event off it. The invariant `TuiInv` therefore
speaks of every end of the queue.

* `RestFits`: whatever is received of the queue, the rest announces no more tasks than were
  fetched and not completed when it began. This is what makes `FetchesMatch` true when the
  dashboard sees the end of a task of which the splash screen took the beginning, and raises
  its count of fetched tasks to that of the submitted ones (`Submitted`).
* `ScreenFits` is `FetchesMatch` with the task that is fetched and not yet announced
  (`Unannounced`), without which the announcement could pass the number of tasks fetched.
* `ShowsProving` and `ShowsTask`: the worker is where the screen *will* say once it has
  caught up (`WillShow`): the state is shown now and nothing in the queue ends it, or an event
  in the queue starts it and nothing behind that one ends it. `StateShownIsReal` is the first
  case. `WillShowAppend` and `WillShowTail` are the lemmas for a send and a receive.

`WorkerShows` says once what each step of the worker sends and where it goes; `EventShown`
what each event does to the screen. `CountsBounded` gets the type of the screen's counts
from the invariant, since a count goes up by one and only the invariant bounds it. Once the
receiver is dropped nothing is said of the screen, as in the properties.

### Only model-checked

The liveness properties (`KeepsFetching`, `EverySubmissionEnds`, `SlowShrinks`,
`EveryTaskEnds`, `FileRepaired`, `GateEnds` and those of the sessions): liveness under
fairness is outside what TLAPS proves here. Every other property of a passing run is stated by
a theorem.

## 5. What is not modelled

* Conversions: the decoding of a task (`task.rs`), the encoding and signing of requests. They
  keep no state. A response without a task, or with a task type the program does not know,
  panics there and the hook of `main.rs` ends the process.
* What is only shown: drawing, the activity log, the countdown of a wait, the metrics of the
  machine, logging, and `version/checker.rs`, which prints that there is a newer version.
* Argument parsing and wording, key generation, and the events of `analytics.rs` that are
  posted and forgotten.
* The proof system, a library of which only the possible results matter; a subprocess variant
  and a verification in `prover/engine.rs` are not called by the pipeline.
* `persistent_pool.rs` and `benchmark.rs`, which no module declaration reaches, and the
  generated protocol code.

A kill of a session ends everything: nothing of its state is kept on disk. A kill of a command
is modelled in `Registration`.

## 6. Plan

Done: all modules of section 2, and the proofs of every safety property the runs check and of
the refinement of `WorkCycle` by the worker in both sessions.

Next, in this order:

1. A submission that is composed with the worker's cancellation, so that a proof the server
   took is counted or known to be lost, and an abstract specification of it to refine.
2. The caches of the orchestrator client (country and metrics), shared by its tasks.
