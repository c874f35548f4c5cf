# Verification of cluster-migrator

`cluster-migrator` is a command line client with which operators move the
workloads of a Buildkite organization from unclustered queues into a cluster.
Every invocation is one short-lived process that talks to the Buildkite REST API;
all durable state is in the service, except for one cache file on the operator's
machine. These TLA+ modules model what is hard in that: invocations that race
each other, check and act with separate requests, give up while a request is
out, share a file without a lock, read lists that shift under them, and poll
against several deadlines. One module is about the pipeline that releases the
client itself.

## Inventory

| component (source) | state | operations | properties that make it correct |
| --- | --- | --- | --- |
| migration commands (`internal/cli/migration.go`, `finalize_blocked_builds.go`, `internal/buildkite/migration.go`) | phase and destination, in the service | `migration configure`, `status`, `set-phase`; `finalize-blocked-builds` | a rejection had no effect, a success had one; the irreversible commitment is acknowledged; what is printed is what the service holds |
| queue preparation (`queue_preparation.go`, `queue_configure.go`, `queue_set_percent.go`) | routed percentage per source queue, in the service | `queue configure`, `queue set-percent`, dry runs and no-ops | the phase check and the reads after it are consistent although they are separate requests; a success speaks of preparation |
| API client (`internal/buildkite/client.go`, `pagination.go`, `errors.go`) | organization slug, cache file | resolve, discover, request, refresh after 404, pages | a stale entry never surfaces, one refresh per command, the file recovers |
| polling (`queue_metrics.go`, `pipeline_readiness.go`, `context.go`) | timer, window, contexts | ask, wait, retry, give up | ends in time, honours the interval, names the right deadline, reports what was ready |
| identifier lookup and pipeline move (`pipeline.go`, `pipeline_get.go`, `pipeline_move.go`) | none | 404 fallback, search by name or ID, move | at most one pipeline is moved, once, the one asked for; a slug goes before a name |
| concurrency groups (`concurrency_group*.go`) | group state, in the service | status, cutover, dry run | the mirrored rule agrees with the service, a blocked cutover changes nothing |
| listings and status (`pagination.go`, `queue_list.go`, `queue_status.go`, `concurrency_group_status.go`) | none | offset and cursor pages, matching, join of migrations and clusters | only removals and insertions explain what is missed or met twice; no destination under another cluster's name |
| rendering (`context.go`, the `print…` and `format…` functions) | none | text and JSON, exit status | counts, rows and next steps agree, the exit status tells the assessment, times are true |
| releases (`.buildkite/tag.sh`, `scripts/ci-buildkite-release`) | tags, build meta-data | tag, publish, retry | one version per commit, versions grow along `main`, no stale release, what is pushed is published |

Components interact as follows. `main` gives `cli.Run` a context that ends with
SIGINT or SIGTERM; `Run` adds `--timeout` (10 minutes unless given), makes a `Client`, resolves
the organization (cache file or `GET /organizations`), and runs one command. A
command calls the `Client`, which sends HTTP requests one after the other;
there is no concurrency inside a process. Everything that interleaves is
between processes: other operators, the service itself, and requests that
arrive after their process has gone.

## Modules

| module | models | runs |
| --- | --- | --- |
| `MigrationServer` | external: the service's migration, phases and routed percentages, as the client relies on them; the command lines | through `MigrationCommands` |
| `MigrationCommands` | any number of invocations, one action per request or reply | `commands`, `commands_noop` |
| `AtomicCommands` | the abstract specification: commands without requests | refinement checked in `commands` |
| `MigrationCommandsProof` | theorems about `MigrationCommands` | tlapm |
| `OrganizationCache` | the cached organization slug and the client's refresh | `cache` |
| `OrganizationCacheProof` | theorems about `OrganizationCache` | tlapm |
| `GroupCutover` | cutover, dry run and status of one concurrency group | through `RepeatedCutover` |
| `RepeatedCutover` | the same with operators who run the command again | `group_cutover` |
| `GroupCutoverProof` | theorems about `RepeatedCutover`, and `GroupCutover` with it | tlapm |
| `Polling` | the retry loops, in discrete time | `polling`, `polling_dial` |
| `PipelineMove` | `pipeline move` and its dry run: organization refresh, identifier fallback, lost replies | `move` |
| `AtomicMove` | the abstract specification: a move without slugs, lookups and replies | refinement checked in `move` |
| `PipelineMoveProof` | theorems about `PipelineMove` | tlapm |
| `Pages` | external: how the service cuts lists into offset and cursor pages | through the next two |
| `Listings` | one listing, page by page, to show it or to find an item | `listings` |
| `StatusReport` | the two listings behind `queue status` and `concurrency-group status` | `status_report` |
| `ListingsProof`, `StatusReportProof` | theorems about these two | tlapm |
| `Reports` | assessments by the service: checked, counted, printed, turned into an exit status | `reports` |
| `Times` | ages, due times and windows in words | `times` |
| `ObservationsProof` | theorems about `Polling`, `Times` and `Reports`: asking, telling and reporting | tlapm |
| `Release` | the release pipeline's two steps over concurrent builds | `release` |
| `ReleaseProof` | theorems about `Release` | tlapm |
| `MC…` | instances of the above for TLC | |

`MigrationCommands` and `PipelineMove` compose a command with its service,
`StatusReport` and `Listings` with the pages of the service's lists.
`PipelineMove` contains `OrganizationCache`'s refresh in the form one command
sees it, and reads the list of its lookup at one instant, since `Listings` has
its pages.

### MigrationCommands

A run `r` is a process with the command line `cmd[r]`. `pc[r]` is the request it
sends next, `waiting` for the reply of its mutation, or its verdict as the exit
status and message tell it: `success`, `rejected` (a local check, a failed read,
an API refusal: nothing was changed) or `unclear` (an error while the mutation
was out: timeout, signal, lost or undecodable reply, failure to print).
`wire[r]` is the mutation request: unsent, sent, applied or refused.

- `Launch` is `cli.Run` up to the checks a command makes before any request
  (`RejectsLocally`: range of `--to`, the acknowledgement, dry runs the command
  does not support).
- `RequireQueuePreparation`, `GetQueueMigration`, `ResolveCluster`,
  `RequireClusterQueue`, `GetMigration` are the GETs; each reads the service at
  one instant and keeps what it read in `seen[r]`, as the code keeps `migration`,
  `current` and `cluster`. The two listings match against a cluster that is not
  part of the state; their failure is `GiveUp`.
- `Send`, then `Accept` or `Refuse` by the service, then `Receive`. The service may
  refuse any request, since readiness checks and permissions are its own.
- `GiveUp` can happen at any open step. A request already sent stays sent: it
  may be accepted after its process is gone.

`outcome` and `held` are history variables: the state the request produced, and
the percentages the run's queue had, in preparation, while the run was open.

### OrganizationCache

`file` is the content of the cache file; a truncated file is `Empty`, a mixture
of two writes `Garbled`. `permitted` is what the file system lets runs do with it
(read, remove, write), which changes at any time (`Permit`); the client ignores the errors.
`os.WriteFile` is two steps (`OpenCache` truncates,
`WriteCache` writes), each may fail (`SkipCache`) or be cut off by `Exit`; a
file that another run removed in between is written without effect on the path
(`handle`). `Request` sends a relative path under the client's organization, or
an absolute next link; `NotFound` is the 404 branch of `doWithHeaders`, which
refreshes relative paths of a cached organization only. `Invalidate` forgets the
slug and removes the file if it may (`Removed`, `NotRemoved`), `Discover` asks the service
again, and the replay is the next `Request`. `Exit` is the end of a process, by its last answer,
a failure or a kill; `Launch` is the next one in its place.
An organization's rename (`Rename`) is external. Slugs are not reused: a slug
that later names another organization would be outside what a 404 can detect.
A file that can be read, but neither removed nor written, keeps the stale slug, and every
command refreshes again: `CacheConverges` has to exclude that, and one right less than it asks for
is not enough (TLC refutes it with the right to read, to remove, or with none). Each
command still recovers by itself, as `StaleCacheIsInvisible` says without any such condition.

### GroupCutover

The service's group moves from no migration (or `unclustered`, after a
cancellation) through `forward_draining` and `forward_reconciling` to
`clustered`; `committed` is the organization's phase, `quiet` whether its queues
are routed and free of recent jobs. A run takes the requests of
`ConcurrencyGroupCutoverCmd.Run` in their order and ends as its message says:
`started`, `blocked` (by the service's 409, or by the dry run's
`MigrationBlocker`), `proposed`, or for status `shown` or `absent`. `GetGroup` is the read of
the dry run, `ShowGroup` that of the status, which lists the clusters (`ListClusters`) before it
prints text. The client
does not look at the phase; only the service does. A run
that discovered its organization itself does not refresh the slug, so after a
rename (`stale`) it is answered 404, which both reads take for a group never
cut over (`Found`), as the code does. `starts` and `could` are history variables.

### Polling

An action is a blocking statement from beginning to end, and moves the clock on to the
event that ends it. `until`
is when the answer arrives, the timer fires or the dial times out; `windowEnd`
and `parentEnd` are the ends of the loop's context and of the command's. `WakesAt` is the
`select` of `Context.wait`, and what `net/http` does with the request's context: the statement returns at the
earlier of the two. That a loop ends in time is thus a matter of which contexts its statements are
given; `began`, the time of its first request, is kept to compare with (history).
`Duration` is `time.Duration(n) * time.Second` with wrap-around. When two ends
fall on the same instant either is seen first, as with `select` and
`context.Err`. `dialing` is a connection attempt that hangs; its timeout belongs
to the transport the command is given (`http.DefaultClient`), and it satisfies
`errors.Is(err, context.DeadlineExceeded)`.

### RepeatedCutover

`Repeat` starts the command line of a run that has its verdict again, unless its
request is still under way; late requests are those of the other run. It extends
`GroupCutover` and adds nothing else.

### PipelineMove

`pc` is what the command does next: `ask` (the move, or the assessment of a dry
run), `discover` (the organization, after a 404 under a cached one), `lookup`
(the slug of the ID or name), or its verdict. `round` is the first or second
call of `run` in `runWithPipelineIdentifierFallback`, `target` the slug it is
given. `Receive` handles a reply in the order of the code: first `doWithHeaders`,
whose refresh (`Invalidate`, then `Discover` and `ask` again) hides a 404 from
everything above, then the fallback, which takes any 404 but "not configured" for
an unknown pipeline; a discovery that fails with a 404 of its own counts as one,
too (`DiscoverNothing`). The service is one slug table; `Refusals` are its
reasons, of which it may give any that is true. Others change slugs, names,
access to the destination and the organization. `moves`, `meant`, `owners`,
`handed` and `reasons` are history variables: what moved, what the identifier
named at some time, which pipelines had it as slug all along, which came by the
target slug after the lookup, and what stood in the way. The polling inside a
dry run is `Polling`.

### Listings and StatusReport

A list is a set of numbers in list order. An offset page is found by counting
at the time of the request, a cursor page by the last item before it (`Pages`).
`Listings` has one variable `reading` for the three functions that look for an
item, `ResolveCluster` (all pages, ID or name), `RequireClusterQueue` (stops at
the key) and `ResolvePipelineSlug` (stops at an ID, filtered by name otherwise),
and for the listing of migrations. `ReadPage` is one turn of their loops.
`StatusReport` reads clusters and migrations in the order of the two commands:
queue status the clusters first, group status the migrations, and the clusters
only if there is something to name and the output is text.

### Reports and Times

`Reports` starts with an answer of the service: a status (known or not), queues
with reasons, groups, fields that may be missing. After `Check` (the client's
validation) the loops of `printPipelineReadiness` run as the code runs them, one turn a step,
with `at` and `nth` for the indices: `CountBlocker`, `GroupsCounted` and `QueuesCounted`
give the number that `PrintStatus` puts before the rows; `PrintRow`, `QueuesPrinted` and
`GroupsPrinted` are the rows, `PrintObservations` what the rows do not show, `AddStep` and
`PrintSteps` the next steps, and `Exit` the status. `WriteFails` ends the
command at any write. A row is a name and a reason, a next step is the row it
is for. `Times` lets a clock run past an observation and a refresh, and compares
what each format function says at every instant with the truth. A text is a record
of its kind and its number per unit; singular and plural are left out.
`formatMetricsRefreshDue` has no caller; its body is `formatPipelineRefreshDue`'s.

### Release

A build is created for a commit of `main` when somebody unblocks it. `Fetch` to
`Push` are the lines of `tag.sh` that read or change origin, the meta-data or
the tag; `FetchTag` to `Annotate` those of `ci-buildkite-release`. `job` is the
build that holds the concurrency group. `Kill` ends a job, which starts its step
again in a fresh checkout. A push is atomic at origin, and its reply may be lost
with the job (`lost`). As in the script, an `ls-remote` that fails counts as an absent tag,
`git tag` fails if the checkout has the tag, and the push of a tag that origin has on the same commit
is up to date. Builds of a tag, which set `BUILDKITE_TAG` and skip the
first step, are left out.

## Runs and bounds

| run | result | shows |
| --- | --- | --- |
| `commands` | pass | `TypeOK`, `RejectionIsFinal`, `ReportedDestinationIsActual`, `SetPercentTookHold`, `SnapshotIsConsistent`, `ChangesAreAuthorised` and the refinement of `AtomicCommands`, for three runs that edit routing, reopen, validate and commit, and for two runs of any two command lines beside a third that is refused locally |
| `commands_noop` | violation | `NoOpNeverClaimsChange` |
| `cache` | pass | `TypeOK`, `OneDiscoveryPerRun`, `StaleCacheIsInvisible`, `CacheConverges` with two processes that are started again and again, two renames, and a file system that may refuse anything for a while or for good |
| `polling` | pass | `TypeOK`, `EndsInTime`, `NamesTheDeadline`, `ReadyIsReported`, `FollowsRetryInterval` with the identifier fallback |
| `polling_dial` | violation | `UnavailableAfterWindow` |
| `group_cutover` | pass | `TypeOK`, `RejectedWithoutChanges`, `OneReportPerStart`, `DryRunAgrees`, `RepetitionGetsThere` for two operators who repeat their commands |
| `listings` | pass | `ShiftsExplainErrors`, `AnswersAsNamed`, `OverlooksOnlyAfterRemoval` for the four readings |
| `status_report` | pass | `DestinationsUnderTheirNames`, `IDsOnlyForCause`, `EveryMigrationIsShown` |
| `move` | pass | `UnambiguousGetsThere`, `OnlyTheOneMeant`, `SlugGoesFirst`, `EveryCommandEnds` and the refinement of `AtomicMove` |
| `release` | pass | `VersionsFollowMain`, `NothingStaleGoesOut`, `PushedIsReleased` |
| `times` | pass | `TimesAreTrue` |
| `reports` | pass | `ReportAgreesWithItself`, `ExitTellsAssessment` |

`Listings`, `StatusReport`, `PipelineMove` and `Release` state their types in `TypeOK`,
`Reports` in `ReportTypeOK`; the proofs need them, the runs spend their time on the other properties.

- Commands: two runs of every kind cover every pair of operations. The third run matters where
  two others must move the phase away and back around one reader; three
  set-percent and set-phase runs do that, and an edit sent in preparation can arrive
  after validation and commitment by the two others. The proofs cover any number.
  `MixedSpec` only restricts which command lines the three are given together.
- One queue and two clusters: routing of different queues is independent
  (`EXCEPT ![queue]`), and a wrong destination needs two clusters. Initial
  states include every phase and routing, so the sequences that led there need no
  further runs.
- Percentages: 0, 50 and 100 stand for unequal values, 101 for one out of
  range; nothing else depends on the number.
- Cache: `MaxRenames = 2`, with entries from before, between and after; a process that is
  started again takes the place of any number of later ones. `discoveries` is
  counted to 2, one more than allowed.
- Cutover: one group (groups are independent requests), two clusters for a migration with another
  destination, two runs that repeat: a lost reply, its repetition by the same or the
  other operator, and a preview beside them.
- Polling: `Window = 8` with latencies up to 2, intervals 0 to 3, 12 (past the window) and 20, command
  timeouts before, at, soon after and
  long after the window: every order of the three deadlines occurs.
  `HalfRange = 16` makes the interval 20 wrap, as 10^10 seconds do in 64 bits.
- Listings: four items, two names of which one looks like an ID, one item on a page and two
  changes between pages: an insertion, a removal or one of each before, at and
  after the item that is looked for. Status: two migrations and three clusters with
  two names, likewise one on a page, so a name can change owners within two changes.
- Move: two pipelines, two slugs and names, an identifier that is a slug and a
  name or one that is an ID, and two changes by others: enough for a slug to be
  given up and taken over, or access to be lost and to come back, within one command.
- Release: two builds, three commits of `main`, two kills and one tag touched by hand: a
  build that is overtaken, a retry in either step, and both at once.
- Times: every half second of a little more than two hours, so that units change at the second,
  minute and hour and fractions are cut; observations before and after the clock's start;
  windows of nothing, of a minute and a half, and of two minutes, to be told in seconds, minutes and seconds, or minutes.
- Reports: up to two blocking queues of two names or none, up to two of three reasons each,
  one group with up to two reasons (which ones makes no difference to the code), every status, and a
  status that is not known.

All commands end, and so do the release builds, the changes around them and the
clock of `Times`; this is why `Commands`, `Listings`, `Status`, `Move`, `Release`,
`Times` and `Reports` do not check deadlock. `Cache` and `Cutover` go on, and `Polling`
stutters explicitly when its process is gone.

Fairness is assumed where something must happen in the end:

- `cache`: weak fairness of each run's `Launch` or `Exit`: a process does not hang, since its
  requests end with the context (`--timeout`, `root.go:75`), and an operator uses
  the tool again. Strong fairness, over all runs together, of the steps of a refresh: if again and again some
  command comes to one, not every one fails or is killed there. Nothing
  is assumed of the service's renames, of the order of processes, or of the file system beyond
  what `CacheConverges` itself asks for.
- `group_cutover`: weak fairness of `Repeat`, `Launch` and the timeout of a wait: operators
  repeat, and processes do not hang. Strong fairness of a run's requests and of the
  service accepting what it can accept: neither fails every time. Strong fairness
  of the service's step to `forward_reconciling` and weak fairness of the one to
  `clustered`: not every cutover is cancelled. The last two are the service's part,
  and the README of the client presumes them when it tells operators to rerun.
- `move`: weak fairness of the service's answer and of the command's next step; the
  command's timeout ends a wait without an answer.
- `release`: weak fairness of a job's steps: jobs go on until they end. Strong fairness of
  `FetchTag`: a failed publish step is retried and gets the concurrency group in its turn.

## Proofs

Every module with a specification is the subject of a proof module; `ObservationsProof` has
three. Each states an inductive invariant `IInv` (`ReportIInv` of `Reports`), proves that `Init` implies it and
that every action preserves it (one lemma per action, or per group of actions that
disturb the same conjuncts), and concludes from `THEOREM Inductive` or `Invariance`
(`Spec => []IInv`) the invariants, and from `IInv` and one step the action properties and
refinements. All `IInv` were also checked by TLC on the instances of the runs. The
theorems hold for every value of the constants that the modules' `ASSUME`s admit:
any number of runs, operators, renames, changes by others, kills, builds, items,
pages, and any width of integers.

| module | theorem | states |
| --- | --- | --- |
| `MigrationCommandsProof` | `TypeCorrect` | `TypeOK` |
| | `RejectionTheorem`, `SetPercentTheorem`, `SnapshotTheorem`, `DestinationTheorem` | `RejectionIsFinal`, `SetPercentTookHold`, `SnapshotIsConsistent`, `ReportedDestinationIsActual` |
| | `AuthorisationTheorem` | the action `ChangesAreAuthorised` |
| | `Refinement` | `Spec => Atomic!Spec` |
| `OrganizationCacheProof` | `TypeCorrect`, `ReplaysOnce`, `StaleEntriesNeverSurface` | `TypeOK`, `OneDiscoveryPerRun`, `StaleCacheIsInvisible` |
| | `RecoveryLasts` | a file that has recovered after the last rename stays so (half of `CacheConverges`) |
| `GroupCutoverProof` | `TypeCorrect`, `RejectionsChangeNothing`, `ReportsAreStarts`, `PreviewIsTheRule` | `TypeOK`, `RejectedWithoutChanges`, `OneReportPerStart`, `DryRunAgrees` |
| `ObservationsProof`: `Polling` | `TypeCorrect`, `LoopsEndInTime`, `DeadlinesAreNamed`, `IntervalsAreFollowed` | `TypeOK`, `EndsInTime`, `NamesTheDeadline`, `FollowsRetryInterval` |
| | `ReadyInTimeIsReported` | `ReadyIsReported`, if `WrapsBelowZero` |
| `Times` | `TimesAreTold` | `TimesAreTrue` |
| `Reports` | `ReportTypeCorrect`, `ReportAgrees`, `ExitTells` | `ReportTypeOK`, `ReportAgreesWithItself`, `ExitTellsAssessment` |
| `PipelineMoveProof` | `TypeCorrect`, `UnambiguousSuffices` | `TypeOK`, `UnambiguousGetsThere` |
| | `MovesWhatWasMeant`, `SlugsGoFirst` | the actions `OnlyTheOneMeant`, `SlugGoesFirst` |
| | `EveryStepCounts`, `StepsAreFew` | `Effort`, at most 12, falls with every step and answer (half of `EveryCommandEnds`) |
| | `Implements` | `Spec => Atomic!Spec` |
| `ListingsProof` | `TypeCorrect`, `ErrorsAreExplained`, `AnswersAreRight`, `OverlookedOnlyForCause` | `TypeOK`, `ShiftsExplainErrors`, `AnswersAsNamed`, `OverlooksOnlyAfterRemoval` |
| `StatusReportProof` | `TypeCorrect`, `NamesAreTheirs`, `IDsHaveTheirCause`, `NoMigrationIsMissed` | `TypeOK`, `DestinationsUnderTheirNames`, `IDsOnlyForCause`, `EveryMigrationIsShown` |
| `ReleaseProof` | `TypeCorrect`, `VersionsAreInOrder` | `TypeOK`, `VersionsFollowMain` |
| | `ReleasesAreFresh` | the action `NothingStaleGoesOut` |

What each argument rests on, and why the properties are not inductive alone:

- Migration commands. `IInv` is `TypeOK` and `Reliance`, which has three parts. An organization has a
  destination exactly when it is configured. `Sequencing` ties each run's step to
  its request: what is sent passed the local checks, a definite rejection never
  leaves a request under way, success has an applied request or nothing to send.
  `Standing` ties what was read to the service now: a queue's present percentage is in
  the history of every run of that queue past its phase check, and a destination
  that was read is the one the migration still has, which holds since nothing unsets or changes
  it. `SetPercentTookHold` at `Receive` needs to know that the request's effect
  was observed while the run was open, hence the clause on `waiting` and
  `applied`. The refinement maps open steps to `open`, verdicts to
  themselves and `taken` to `wire = "applied"`. `Launch` is `Begin`, `Accept` is
  `Effect`, verdicts are `End`, and everything else is `Inside`. `AtomicCommands` says
  what this is worth: a command takes effect at most once, at an instant no earlier
  than its start, and after its end only if its verdict left that open.
- Organization cache. The file needs no invariant beyond its type: whatever
  others write, a run is safe because it knows where its slug is from. `Standing`
  says so at each step: a slug that was not cached is the service's unless it was
  renamed meanwhile, and a run that may still discover has not done so. The clause about
  the next page is needed, since an absolute link outlives the slug it was made with.
  `RecoveryLasts` is the lasting half of `CacheConverges`, and does speak of the file. It
  needs `Handles`: a file that a run has open at its path is there. Otherwise a write could
  meet a removed file and bring back what was in it. What fairness adds is
  that the file recovers at all.
- Group cutover. `Honest` binds where a run is to where its request is. Reports and
  starts are compared through the requests that were applied: `starts` is
  their number, and each `started` has one.
- Polling. `OnTime` says that the window is still that of the loop's first request, that neither
  the statement under way nor its context is overdue, and that a timer does not fire before the interval has passed. `NamesTheDeadline` and
  `FollowsRetryInterval` are preserved with it. `ReadyIsReported` needs the hypothesis
  `WrapsBelowZero`: an interval that overflows a `time.Duration` becomes a negative one,
  whose timer fires at once. This holds of intervals up to 1.8 * 10^10
  seconds, those between 9.2 * 10^9 and 1.8 * 10^10 wrapping below zero.
  Beyond, an interval may wrap to a short positive one, or to any other: the loop then waits
  for a time that nobody named, and the property is false (TLC shows it with an
  interval of 40 in 5 bits). Nothing in `queue_metrics.go` or `pipeline_readiness.go`
  rules such an interval out; a service that means to be asked again does not name one.
- Times. No invariant beyond types is needed: the arithmetic is the argument. Each unit
  divides the next, so quotients and remainders add up again (`UnitsAddUp`), a text is
  read back as the number it was made of (`ReadBack`), and what is cut off is less than the
  smallest unit named. The theorem holds for any timestamps and windows, and however finely
  the clock divides a second.
- Reports. The number of conditions is computed in one loop before the first row is printed in another, and the next
  steps in a third one after the last: `ReportAgreesWithItself` compares what the three loops did. `Bookkeeping` says of
  each stage how far its loop has come. `Sums` is the sequence of the number of rows before
  each blocker, `Cursor` where `at` and `nth` stand in a list, `QueueRows` and `GroupRowsAfter` which
  blocker and reason each row is that has been printed, `StepsOf` that the steps are the corrigible
  rows up to the cursor, each once, in their order. `Assessed` carries what `Check` found
  to the exit status, which is decided after all the writes that may fail. What a loop computes
  is thus proved for lists of any length by induction over its steps, without induction over data.
- Pipeline move. `Ledger` keeps the one move on record in its reply and then in its
  verdict, which is what the refinement needs. `Naming` says whom the slug of a request can stand for,
  `Precedence` that a lookup which can succeed is not due while a pipeline has the identifier
  as its slug, `Undisturbed` what is known as long as nothing changes. The
  refinement maps every step of lookups, replies and refreshes to a stutter, the
  service's acceptance to the move, and verdicts to verdicts. `EveryStepCounts` is
  the safety half of `EveryCommandEnds`: `Effort` is how many steps and answers are left, and every
  one of them lowers it, whatever others change. What fairness adds is that there
  is a next step.
- Listings and status. The invariants count. For an item that stays, its position
  is compared with the offset of the next page: one that was not read is at or behind it
  unless an earlier one went, one that was read is before it unless an earlier
  one came. `OffsetCovers` and `CursorCovers` are the lemmas about pages these rest on: a
  page holds the items between its offsets, and those after the cursor up to the next cursor.
  They are proved in both proof modules, each next to its use.
- Release. `Ordered` says of the tags, as long as nobody moved any, that they are what builds have
  pushed, in the order of `main`, and `Above` that the version a job has chosen comes after those
  of all earlier commits, which is stable because pushes are checked against
  the tip of `main` and the concurrency group lets one job work at a time. `Fresh` says which of
  the tips and tags a job has seen were there since it began.

That a finite set of numbers or versions has a greatest member is an induction over
data. The induction theorems of the library take an operator as a
parameter, which the provers cannot instantiate; `GreatestExists` is therefore
proved by a minimal counterexample, since strict inclusion is well-founded on finite sets.

Trying to prove has changed the models where they could not be reasoned about or were
loose:

- Guards of a `CASE` in `StatusReport` overlapped, so that the step after the clusters was any
  that applied; they are `IF`s now, in the order of the code. TLC takes the first guard, so its
  runs saw no difference. `Reports` had the same in the exit status and the client's validation.
- `IDsOnlyForCause` asked whether what is shown is the ID, which is also so, without a cause, for a cluster
  whose name is its ID; the instances have no such name. It asks now whether no name was read.
- `Listings` chose a name from `Names` without requiring that there is one; `ListingsAssumption` does now.
- `Times` printed sequences of numbers with their units, and `Reports` built count, rows and steps with folds, so that
  nothing could be proved without induction over data. A text is a record now, and the loops of the report
  are steps, which is also closer to the code. The properties ask the same of them.
- `Pages` had its own instance of `FiniteSets`, so that a page's cardinality was
  not the cardinality of the proofs; `Listings` and `StatusReport` extend it now.

Only model-checked:

- Liveness under fairness: `CacheConverges`, `RepetitionGetsThere`, `EveryCommandEnds`,
  `PushedIsReleased`. The prover does not reason about `ENABLED`, which weak and strong fairness are defined by.
  Of the first and the third the part without fairness is proved (`RecoveryLasts`, `EveryStepCounts`).
- The two violations of the runs `commands_noop` and `polling_dial`, which are counterexamples.

## Findings

1. `commands_noop`. `set-percent` prints "Routing changed from a% to b%" with a
   percentage it read before, and discards the PATCH reply. If another
   operator sets b% in between, a request that changes nothing is printed as a change
   (`internal/cli/queue_set_percent.go:58`), against
   `.agents/skills/writing-cli-commands/SKILL.md:48`. This assumes that the
   service accepts a percentage that is already set.
2. `polling_dial`. `internal/cli/queue_metrics.go:32` takes any
   `DeadlineExceeded` for the end of its window; a hanging connection attempt
   ends with such an error after the transport's 30 seconds and is reported as
   "did not become available within 1m0s". `pipeline_readiness.go:50` likewise.

Three more disagreements were met while modelling; no run states them. A cluster or
pipeline that an insertion shifts to the next page is met twice and reported as
several that match (`internal/buildkite/client.go:117`, `pipeline_get.go:46`);
`Listings` contains that behaviour, and `ShiftsExplainErrors` says that only a shift
leads to it. An assessment that is blocked by a concurrency group only has no next
step (`internal/cli/pipeline_readiness.go:297`), although the client's README says that
a blocked assessment prints corrective ones; `Reports` contains it as well. The dry
run of a move ends with "pipeline has known blockers" for a status that the client
does not know (`internal/cli/pipeline_move.go:27`), where `pipeline readiness`
tells the two apart.

## Not modelled

- Request and response bodies, headers, token and URL handling: data that no property
  tells apart.
- Headings, tables, metric values, and the wording of results, errors and warnings, except whether
  set-percent claims a change. This includes which errors of
  `finalize-blocked-builds` warn that the request may have been accepted.
- The service's own readiness rules: the service may refuse anything.
- `queue_delete.go`: no command calls it.
- Release builds of a tag, which skip the first step.
- Build files, tests and the agents' guides.

## Plan

Done, in this order, since the migration commands decide what happens to an
organization: `MigrationServer`, `AtomicCommands`, `MigrationCommands` with its
proofs, `OrganizationCache`, `Polling`, `GroupCutover`; then `Listings` and
`StatusReport`, `PipelineMove` and `AtomicMove`, `RepeatedCutover`, `Release`,
`Reports` and `Times`; and the proofs of all their safety properties and refinements.
Left, if the code changes or a prover for `ENABLED` is at hand: the other halves of the
liveness properties, and `finalize-blocked-builds`' warning once wording matters to
a script.

To repeat the checks: `tlc -config Commands.cfg MCMigrationCommands` and
likewise for the other configurations, `tlapm MigrationCommandsProof.tla` and
likewise for the other modules that end in `Proof`.
