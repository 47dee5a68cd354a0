# TLA+ models of lnwjud

lnwjud is an MCP server (desktop app, CLI and a family of TypeScript packages,
with native Windows helpers in C#) that lets a chat agent work on a user's
machine.  This directory models the parts in which several processes, sessions
or threads share durable state: the *durable goals* an agent works on over many
chat turns, the reservations under which anything writes, the stores behind
them, and the processes the server starts.

Paths below are relative to `src/`.

## 1. Inventory

| Component | State | Operations | Hard parts |
|---|---|---|---|
| Goal repository (`packages/storage/src/goal-repository.ts`) | goal rows: status, revision, lease columns, generation, activity sequence, tracked tasks; checkpoints; fenced calls | acquire, setIdle…, checkpoint, finish, cancel, reconcile, recoverBlocked, beginGoalFencedMutation, heartbeat…, end… | racing acquisitions, takeover on stale evidence, calls that outlive a lease |
| Scheduled continuation store (same file) | continuation rows with status, version, due and pending time, native id, probe; ledger of recurring runs | prepare, refresh, receipt (ten outcomes), cancel, claim (one-time, recurring), expedite, markGoalFinished | late, lost, repeated receipts; a wake that must not be lost |
| Goal and continuation services (`packages/application/src/goal-continuation-service.ts`, `scheduled-continuation-service.ts`) | locals held across `await` | runGoal, recoverBlockedGoal, finishGoal, cancelGoal, reconcileGoals, claim, receipt | several transactions per request, each of which can be the last before a crash |
| Mutation fence service, request cancellation registry, tool registry | calls in flight, tombstones | begin, heartbeat, end, observe; register, cancelForGoal, release | order of admission and registration against the end of the goal |
| Native task host (external) | ChatGPT scheduled tasks | create, fire, delete | the only channel back is a receipt sent by the agent |
| Reservation index (`packages/capabilities/src/durable-shell-task-index.ts`, `shared-managed-writer-admission.ts`) | marker files | reserve, release, observe | foreign markers are judged outside the lock; owners die |
| Workspace writer lease (`packages/capabilities/src/workspace-writer-lease.ts`) | lease row and call journal | acquire, begin, heartbeat, end, renew, release, revokeAbandoned | several servers, pid liveness, a probe left by a crash |
| Durable shell tasks (`packages/capabilities/src/durable-shell-task-store.ts`) | task.json, marker, process group | launch, worker, inspect, cancel, reconcile | worker and host die, the group lives on |
| SQLite lifecycle (`packages/storage/src/sqlite-lifecycle-lock.ts`, `database.ts`, `backup-service.ts`) | lock file, database files, claim | lock, reclaim, open, migrate, back up, restore | stale reclaim, a crash between two renames |
| File mutations (`packages/application/src/file-service.ts`, `checkpoint-service.ts`, `mutation-transaction.ts`) | files, checkpoints, trash | write, patch, move, copy, delete, restore, purge, roll back | pre-images, a step of several that fails |
| Automation runs (`packages/application/src/automation-service.ts`, `packages/storage/src/automation-repository.ts`) | run, milestones, attempts under one revision | advance, pause, resume, cancel, finalize | overlapping calls, lost launch answers, crashes |
| Managed processes (`packages/process/src/process-manager.ts`) | records, timers, reservation | start, attach, stop, timeout, cancel, recover | exits, timers and observations in any order |
| Windows containment service (`native/windows-containment-helper/`) | attempt ledger, Jobs, import records | prepare, run, inspect, cancel, abort, import | memory and file apart after a failed write; crash between dispatch and pid |
| Tunnel (`apps/desktop/src/main/tunnel-lock.ts`, `tunnel-controller.ts`) | ownership file, mutex, lifecycle queue, restart timer | acquire, release, start, stop, exit, restart | stale reclaim; timers beside the queue |
| External MCP sessions (`packages/extensions/src/mcp-session-manager.ts`) | one child per configured server, its launch, unverified terminations | acquire, connect, publish, invalidate, close, dispose | several requests connect, replace and abort at once; a child whose end is not proven |
| Update worker (`native/update-worker/`) | request journal, update transaction, active slot, each with a pending file | request, status, recover; persist, select candidate, select previous | a crash or failed write at every point of a publication; two files that must fit |
| Update admission broker (`native/update-admission-broker/`) | participants, numbered permits, phase, epoch and owner of the update, in one journal | register, enter, promote, settle, quiesce, retire; close, seal, recover, reopen | a saved call whose answer is lost is repeated, perhaps after a restart, while an update counts what runs |
| Agent swarm, tasks protocol, desktop shell | see `PROJECT.json` | | not modelled |
| Permissions, filesystem, git, search, audit, renderer, CLI | | | decision tables, I/O and presentation |

How they meet: the tool registry admits a call through the writer lease and the
goal fence and registers it for cancellation; goal services call the repository,
each call being one `BEGIN IMMEDIATE` transaction, and between two awaited calls
everything else may run.  Background writers (shell tasks, managed processes,
imports, synchronous mutations) leave a marker in the reservation index, which
the writer lease probes exclusively when it changes hands.  Automation runs
dispatch shell tasks under a leased goal.  Managed processes on Windows are
attempts of the containment service.  All rows live in the SQLite database
whose files the lifecycle lock protects.

What makes it correct: authority over a goal is exclusive and fenced by
generation; an unexpired lease is taken only from a worker that is gone; an
active goal never loses its next wake; an ended goal is quiet; whatever writes
is reserved or journaled until it is proven over, whoever died; nothing is
launched twice; no crash loses the user's data.

## 2. Plan

Done: the goal core (`GoalState` … `GoalService`) with its proofs; liveness of
the wakes; the writer index, shell tasks and writer lease; database, files and
automation; process manager, containment service, tunnel, external MCP
sessions, update worker and admission broker.

Left, in this order: the remote MCP controller, the agent swarm.

## 3. Modules and the code

| Module | Models | Notes |
|---|---|---|
| `GoalState` | tables and queries | state, `TypeOK`, selects, lease columns (`Grant`, `Renewed`, `CutAt`), evidence tests |
| `GoalLease` | goal transactions and fenced calls | one action per transaction; `ReadGoal`, `ObserveFence`, `ReadTasks` are the awaits of a request that gathers evidence |
| `Continuation` | schedule transactions | one action per receipt outcome and per result of a claim |
| `GoalRepository` | their composition | `Next`, `Spec`, properties |
| `WorkerAuthority` | abstract lease | standing, epoch, holder, writers; `ImplementsAuthority` in `GoalRepository` is the refinement |
| `GoalService` | services over the repository | finish and cancel as walks, requests, host, crash |
| `GoalLiveness` | `GoalRepository` under fairness | |
| `WriterIndex` | marker files, `reserve`, `release` | observation outside the lock and decision under it are two steps |
| `ShellTasks` | durable tasks over the index | hosts, workers and process groups die separately |
| `WriterLease` | lease row, journal, calls, over the index | a change of hands is probe in, transaction, probe out |
| `SqliteLifecycle` | lock file, open, migrate, back up, restore | one file operation a step |
| `FileMutations` | files, checkpoints, trash, transactions | contents are named by who wrote them; each path is inside or outside the workspace and holds text, a binary or bytes that are no UTF-8 |
| `Automation` | runs, milestones, attempts | a call is the list of steps it still has to take and the run as it last read it |
| `TunnelLock`, `TunnelController` | ownership file; queue, child, restart timer and whether the runtime is managed | one system call, or the code between two awaits, a step |
| `ProcessManager` | records of POSIX children and of service attempts | the code between two awaits a step |
| `Containment` | the service those attempts run in | ledger in memory and on disk, threads, Jobs, imports |
| `McpSessions` | sessions of one external server | the code between two awaits a step; a child is there from the connect on and ends by itself |
| `UpdateWorker` | request journal, transaction and slot | a publication is create, write, move, answer; the process may die or fail between any two |
| `Admission` | the admission broker | a call is one step under the broker's lock, with three outcomes: answered, published and unanswered, staged only (which refuses every later start) |
| `MCGoals`, `MCService`, `MCWriters`, `MCStores`, `MCDesktop`, `MCLiveness` | instances for TLC | section 4 |
| `*_proofs` | proofs | section 6 |

State of the goal core: `status`, `revision`, `lease`, `generation`, `seq`,
`tasks` are columns of `goals`; `ever` is the set of tasks any checkpoint
tracked; `rows[g]` the continuation rows in order of their generation; `calls`
the fenced calls that are not completed; `runs` the ledger of recurring runs;
`obs[s]` what a request of session *s* has read so far; `issued[g]` is the
history of tokens handed out (auxiliary: tokens are random and only their hash
is stored, so a token is known by its position here).

Abstractions of the goal core:

- A NULL column is 0.  The clock starts at 1 and tokens are numbered from 1.
- One tick is one minute; timing constants are CONSTANTS.
- There is one owner client.  `assertOwner` rejects others without a write.
- A native identity is a Boolean (known or not); the host never reuses one.
- A session may present any token it was ever given (`TokensOf`), so replaced
  workers keep acting.  Completed calls are dropped.
- At repository level receipts are unconstrained: the host may report any
  outcome at any time.  In `GoalService` the host tells the truth.
- A request samples its clock once where the code does (`finishGoal`,
  `reconcileGoals`, `cancelGoal`).
- Transactions that throw write nothing and are disabled actions.
- Text, plans, acceptance, engineering gates, capsules and delivery receipts
  are left out: they do not touch the lease, the schedule or the fence.
- `GoalService` has one server process; its memory (`flow`, `tombs`, `reqs`,
  `obs`) is lost in a crash, the database and the host are not.  Read-only
  goal-bound tools, whose lease is not validated, are not modelled.

Abstractions of the other modules:

- A lock that the code takes with an exclusive create and that is not the
  subject of the module (the index lock) is exclusive; the lifecycle lock, the
  tunnel's mutex on POSIX and their stale reclaim are modelled file by file.
- On Windows the tunnel's mutex is a named one that a helper process holds: it
  goes back when the helper ends or dies with its desktop.  A helper that alone
  is killed, while its desktop goes on inside the section, is not modelled.
- A pid is used once, except that a server that restarts in `WriterLease` may
  come back under its old one.
- Output, logs, diffs, digests and limits on sizes are left out.
- A checkpoint stores text (`Decoded`): bytes that are no UTF-8 come back
  mangled, a binary file is refused, and outside the workspace nothing is kept.
  A patch reads the bytes it may have to put back by itself, inside and outside
  (`file-service.ts:454`), so its roll-back is exact; that of a checkpoint
  restore writes decoded text.
- Of the managed runtime of the tunnel client only its effect on the key, the
  lock and the queue is modelled: it is there or not, and its stop succeeds or
  throws.
- Re-reserving the own id with the same digest, which the index answers with its
  own marker, is left out of `WriterIndex`: nothing is written.
- The tasks that the verifier's `git_diff_check` runs
  (`automation-verifier.ts:184-216`) are not among the tasks `Automation` starts.
- In `Containment` a failed `Persist` may come before or after the move of the
  file; `Release`, which several handlers call after another ledger call, is an
  action of its own because the two calls take the ledger's lock separately.
  Kill-on-close of a Job is taken as the kernel's promise (external).

## 4. Runs

Bounds are guards: `MaxTime`, `MaxRevision`, `MaxGeneration`, `MaxSeq`
(admissions per generation), `MaxRows`, `MaxVersion` in the goal core, the
`Max…` constants elsewhere.  Two generations are enough for a replaced worker
and its successor to interfere; `MaxTime` passes the end of a lease term (in
`goals`, also its stale grace), and `chain`, whose term is as long as its time,
shortens the lease through the wake's due time instead; one admission per
generation is enough for a call that crosses a hand-over.  Deadlock checking is
off because goals end, processes are done, bounds are reached and nothing has to
happen then.  The suites (`MC…`) put independent components into one run: the
variable `scene`, chosen in the initial state, says which one moves.  Sets of
different scenes share their model values so that one permutation is a symmetry
of all of them.

| Run | Shows |
|---|---|
| `goals` | Three scenes of the repository; the first worker is always the same session, the other one gathers evidence. Two sessions race acquisition, checkpoint, finish, cancel, reconciliation and blocked recovery; evidence is gathered in separate steps. All ten receipt outcomes in every order. `Fencing`, `LeaseColumns`, `TurnsAreQuiet`, `TypeOK`, `RetimeIsBound`. And the production shape, an hourly watchdog, fenced calls and a tracked task: `SupersededCallsDrain`, `CancelledIsQuiet`, `TakeoverIsQuiet`. |
| `chain` | Three one-time wakes in a row: collision, orphan probe, takeover, against a fenced call that outlives its lease. A wake one unit early (`EarlyTolerance = 1`) is what meets a lease still held. `ClaimedHasSuccessor`, `TakeoverIsQuiet` and the refinement `ImplementsAuthority`. |
| `service` | Finish and cancel walks against calls, receipts, wakes and crashes; a goal that ends, is reconciled and reopened. `FinishedIsCleanedUp`, `EndedRequestsStop`. |
| `writers` | Two servers. Shell tasks (one host launches them; a larger instance, where each host launches one, passes too but takes too long to keep): `RunningIsReserved`, with imports alone. Writer lease (two sessions, one call each, a managed writer): `OneWriter`, `RunningIsJournaled`, `ChangesAlone`. |
| `stores` | Database with three pids, enough for the lock to let two in: `DataKept`. Two files, two edits side by side and a third after them: `NothingLost`, `FailedIsUndone`; at most one path is outside the workspace or holds something else than text, and then two edits are enough (`FewOperations`): one that leaves something to lose and one that could lose it. One automation caller, two dependent milestones: `WorkIsProven`. Two attempts in the containment service: `LedgerLoads`, `LaunchIsFenced`, `PublicationIsAlone`, `CancelledIsNotPublished`. Two update workers one after the other, three requests with room for one receipt, one update transaction: `AnswersKept`, `StagedIsAdoptable`, `SlotFitsPhase`. Three processes, two participant ids (so that one can retire and another register), two permits each, one update with two owners: `DrainHolds`, `GrantedOnce`. |
| `desktop` | Four desktops on the tunnel's ownership file on Windows, two on POSIX: `TunnelHasOneOwner`. The controller: `StopHolds`, `LockOutlivesChild`. Two processes: `ReleasedIsGone`, `VerifiedIsFinal`. Two requests for an MCP server whose launch changes, three connections (the third for one request at a time, `FewRequests`), two faults, so that a termination may fail after another: `NoChildLost`, `ServesItsLaunch`. |
| `liveness` | `OrphansRecover`, `GoneIsNoticed`, under fairness. |
| `owners`, `tombstone`, `tunnel`, `ownership`, `attempts` | violations, section 5 |

Fairness.  `GoalLiveness`: time passes; the host creates the tasks it was asked
for and fires them; a wake's request is made again until it is answered (strong
fairness, because a request may be lost or find the task state unreadable, but
not every time: the native schedule repeats it).  Nothing is assumed of the
worker, of the owner or of other sessions.  The goal may be stopped by a bound
of the instance (`OutOfBounds`: the last tick, the last row); that disjunct is
the bound's, not the code's.  `ProcessManager`: Node runs its timers and
promise callbacks (weak fairness), and an inspection, a release or a service
query may fail but not always (strong fairness); that the process ends is not
assumed.

What the passing properties do *not* say: `TakeoverIsQuiet` is about the tasks
the goal tracks and the calls the fence knows; an acquisition of an *expired*
lease by `run_goal` checks neither, by design, and is bounded by
`SupersededCallsDrain`.  `EndedRequestsStop` leaves out goals that
`reconcile_goals` cancelled, which aborts no request.  `TunnelHasOneOwner` is
about Windows (on POSIX it fails with four desktops, section 5).  The part of
`DataKept` about blank databases is about executions in which the lifecycle lock
never let two in; that the user's data is kept is not.  `NothingLost` and
`FailedIsUndone` leave out operations that met another open one on a path (the
history field `met` of `FileMutations`): two admitted mutations of one file may
lose a content, because the pre-image of the second predates the first.  Outside
the workspace a replaced content is gone, as the repository says
(`MUTATION_SAFETY_MATRIX.md:11`), and so are bytes that a checkpoint could not
decode, which it does not say: a write over such a file answers with a
checkpoint.  `LockOutlivesChild` says that the lock is not given away under a
client, not that every client was started under it: `startOnce` stores the key
(`tunnel-controller.ts:1424`) before it takes the lock (`:546`), and the key is
all a restart asks for, so a Stop and a new Start beside a restart that still
prepares let it spawn a client without the lock.  A Stop that finds the runtime
managed (`:676-699`) neither kills such a child nor gives the lock back.

## 5. Findings

- **`owners`** (`OneScheduledOwner`): `created` is accepted from
  `create_failed` without looking at the workspace, which gives it two
  scheduled owners; every fenced mutation in it then fails.
- **`tombstone`** (`TombstonesAreFinal`): finishing as *blocked* leaves a
  tombstone that outlives `recover_blocked_goal`.  The reopened goal cannot run
  goal-bound tools until the process restarts.
- **`tunnel`** (`OneTunnelClient`): the restart timer spawns a tunnel client
  beside the queue that serialises start and stop, so a queued Start and the
  restart each spawn one.
- **`ownership`** (`OneOwner`): on POSIX the reclaim of a dead desktop's mutex
  removes whatever the path names by then.  Two overlapping reclaims let two
  desktops into the section; one moves the other's fresh record aside to look at
  it, and a fourth desktop publishes in that gap.  The blank mutex of a desktop
  that dies between creating and writing it is reclaimed by nobody.
- **`attempts`** (`OneAttemptStarts`): one `advance` has reserved attempt 1 and
  not launched it yet; a second one observes *unknown*, which blocks the attempt
  as unresolved, and the next finds the task absent, which it still is.  The
  first call launches, the second reserves attempt 2 and launches too.
  `MUTATION_SAFETY_MATRIX.md:232` promises that only exact absence permits
  another attempt.  With one call at a time the property holds, but a call goes
  on after its request has ended, so a retry overlaps it.

Properties kept in their modules, in no run, because TLC answers *no*:

| Property | Instance | What happens |
|---|---|---|
| `NoPhantomFence` (GoalRepository) | a failed retime | `checkpoint` and `refresh…` cap the lease at `pending_due_at` even when the retime is known to have failed (`goal-repository.ts:443`) |
| `EndedWatchdogIsInCleanup` (GoalService) | crash | a crash between the cancel transaction and the marking leaves a recurring row `scheduled` on a cancelled goal; a second `cancel_goal` repairs it |
| `FinishedIsNotAwakened` (GoalService) | late receipt | a goal completes while its native task exists and `created` is under way; the receipt is refused and nobody stops the task |
| `RunsOnce` (ShellTasks) | two launchers, one task | the metadata is looked for before the reservation, not after it: a delayed repeat of a launch starts the command again (`docs/architecture/MUTATION_SAFETY_MATRIX.md:231`). `RunningIsReserved` fails there too: the failed launch of one host leaves a record by which any reader releases the reservation of the other |
| `TerminalIsFinal` (ShellTasks) | cancel and worker race | cancellation writes metadata it read earlier over a completion |
| `LockIsExclusive` (SqliteLifecycle) | three pids | two waiters judge one stale lock; the slower removes the lock the faster has made. With a fourth one may then create and use a blank database while a restore has the real one aside |
| `ClaimIsRestore` (SqliteLifecycle) | crash | a restore that died leaves a claim, and every open refuses as if one were running |
| `NeverStranded` (Automation) | crash | between `milestone_ready` and `attempt_reserved`: the milestone is never picked up again |
| `ActiveWithinLimit` (ProcessManager) | two starts | the limit is read before the executable is resolved (`docs/development/PACKAGING_WINDOWS.md:29`) |

A child MCP server may leave the books of its manager while it lives, in the
three ways that `NoChildLost` names and no other: its connect failed or timed
out and the factory could not stop it, a failure that is swallowed
(`mcp-session-manager.ts:440-449`); two terminations failed, which share one
slot of `unverifiedSessions`; and a connection left behind by an aborted request
published itself over a session that was published while it waited for the one
it replaced to close.

A worker that dies while it writes a pending journal leaves a torn one, which
every later command holds on: `StagedIsAdoptable` leaves it out.  The phases
that would end an update transaction need evidence nothing produces yet
(`EvidenceRequired`), so that a transaction once begun holds the installation;
the code says that updates are unavailable.

Evidence of quiescence is bound to an epoch, and reopening keeps the epoch: a
`Quiesce` that is repeated after `Reopen` with the same evidence makes its
participant quiet in the new open phase, until the next update.  `DrainHolds` is
not affected.

In the containment service an attempt that fails after its dispatch and before
its pid is recorded stays *unknown* for ever and keeps its shared reservation,
so that no import can begin; the code says so on purpose ("missing Job state
alone does not prove no target survived"), and nothing is claimed about it.

## 6. Proofs

All theorems about the goal core hold for every value of the constants under
the named assumptions of `GoalState` (`SetsAssumption`, `TimesAssumption`,
`BoundsAssumption`): finite sets of goals, calls and tasks, natural timing
constants, no session named `"none"`.

- **Step classes** (`GoalTypes_proofs`).  Some thirty actions do only four
  things to status, lease columns, tokens and calls: *Idle* (at most calls
  disappear), *Renewal* (the holder's expiry moves, perhaps with a call of the
  current generation begun or renewed), *Ending* (the lease is released or the
  goal ends) and *HandOver* (a grant).  `NextClass` proves it action by action;
  the later proofs go by class.
- **`TypeCorrect`, `LeaseColumnsHold`** (`GoalTypes_proofs`).  `TypeOK` is not
  inductive alone: a heartbeat renews the lease of an active goal, and only
  `LeaseColumns` says that an unexpired lease has an owner.
  `LeaseInv == TypeOK /\ LeaseColumns` is.
- **`FencingHolds`** from `LeaseInv`: a grant appends a token with the next
  generation, nothing else touches tokens.
- **`CancelledStaysQuiet`**: cancel and reconcile close the calls of the goal;
  admissions and heartbeats need an active one.
- **`SupersededDrain`**: needs `CallsBounded` (a call expires at most one call
  lease from now); at the hand-over this becomes a bound relative to the new
  token, and no heartbeat of the old generation succeeds afterwards.
- **`WakesAreSucceeded`**, **`RetimesStayBound`**: `ChainInv`, both properties
  for the rows of each goal.  A claim breaks it inside its transaction: the row
  is claimed before the successor is reserved, so the lemmas speak of `Follows`,
  which leaves one row open, and `ChainReserve` closes it, whether the successor
  is new or was there.  `Replaces` is what every other row write satisfies.
- **`TakeoversAreQuiet`**, **`TurnsStayQuiet`**: action properties, from
  `EvidenceInv`.  Evidence is read in three steps and used in a fourth, so the
  invariant says what of it is still true: while the generation and the activity
  sequence are as observed no call has become live (`Observed`), while the
  revision stands the tasks of an active goal are among those asked about, and a
  task seen idle has ended for good, as only started tasks are tracked (`Sound`).
  `Keeps` is the matching step relation: whatever could spoil evidence moves one
  of these three counters.  It is proved action by action.
- **`RefinesAuthority`**: `Spec => ImplementsAuthority`, each class maps to an
  abstract step or a stutter.

The theorems about the services (`GoalService_proofs`) rest on the same
assumptions and on `LeaseInv`, which the walks keep too.

- **`EndedRequestsAlwaysStop`**: `StopInv`.  The property speaks of running
  requests; one that was admitted before the end may still register after it, so
  the invariant is about every request: its goal is not finished, or has a
  tombstone, or an abort is announced, and under a tombstone whatever runs was
  aborted.  The commit of the transition announces the abort in the same step.
- **`FinishedAlwaysClean`**, for callers that prepare watchdogs only
  (`PrepareOccurrences \subseteq {"interval"}`): `CleanInv`.  Between the marking
  and the commit the finish holds no lock; what protects it is the revision it
  validated (`CommitFits`): a row becomes live only under a new revision of an
  active goal (`RowsStep`), so a commit at the old revision finds what the
  marking left.  A row that is no longer live has no native task or one whose stop
  was proved (`RowFits`), because a receipt in the mail that says *stopped* is
  true for good (`MailFits`, `StoppedStays`).  For legacy one-time wakes the
  statement is false as it stands: a task that has fired keeps its name in the row
  and the model of the host does not retire it.

The theorems about the containment service (`Containment_proofs`) need no
assumption: any set of attempt ids, any bound on processes.

- **One entry at a time.**  `Fits` says what may replace an entry of the ledger
  so that the whole still loads; `Keeps` is the common case that keeps or gives
  up the reservation.  Every step of a thread replaces one entry by one that
  fits, or none (`LedgerStep`), with the exact relation between that entry and
  the thread's next stage; proved thread by thread (`ClientMoves`,
  `LaunchMoves`, `MonitorMoves`, `ImportMoves`, `OthersRest`).
- **`Containing`**: the inductive invariant.  `LedgerLoads` alone is not
  inductive: a write that fails leaves file and memory apart, so both must load,
  and they must agree while the service answers, because every guard reads
  memory and every restart reads the file.  `LaunchIsFenced` further needs that
  a thread between dispatch and resume has an entry in hand and has never run,
  and that a marked one has its pid in the file.
- **`LedgerAlwaysLoads`**, **`LaunchAlwaysFenced`** follow: a restart never
  meets `ATTEMPT_STORE_CORRUPT`, and no attempt is launched twice, unreserved or
  unrecorded, wherever the service crashed or failed to write.
- **`PublicationAlwaysAlone`**, **`CancelledNeverPublished`**: add `ImportInv`,
  which ties the steps of an import to its entry.  The commit is in the file
  before the intent, the intent before the move; a write that failed may leave
  the commit in memory only, so that it is the *file* that has to say so before
  anything is at the destination.

The theorems about the admission broker (`Admission_proofs`) assume only that
the bounds on permits and owners are natural numbers (`AdmissionBounds`); the
run has one update, the theorems any number, one after the other.

- **The inductive invariant** `AdmissionInv`.  `DrainHolds` alone is not
  inductive: that nothing runs rests on `WorkIsHeld` (work runs only under a held
  permit), on `JournalParses` (a held permit has an active participant, and the
  watermark never passes an unsettled one) and on `DrainedIsQuiet` (after a
  receipt nobody is active, and a new epoch has no receipt yet).  `GrantedOnce`
  needs that what was granted was issued, so that the next number is new.
- **One lemma per call**, each with the published and the unpublished outcome;
  `PermitsKept` is what the calls share that touch no permit.
- **`DrainAlwaysHolds`**, **`GrantedAtMostOnce`**, **`JournalAlwaysParses`**.  The
  last is the check the broker itself makes (`Parse`) before it writes and after
  it reads: it never refuses what the broker built.

The theorems about the writer lease (`Writers_proofs`) rest on
`LeaseAssumption`; of it they need that a server files its probes under a job
id that no managed writer has.

- **`CallInv`** is about the journal alone.  `OneWriter` is not inductive: at a
  change of hands it rests on `RunningIsJournaled` (no live journaled call means
  no running call), and that survives the end of another call only because
  running calls have different ids.
- **`IndexInv`** is about the reservation index alone.  That the probe is the only
  marker needs that removing what was *observed* over never removes what runs
  now: observation and removal are two steps, and a writer may end, be released
  and a late reservation of the same id enter in between.  `GoneIsOver` says the
  marker of that late reservation is another one, because the server of an
  observed marker has entered its writer and never notes it again (`Entered`).
- **`OnlyOwnerWrites`**, **`RunningIsSeen`** follow from the first,
  **`LeaseChangesAlone`** from both.
- **`CommandsStayReserved`**, about the shell tasks, under `OneLauncher`: no
  task id is asked of two hosts (the ids are the callers').  `ShellInv` follows
  three records that may be stale when they are used: what a reservation
  observed over (`NoteFits`: a *spent* task never runs again), the record a
  cancellation read (`ViewFits`: a child in it was really spawned) and task.json
  itself (`RecordFits`: unlaunched means spent).  Without `OneLauncher` the
  property fails, see `RunsOnce` in section 5.

The theorems about the desktop (`Desktop_proofs`) need that no desktop is
called `NoDesktop` (`TunnelLockAssumption`) and, for the rest, the types of the
bounds; desktops, restarts, queue, processes, connections and requests are any
number.

- **`OneTunnelOwner`**: `LockInv` says who is inside the section (`mutexFile`
  is its name) and what follows from it: only the one inside has judged or moved
  a record, what it moved is the record it judged, and an owner that is not
  giving the tunnel up is the one in the lock file.  On POSIX no such invariant
  exists; the failed attempt to prove one is how the finding `ownership` was
  met.
- **`LockAlwaysOutlives`**, **`StopAlwaysHolds`**: action properties, from
  `ControlInv`.  A restart may prepare while the queue is empty or a stop is under
  way.  What makes it harmless is that a stop requested after a start has begun
  is seen in its abort flag, that the stop flag stands from the kill to the
  release, and that a stop which releases has no child left.
- **`ReleaseAlwaysFollowsTheEnd`**, **`FinalRecordsStay`**: `ProcFits`, one
  formula per process, relates record, reservation, life of the child and the
  continuations under way (an inspection, a release, a submission, an
  observation).  It is needed because a verdict is formed in one step and
  applied in a later one: what was found gone must still be gone.
- **`ChildrenAreKept`**, **`RequestsAreServed`**: `ChildInv` says where a child
  in each phase of its connection is held, from the moment its connect begins,
  `CallInv` that a caller waits for, or uses, a link of its own launch.

The theorems about the stores (`Stores_proofs`) take any requests, images,
processes, callers and milestones.  They need that no request is named like the
two other things a journal is written for (`RequestsAssumption`) and that
milestones are natural numbers with dependencies among them
(`AutomationAssumption`).

- **`AnswersAlwaysKept`**, **`StagedAlwaysAdoptable`**, **`SlotAlwaysFits`**:
  `UpdateInv`.  A command reads, decides, stages and publishes in separate
  steps, any of which may fail or be the last; `JobFits` says what the record it
  carries still has to do with the files it has not changed, before it is
  published (`PendingFits`) and after (`PublishedFits`), and `StageFits` the same
  of what a dead worker left.  Adopting a staged journal is then the publication
  the dead worker did not get to.
- **`DataAlwaysKept`**: `LifecycleInv`.  `UserKept` holds however many the lock
  lets in, because the backup is made before anything moves the database.
  `Guarded` says why nobody opens a blank one: while the database is away its
  restorer's claim is there, and a claim outlives its owner.  It needs one process
  inside, and the attempt to prove it without showed, with TLC, the execution of
  four processes in section 5; hence the history variable `overlap`.
- **`WorkAlwaysProven`**: `AutoInv`.  A call carries the list of mutations it
  has yet to make, computed from a run it read earlier.  The invariant says of
  each step still in a list that it is about a milestone whose dependencies are
  completed and verified and which has the attempt the step needs (or is given one
  by the step before), and that a list which finalizes does nothing else;
  completion is never undone, so what was true when the list was made is true
  when a step of it is applied.
- **`FilesNeverLost`, `FailuresAlwaysUndone`**: `FileInv`.  Two open operations
  with a path in common have met (`Apart`), so what an operation that met none
  saw of its paths is still there (`Fits`): a replacement finds on each target
  what it kept, or what it wrote itself; a transfer finds its destination free,
  or its copy; another program's write, and the copy of a backup over a file,
  find in the trash what they replace.  An operation that may still trash a file
  has no item yet and none is restored from it (`Fresh`), which is why an item
  that is fetched was trashed by an operation that is over.  Steps have a common
  shape: own paths only, checkpoints only grow, own trash items only.

Only model-checked: every other property of section 4.  Liveness under
fairness, ENABLED and induction over data are out of the prover's reach; there
are no RECURSIVE operators in these modules.

## 7. Not modelled

Components marked `not_modelled` in `PROJECT.json`, with the reason there.  Most
of the repository's lines are user interface, settings, tool schemas, message
catalogues, installers, parsers of tool output and Windows API bindings: they
keep no state that two actors share, and a model of them would restate them.  In
the modelled files: documents attached to a goal, error wording, audit events,
the choice of the goal a refresh renews for (left open), corrupt rows (the
repository throws on them), clocks that jump backwards, output capture and
paging, retention and pruning, what the native managed runtime of the tunnel
client does, the installer and the caller
authentication of the containment service.
