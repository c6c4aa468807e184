# A verification project for eXplode (FiSC)

eXplode checks storage systems (file systems, RAID, version control, databases)
by running them. A test harness drives the system; wherever something could go
more than one way (which operation comes next, whether an allocation fails) it
asks the *model checker library* to choose, and the library runs the harness
again and again until all combinations have been tried. A *crash simulator*
records what the kernel's buffer cache does while the system runs, works out
which disks a crash could have left, and has the user's checker recover and
examine every one of them.

If eXplode forgets a choice, regenerates the wrong state, or misses a crash
disk, it says "no bug" and nobody notices. If it invents a disk no crash could
leave, or its oracle rejects a disk that is in order, it reports bugs that do
not exist. Both kinds of mistake are hard to
test. This directory states what the library, the simulator and its kernel log
have to do, models the code in TLA+, checks the models with TLC on small
instances, and proves the central results with TLAPS for all instances.

Paths below are relative to `src/explode`.

## 1. Inventory

| Component | State | Operations | What makes it correct |
|---|---|---|---|
| Choice enumeration `mcl/Random.C` | list of choice points (value, ceiling, may be changed), position | `random`, `repeat`, `skip_rest`, `reset`; play-back of a list (`ReplayRandom`) | every combination of nested choices runs exactly once; the loop ends; the record equals what was returned |
| State search `mcl/ModelChecker.C`, `StateQueue.h`, `State.h` | queue, signature table, checkpoint table, current state, bug count | init, dequeue, `set_state`, run a transition, `get_state`, `process_test_return`, self checkpoint and restore, restart, replay of a trace file | everything reachable is explored, once; states are regenerated exactly; crashes lose nothing; reported errors replay |
| Monitor `mcl/Monitor.C` | connection, bytes received of an incomplete command | heart beat, `want_restart`, `prog_done`, time-out, reboot | a dead checker is rebooted; a living one is left alone while it beats; the monitor quits only when the checker is done |
| Log of the kernel module `ekm-linux-2.6/ekm_log.c`, `ekm-common/ekm_log_buf.c`, fetched by `crash/RawLog.C` | pages, size, sequence number, page count, traced devices | hooks, start and stop of a trace, size and fetch ioctls | records whole, none lost, copies fit, fetch ends |
| Log parser `crash/LinuxLog.h` | per sector: locked, submitted, delayed clear | one operation per buffer record | the sectors it calls pending are those the kernel may still write |
| Potential write set `crash/BufferCache.C`, `Combination.C`, `Powerset.C` | sector to pending contents, current disk | add, remove, write, finish; enumeration of crash disks | see the next row |
| Permuter and epochs `crash/Permuter.C` | epoch (gone, recent, now), crash disks checked | `LAST_CHECK`, `CUR_CHECK`, `check_one_crash` | every possible crash is checked, nothing else is, and each in the right epoch |
| Kernel buffer cache with hooks `kernel/patch` (external) | buffers: dirty, locked, in flight | `mark_buffer_dirty`, `lock_buffer`, `submit_bh`, `end_bio`, ... | environment |
| Crash simulator harness `crash/CrashSim.C`, `Component.C` | component stack, traces, kernel threads | mount, umount, run threads, choices | composes the rows above |
| Recovery cache `crash/Fsck.C` | sectors read by recovery to its result | look up, insert | a cached result is that of running recovery |
| Recovery and system call permuters `crash/SyscallPermuter.C`, `Cluster.C` | second log, clusters of system calls | permute | crashes during recovery are covered |
| Kernel choices and threads `ekm-linux-2.6/ekm_choice.c`, `ekm_thread.c` | one choice record, count of disabling threads, thread list | hooks (`choose`), get, set, disable, enable; `pre_choose`, `post_choose` of the simulator | every failure is tried, only where it was asked for, and again when a state is regenerated |
| RAM disk `rdd-linux-2.6/rdd.c` | sectors, copies | requests, whole-disk ioctls | copies are consistent |
| Oracles `driver/AbstFS.C`, `StableFS.C` | stable and volatile file system, pending calls as deltas, cache of valid file systems | entry and exit of each system call, sync, fsync, `check` | accepts what a crash may leave, rejects what lost synced data |
| Storage stacks, checks, RPC, options, scripts, BSD ports, MTD, kernel patches | | | see section 8 |

How they interact. The harness calls the library for choices (`xe_random`) and
reports errors through return codes; the library calls the harness
(`init_state`, `run_one_transition`, `get_sig`, `checkpoint`, `restore` and the
hooks). In persistent mode library and monitor talk over a socket, and the
library's state survives in a file. The crash simulator *is* a harness: in one
transition it starts a trace (ioctl), runs the user's mutation against the
kernel, stops the trace, fetches the log, parses and replays it, and calls the
user's checker for every crash disk. The file system driver's checker is
`StableFS`, which has replayed the log of system calls up to the crash. Around
every system call the simulator may arm the kernel module's choice record, so
that a choice point in the kernel fails; which one is a choice of the search.
The kernel hooks run on kernel threads concurrently with the ioctls.

What is hard: the odometer over choice points whose number changes from run to
run; a state kept only as a list of choices and used long after; reboots at any
point, checkpoint files half written; buffers that are cleaned, locked,
submitted and dirtied in every order, observed only through a log; crash disks
checked only when the write set shrinks; the log growing while it is fetched;
commands cut anywhere by a byte stream, and a buffer that outlives its
connection; a choice record in the kernel that outlives the execution that
armed it; a cache of answers that a sync makes wrong.
PROJECT.json lists these under `hazards`, each at its line.

## 2. Modules

```
Random <-+- EnumRandom   <- EnumRandomProofs, MCEnumRandom
         +- ModelChecker <- ModelCheckerProofs, MCModelChecker
         |      | implements
         |      v
         |   Worklist
         +- KernelChoice <- KernelChoiceProofs, MCKernelChoice
         +- RandomProofs (lemmas; used by the three proof modules above)

LinuxLog    <-+
BufferCache <-+- CrashSim <- CrashSimProofs, MCCrashSim
EkmLog <- EkmLogProofs, MCEkmLog
AbstFS <- StableFS <- StableFSProofs, MCStableFS
Monitor <- MonitorProofs, MCMonitor
```

**Random** — the objects of `mcl/Random.C` as operators on a record
`[choices, ceils, cur]`. `EnumRandom`/`EnumValue` are `EnumRandom::random`, `SkipRest`
is `skip_rest`, `Repeat` and `EnumReset` are `repeat` and `reset`. A call
with ceiling 1 is answered without a record, as in the code.

**EnumRandom** — the `do ... while(_rand->repeat())` loop of
`ModelChecker::model_check` for one transition. The transition is a tree:
`tree[p]` is the ceiling of the `xe_random` call made after the choices `p`.
`ran` remembers the leaves executed.

**ModelChecker** — the search. The harness is the variable `test`, chosen in
`Init` and constant afterwards: its state before and after `init_state()`, its
signature, the choice tree of each system state, how each leaf returns and
where it leads, what `after_new_transition()` says, and where it checkpoints.
`queue`, `visited`, `ckpts`, `curr`, `rand`, `bugs`, `sched`, `skt` are `_q`,
`_visited_states`, `_ckpts`, `_curr`, `_rand`, `_bugs`, `_need_restart`,
`_mon_skt`. `disk` is the checkpoint file and its temporary: writing goes open,
one section after another, fsync, rename, and a crash may come between any two.
`traces` are the trace directories; `result` is what replaying one gives. A trace is
not synced when it is written: a machine that stops before the `sync()` of the restart
after the error may lose it (`Unsynced`, `PowerLoss`).
Crashes, failing opens and scheduled restarts are actions, bounded together by
`MaxFaults`; the monitor reboots a machine that is dead or asked for it. The
queue order is an option that comes with the harness (`test.queue`).

**Worklist** — what the search promises, without queues, traces and files: a
set of states found, those still to be expanded, and a reboot that may take both
back to anything earlier that is consistent. `ModelChecker` implements it
(`ImplementsWorklist`): `found` is the set of signatures, `todo` the signatures
queued and the one being expanded (`busy`), and a bug after which a persistent
checker restarts makes its state `flaky`, since the rest of its choices is lost
(section 7).

**Monitor** — `Monitor::listen` and the sends of the checker in the machine
under test. The connection is a stream of words of four bytes; a heart beat
is three sends, a `recv` returns any part of what is there, `cmd_buf` keeps an
incomplete command (also over a reboot: `avail` is not reset), and the bytes
behind a complete command are dropped with it. Checkers end, ask for a restart,
die alone or with their machine, and `select` times out when nothing has
arrived.

**LinuxLog** — `LinuxBlockRecParser`: what each record does to a sector's state
and whether it makes the sector leave the write set now (`RemoveNow`), when the
buffer is unlocked (`RemoveDelayed`), or not at all.

**BufferCache** — both caches and the crash disks of one batch (`Batches`):
all subsets of the pending sectors up to the deterministic threshold, random
ones above it, with the accumulation that `Powerset` has in its random mode.

**CrashSim** — kernel, parser, cache, epochs and checker together. The kernel
is an environment: any order of buffer operations the locks permit. `vers[s]`
is, from the kernel's point of view, the contents sector `s` may still be given;
`past` and `present` collect the disks a crash could have left in the recent
epoch and in the present one. The code parses and replays the log after the
trace has been stopped; the model does so record by record, which is the same
since neither looks ahead, except for `RecParser::finish`, which looks for
`LAST_CHECK` in the whole log: how many are still to come is guessed in `Init`
(`forgets`).

**EkmLog** — log pages, hooks on several threads, traces, and the four ioctls
with the loop that fetches the log. The hook's test of the traced device and
its append are two steps, as the lock is released in between; so are taking the
pages, loading the page counter and storing it back in `copy_log_buffer`.

**AbstFS** — the abstract file system as operators on a record `[obj, ent,
next]`: objects with reference counts and data, and entries `<<directory, name,
child>>`. `Canon` is the form up to object ids that signatures are taken of.

**StableFS** — the oracle. A system call enters (the volatile file system
changes, and its one or two deltas are appended to `calls`) and exits; `sync`
makes everything stable, `fsync` one file, and takes its deltas out of `calls`.
`check` is the whole of `StableFS::check`: the cache of valid file systems, the
subsets of metadata deltas in `Powerset`'s order with `skip_prefix`, the first
with the right metadata that decides, and `check_data`; what it looked at goes into
the cache also when it ends in an error. The object is made with the driver and
replays one log for every execution of the search: `NextLog` is `finish`, `clear` and
`start`, which reset everything but the cache. `inherited` remembers which of its
answers are from earlier logs only (section 7). `pending` is the
driver's own count, with which it syncs in time. `Images`, the states a crash
may leave, is written from what the calls mean and not from `check`.

**KernelChoice** — kernel failures as choices. A transition is a tree of events
(`prog`): calls, choice points in the kernel, regions that disable choices,
crash checks. Around a call `pre_choose` and `post_choose` arm and read the one
record of `ekm_choice.c`; the search enumerates with `Random`'s generator, and
afterwards regenerates any queued state by play-back, which ends in `"panic"` where
the code uses a null pointer (section 7). The record is the kernel's:
it is not reset between executions. Other kernel threads pass choice points and
disable choices at any time.

## 3. Runs

| Run | Question | Result |
|---|---|---|
| `enum` | is every combination of choices run once, for every small tree, also with `xe_random_skip_rest` (up to the values it declares equivalent)? | holds |
| `search` | every graph of three states, depth first, and systems with errors, aborts and skips, breadth first: exact regeneration, nothing missed, nothing twice; does every stored trace replay its error? | holds |
| `persistent` | crashes and reboots at any step, failing opens, restarts after errors and on request: is the file ever torn, is coverage lost, are synced traces kept and none overwritten, does it end; is it a worklist search that a reboot takes back? | holds |
| `crash_disks` | versioned cache, two sectors: is the write set what the kernel may write, and are all and only the possible crash disks checked? | holds |
| `regular_sound` | the regular cache, `check_now_crashes`, exhaustive and random batches: only possible crashes? | holds |
| `ekm_log` | does the copy fit, are records whole, is none lost, does the fetch end? | holds |
| `monitor` | every interleaving of checker, stream and monitor, deaths anywhere: is a checker rebooted exactly when it should be, and does the monitor quit only when it is done? | holds |
| `oracle` | five calls on files and directories in one log or over two, checks in between: no false alarm, nothing accepted that lost synced data, what this log cached and assertions in order? | holds |
| `kernel_choice` | programs with several calls, choice points and crash checks: is every failure tried, once, in its call only, and reproduced when an execution that skipped nothing is played back? | holds |

Three more runs show where the code departs from what its comments and documents
say: `restart_loses_choices`, `truncate_alarm` and `reentrant` (section 7).

### Bounds, and why they are enough

- `enum`: all trees of depth at most 2 over ceilings 2 and 3, and all binary
  trees of depth at most 3: carries of length two with subtrees of different
  shape on both sides. The trees with root ceiling 5 skip the rest at the values
  3 and 4. The proofs have no bound.
- `ModelChecker`: three system states; the first has nested choice points, so
  that a bug or a restart can hit it with choices left at both levels. `search`
  takes all 3^7 graphs plus checkpointing harnesses on a chain with back edges;
  the harnesses with errors and faults are on the chain only, which has every
  kind of edge (forward, self, back). Two faults are a crash, and another while
  recovering from it. `CkptStates = 1` writes the file at every state.
  `MaxBugs` is 2 or 3, so that the search goes on after an error.
- `CrashSim`: a sector's life has up to six records (dirty, lock, clean,
  submit, end, unlock). Seven records on two sectors are enough for contents
  of one sector to come and go while the other is pending, in both epochs;
  random batches take five. The proofs have no such bound.
- `EkmLog`: two units to a page and records of one and three units: records
  that fill a page exactly, start in its middle, and run over two borders. Two
  traces, because a hook that was delayed can only then meet a new trace.
- `Monitor`: a buffer of eight words and beats of five and six: a beat with its
  header fills the buffer exactly or leaves one word, so that whatever is left
  of an earlier connection makes a difference. `Window = 10` holds a beat and
  the start of the next. The number of connections is not bounded.
- `StableFS`: five calls make every pair of deltas meet before and after a sync
  or an fsync: create, link or rename, sync, remove, fsync. `MAX_SET` is 4
  instead of 10, so that five calls reach the limit. One write or truncate in the
  passing run, two in `truncate_alarm`. Two logs share the five calls: what a log leaves
  behind is the cache, and two logs are enough for it to be read in another log, to be
  joined by new answers, and to be emptied there.
- `KernelChoice`: programs with one and two calls of up to four choice points
  of two kinds, a region with choices disabled, a choice point outside calls, and
  crash checks; two steps of other threads. `MaxPoints = 3` is more than some
  calls have and fewer than others.

`CHECK_DEADLOCK FALSE` is in every configuration: the checked programs end, the
monitor quits, and the bounded environments run out of records or calls. `CrashSim` runs use
symmetry of sectors and of contents, which the module treats alike, and check
invariants only.

### Fairness

- `EnumRandom` and `ModelChecker` assume weak fairness of the checker's step:
  it is one sequential process. `ModelChecker` assumes in addition that a dead
  machine is rebooted eventually, which the monitor's time-out is for.
  Faults have no fairness.
- `EkmLog` assumes that the simulator's process keeps running (`WF` of its
  steps while fetching). Hooks have no fairness. `Fetched` (the fetch ends) rests on `MaxRecords`: with
  threads that log for ever the loop need not end, as the code's own TODO says
  (`crash/RawLog.C:45`); the property shows that nothing else keeps it going.
- `Monitor` assumes that the monitor's process keeps running, that a machine
  that was reset boots and connects (`accept` has no time-out, so nothing else
  would help), and that the kernel closes the connection of a process that has
  exited. Heart beats, restarts, the end of the search and deaths have no
  fairness.

## 4. Properties

- `Exhaustive`, `NoLeafTwice`, `Recorded`, `Terminates` (EnumRandom): when the
  loop ends all leaves have run, none runs twice, the record is what the
  transition was given, and the loop ends.
- `Regenerated`, `Complete`, `NoTransitionTwice`, `SearchWellFormed`, `Ends`
  (ModelChecker): the system is in the state the search believes; at the end
  every reachable state's every leaf has run; none runs twice; ids,
  signatures, checkpoints and queue fit together; the search ends.
- `FileWellFormed`, `CompleteWithoutErrors`, `BugReplays`, `NoTraceLost`,
  `NoPanic`: the checkpoint file is a complete image whenever it is read; a
  resumed search covers everything, unless an error was met (section 7); stored
  traces reproduce their errors in a fresh process, are never overwritten, and are
  kept once synced; no assertion trips.
- `Tracks`, `NowComplete`, `AllComplete`, `Sound` (CrashSim): the write set is
  exactly what the kernel may still write; every present (every recent) crash
  is checked; only possible ones are, in their epoch.
- `Fits`, `Whole`, `NoneLost`, `Fetched` (EkmLog): the copy fits the buffer
  allocated for it, records are never torn, none is lost, the fetch ends.
- `ImplementsWorklist` (ModelChecker): a state found is expanded before the
  search ends, and after a reboot only what will be found again is missing.
- `QuitsOnlyWhenDone`, `AssertionHolds`, `NoSpuriousReset`, `Watched` (Monitor).
- `NoFalseAlarm`, `SyncIsDurable` (StableFS): the oracle accepts every state
  that some of the pending changes make of the stable one, and rejects, from the
  exit of a sync on, those that lack what it wrote. `CacheIsSound`: an answer
  cached in this log is the answer check would give now (those of earlier logs are
  excepted: section 7). `NeverTooMany`: check never
  gives up. `AssertionsHold`: also after an fsync took half of a call away.
- `OnlyInCall`, `FewFailures`, `KnowsFailures`, `EveryFailureTried`,
  `Reproduced`, `NoPanic` (KernelChoice): failures hit only the armed call, one
  and as many more as asked for; `post_choose` is right about whether there was
  one; the executions are exactly those with at most one failure in each call;
  playing choices back makes the same choice points fail; no assertion trips. The last
  two except replays of executions that called `xe_random_skip_rest`, which crash
  (section 7).

`TypeOK` is an invariant of `crash_disks`. In the other modules it documents the
variables; in `EnumRandom` it is part of the inductive invariant that is proved.
`ModelChecker`, `Monitor` and `KernelChoice` end with the hypotheses of their theorems
(`NoPriority`, `Faithful`, `Alike`, `AlikeChecks`, `StartsInInit`; `BeatsFit`; `Bracketed`,
`Rooted`, `Paired`), which `MCModelChecker`, `MCMonitor` and `MCKernelChoice` assume, so
that TLC evaluates them for what the runs use.

Each of these properties has a mutant in PROJECT.json, a plausible mistake in the code under which
TLC finds it violated.

## 5. Proofs

**EnumRandomProofs** — for every set of choice trees (any depth and ceilings),
without `skip_rest` (`Skips = {}`):

- `EnumerationIsExhaustive` (`Exhaustive`), `EnumerationMakesProgress`
  (`NoLeafTwice`), `EnumerationIsRecorded` (`Recorded`), all from `Invariance`.

`Exhaustive` speaks of the end of the loop only. The inductive invariant `IInv`
says in between which leaves have run: exactly those that are *not* still to
come after the recorded choices. A leaf is to come if, where it first differs
from the record, it takes a larger value, or if an execution is under way and
the record is a prefix of it. A choice keeps the set of leaves to come; a return
moves one leaf out of it; `repeat` keeps it, since the choice points it drops
are at their last values.

**RandomProofs** has what all users of the generator need, as lemmas: on a choice
tree, `random` extends the path and records it, `repeat` gives up no value but
those that are last, and after it the executions still to come are those that
were to come and have not run. `IsTree` in `Random` says what a choice tree is.

**ModelCheckerProofs** — for every harness (any number of states, any trees,
return codes and checkpoints), any options, and any number of crashes, failing
opens, restarts and reboots:

- `SearchIsWellFormed` (`SearchWellFormed`), `FileIsWellFormed`
  (`FileWellFormed`);
- `StatesAreRegenerated` (`Regenerated`), `SearchDoesNotPanic` (`NoPanic`);
- `SearchImplementsWorklist` (`ImplementsWorklist`);
- `SearchIsComplete` (`Complete`), `NoChoiceIsLost` (`CompleteWithoutErrors`),
  `NoTransitionRunsTwice` (`NoTransitionTwice`);
- `WorklistIsExhaustive`: a search that ends by itself has found everything, as a
  property of the abstract search that it implements;
- `StoredTracesReplay` (`BugReplays`), `TracesAreKept` (`NoTraceLost`).

The invariant has three parts, each inductive only together with those before it:

1. `Sane` (`SearchInvariance`): ids, signatures, checkpoints and queue fit
   together in memory and in every file a crash can leave, where the temporary
   file holds the sections written so far of one such search; and the execution
   under way is a `Course`: its choices are a path in the choice tree of one
   system state, so all executions of a state start in the same system state.
2. `Honest` (`RegenerationInvariance`): every queued state, in memory or in a
   file, `Reaches`: from its checkpoint its choices lead to a state of its
   signature, through states known to the same search. `Leads` is the least
   relation closed under replaying one more edge of the graph; that a list of
   choices leads to one state only (`LeadsUnique`) is what makes replay exact.
3. `Diligent` (`DiligenceInvariance`): what was found is reachable; what was
   found and is neither queued nor being expanded has its successors found and
   all its leaves executed (`Done`), or was given up after a failure by a checker
   that restarts (`GivenUp`); the files hold earlier searches of which the same is
   true; and of the state being expanded the leaves not to come have been
   executed (without restarts, exactly those), which is the invariant of
   `EnumRandom` again.

At the end nothing is queued, so all that is reachable is executed. The refinement
follows step by step from the same invariant: a reboot is a `Lose`
because the file it reads is an earlier consistent search.

Of the abstract search itself `WorklistInvariance` shows, for every graph, finite or
infinite, and any number of reboots, that a state found and no longer to be expanded
has its successors found, unless it is flaky. `Lose` keeps it because it is what
a consistent earlier state satisfies. With the refinement this gives
`WorklistIsExhaustive` for the search of `ModelChecker`.

Traces need two more invariants. `Traced`: a checkpoint's parent links lead back to
the initial state by choices that exit normally (`Linked`, in memory and in files),
and what a trace file holds ends in the error it was stored for (`TraceGood`). Replay
regenerates a state of the same signature only, hence the hypotheses `Alike` and
`AlikeChecks`. `Repeatable` (`NoTraceLost`): a search is a sequence of steps that
depends on the harness alone, so whatever a reboot takes it back to lies on the one
run there is (`OnRun`). The error that gets number `k` the second time is therefore
the error that got it the first time, and the trace written over is the same trace.
That a trace may be missing after a crash (`PowerLossKeeps`) disturbs neither: both
speak of the traces there are.

What the theorems assume, all of it stated in `ModelChecker`, evaluated by TLC for the
harnesses of the runs, and needed:

- `NoPriority`: the priority queue queues known states again (section 7);
- `Faithful` (from regeneration on): restoring a checkpoint brings back its
  signature, and every transition makes a choice, since one without choices is not
  regenerated (section 7);
- `Alike` (from the refinement on): states of one signature behave alike, which is
  what a signature is for; `AlikeChecks` (`BugReplays` only) says so of what
  `after_new_transition()` finds;
- `StartsInInit` (`Complete`, `CompleteWithoutErrors`): the state before
  `init_state()`, of which the checkpoint is taken, is the initial one (section 7);
- `~Persistent` (`Complete`, `NoTransitionTwice`): a bug in persistent mode loses
  choices (`restart_loses_choices`), and a restored search executes again what
  came after its checkpoint;
- `MaxState = 0` (refinement only): at its limit on states the search drops what
  it is expanding, which the worklist does not do;
- `[]NoPanic` (refinement and what follows from it), and in `SearchDoesNotPanic` that
  no trace file is replayed: a trace whose last transition leads back to a state of
  its own path trips the replay's assertion that the state is new (section 7).

**CrashSimProofs** — for every set of sectors, contents and number of records:

- `CacheTracksKernel`: the versioned cache satisfies `Tracks` (and `TypeOK`:
  `TypesAreKept`),
  when no buffer is dirtied between being cleaned under its lock and unlocked
  (`DirtyInLock = FALSE`, which is needed: section 7);
- `OnlyPossibleCrashes` (`Sound`): with at most one `forget_old_crashes()`
  (two are too many: section 7), whatever the thresholds;
- `EveryCrashIsChecked` (`AllComplete`, and `NowComplete` as
  `PresentCrashesAreChecked`): when the number of sectors is finite and within
  the deterministic threshold.

The first rests on `IInv`: the parser's `locked` and `submitted` are the
kernel's, a delayed clear belongs to a clean locked buffer, and a sector that is
neither dirty nor in flight and still has contents to forget has a delayed
clear. `Sound` needs `SoundInv`: what the cache holds at any moment is in the
history of its epoch. Completeness needs `CompleteInv`: a crash that was
possible earlier and has not been checked is still possible now, because the
write set only grows between two checks, and every shrink is preceded by a
check of all of it.

**EkmLogProofs** — for any number of threads, records, traces, units in a record
and in a page: `CopyFits` (`Fits`), `RecordsAreWhole` (`Whole`),
`NothingTracedIsLost` (`NoneLost`). `copy_log_buffer` and `log_add_buf` loop
over pages and units; the model has them as recursive functions (`Copied`,
`Added`), and the lemmas show what they compute: appending units to pages appends
them to the data, whatever pages it opens, and the data's length is
`ekm_log_size`. The invariant says that the log's data is a sequence of whole
records. What was traced is its end until the trace is stopped, lies in one piece
in it until it is copied, and then in the copy: a hook that tested the device
before the trace was stopped may still append behind it, never in between.

**MonitorProofs** — for beats of any lengths that fit `cmd_buf` with their header
(`BeatsFit`), any window and any number of connections and deaths:
`QuitsForTheDone` (`QuitsOnlyWhenDone`), `LengthsAreInRange` (`AssertionHolds`),
`NoCheckerIsResetInVain` (`NoSpuriousReset`), from `MonitorInvariance`. The danger is
what outlives a connection: `cmd_buf` keeps the start of a beat over a reboot, and
is completed with the words of the next checker. The invariant says that
the buffer holds nothing or an incomplete beat (`Partial`), whose second
word is a length or a command of the new connection, never text (`Headed`), that
a beat with such a length still fits, and that words which ask for
something are in the stream only when they were sent (`Requests`). Without
`BeatsFit` two of the three are false (section 7).

**KernelChoiceProofs** — for any transitions, choice points, option values and
other kernel threads:

- `FailuresAreBounded` (`FewFailures`), from `Granted`: while the record is live
  (armed, with a count that is not negative) the failures so far and those it
  still grants are at most `extra_kernel_failures`; the one failure beyond them
  makes it dead.
- `FailuresAreInCalls` (`OnlyInCall`), when every transition is `Bracketed`: a
  call is over before crashes are checked, the next one is made or the
  transition is left. `Armed` adds that a live record implies the simulator's
  flag, and the flag implies that the execution is in a call; without brackets
  the flag stays set, which is what `reentrant` shows. TLC evaluates that the
  programs of `kernel_choice` are bracketed.
- `FailuresAreKnown` (`KnowsFailures`), under the same condition and, as the
  property says, without extra failures. `Telling` relates the record to the call:
  it still counts exactly as long as nothing has failed.
- `ReplaysReproduce` (`Reproduced`), for any number of extra failures. Without other
  threads an execution is a function of its choices: `After` is one step of it,
  `IsRun` a whole one, and every action of the model is a step of the run of its
  choices, whatever an earlier execution left in the kernel's record (`Steady`).
  `Recorded`: an execution in the log that skipped nothing is the run of the choices
  logged with it, so their replay is the same run.
- `SearchNeverPanics` (`NoPanic`), for any number of extra failures, in the search
  and in replays, with `ReplayRandom`'s assertion that a choice is below the ceiling
  now asked for (`CanDraw`). `Matching`: the ceilings the search has recorded are
  those that a run of its choices asks for, and the execution pursues these
  choices, or it has strayed: with extra failures `skip_rest` may take a call that
  failed for one that did not, and change a count that the execution has
  already used. From then on only choices with two values are recorded, and the
  recorded ones are those of the run of the changed list, so what is logged can be played back.
- `SearchTriesEveryFailure` (`EveryFailureTried`). The choices that runs ask for are
  a tree (`Chart`), and on a tree the generator's invariant of `RandomProofs` says
  what is still to come. `skip_rest` passes over counts after which a call fails
  nowhere: these lead to the execution that its last count leads to (`Settled`),
  so of each such group one leaf is to be executed (`Leaf`), and at the end all leaves
  have been (`Charted`). `Sound`: the failures of a run may all be chosen;
  `Reach`: every history with such failures is that of a leaf.

The last three assume that transitions are `Bracketed` and switch choices off and on in
turns (`Paired`), and the last one also that a transition is a tree (`Rooted`). Executions that skipped something are replayed
like others, and the record they leave is one more that `Steady` allows for; but
what happens in such a replay is excepted by `Reproduced` and `NoPanic`. All are evaluated by TLC for the programs of `kernel_choice`.

**StableFSProofs** — for any number of logs of any length, any number of files, directories and
writes, and any `MAX_SET`: `OracleAssertionsHold` (`AssertionsHold`), `NeverGivesUp`
(`NeverTooMany`), `CachedAnswersHold` (`CacheIsSound`) and `SyncedIsDurable`
(`SyncIsDurable`). The first two follow from `OracleInvariance`. `OInv` has three
parts. `Numbered`: ids are given out in order, and those of both file systems, of
entries and of an fsync under way have been. `Listed`: every call in the list still has
a delta, two deltas of one call differ in type and, unless it renames, in their
object, and what a pending delta adds is not stable; the last is why an fsync has to
take the deltas of its file out of the list, call by call (`FlushedKeeps`). `Tallied`:
the metadata deltas in the list are at most those the driver has counted. The oracle's
lists are recursive functions (`Deltas`, `Flushed`, `Applied`), of which the lemmas
show what one more element does to them.

The other two need `OracleOrder` as well. `Fresh`: a name occurs in one entry only, of
either file system or of a pending call; the driver never uses a name twice.
`InOrder`: the volatile file system is `Wired`, that is, its entries are in directories
and its reference counts are the numbers of entries. The argument for the cache:

- A new call appends deltas, so the old subsets keep their numbers, what they make of
  the stable file system, and their place before all new ones (`AppliedMore`,
  `TriedMore`); the numbers `skip_prefix` passes over after a new subset are new
  (`SkipsNoOther`). The first file system with the right metadata remains the first,
  and a difference in data that was explained is explained by more
  (`AcceptsMore`).
- A check also caches what it tried before the match. Metadata deltas change no data
  (`AppliedBased`), and by `Fresh` a path leads to the same object in all file systems
  tried (`OneObject`), so that two with equal metadata are equal (`TriedSame`) and each
  is accepted whichever comes first (`TriedAccepted`).
- `sync` and `fsync` empty the cache, and with the next log all that is in it becomes
  `inherited`, of which `CacheIsSound` says nothing. An inherited answer that a check of
  this log looks at by itself counts as this log's.

Durability: after a sync the only file system to compare with is the volatile one
(`SyncedTried`, by `Wired`), and without deltas `check_data` explains no difference
(`NoDifference`). After an fsync the path leads to the synced object, which has its
volatile data, and none of the deltas that are left is about it.

**Only model-checked**: liveness (`Terminates`, `Ends`, `Fetched`, `Watched`),
which is out of the prover's reach; and of `StableFS`, that check raises no false
alarm (`NoFalseAlarm`). Nothing known puts that one out of the prover's reach, but its
proof is not written: it is an existence statement, and needs for every crash state a
subset of the deltas, built delta by delta over the whole list, that `check` reaches
before it gives up and that gives the same tree. It can only hold where no truncate
shortens a file (`~Shrink`). The random batches'
completeness is not claimed at all. The provers cannot use the library's induction
theorems; where an argument needs induction over numbers or lists it goes
through sets instead: a least counterexample (`Induction` in `RandomProofs`,
`EkmLogProofs` and `StableFSProofs`), or a least closed set (`Leads` and `Reachable` in
`ModelCheckerProofs`).

## 6. What the models leave out

- Simulation mode (`UnixRandom`): a random walk without promises.
- `before_new_transition` and `after_transitions` return normally.
- Signatures are those of the harness; collisions happen only where a harness
  has them (`MCAliased`), not from hashing.
- Writes of the checkpoint file do not fail with an error; opens may, and the
  machine may crash.
- A buffer is one sector; `kernel_writes` is `unordered` (the default). Failed
  requests, and hooks that log before or after the bit they report has
  changed, are not in the kernel model yet: each hook is atomic with its bit.
- `Combination` and `Powerset` are given by the sets they generate.
- One traced device; memory and user pointers are valid: the returns for an invalid
  pointer (`ekm-common/ekm_log_buf.c:77`) and with EFAULT (`:139`) are left out.
- `Monitor`: lengths count words of four bytes, and a command is never cut inside
  a word; sends and receives do not fail otherwise than by the end of the
  connection.
- `StableFS`: calls succeed and come one at a time, as the driver makes them.
  Directories lie in the root. A word of data is zero or what the drivers write
  at its offset (`position_hash`). O_SYNC files, synchronous mounts, symbolic
  links, and fsync of directories are left out (section 7 says what happens), and so
  are the options `check_metadata_only` and `check_data_loss_only`, which are off unless
  asked for. The driver tests its count of deltas after a mutation; the model tests it
  before each call that makes some, which is the same where a mutation is one call.
- `KernelChoice`: one processor, so a hook runs without interruption; on several,
  `fail` and `choices_enabled` have no lock. `disk_choice_ioctl` is left
  out: it calls `xe_random` where `check_valid_choose` forbids it. What the search
  is to do (`EveryFailureTried`), and the agreement of replay, are stated for
  `extra_kernel_failures = 0` and no other threads, which the search does not
  control. Running one kernel thread at a time (`ekm_thread.c`) is left out.

## 7. Where the code departs from its documents

Three have a run whose property TLC finds violated; PROJECT.json quotes the lines.

| Run | Source | What happens |
|---|---|---|
| `restart_loses_choices` | `mcl/ModelChecker.C:144` | after a bug in persistent mode, the remaining choices of the state being expanded never run |
| `truncate_alarm` | `driver/StableFS.C:1469` | a file that a pending truncate made shorter is reported as corrupt: the second pass of `check_data` wants a write for every byte that is gone |
| `reentrant` | `driver/FsTestDriver.C:663` | `bi_sync` checks crashes between `pre_syscall` and `post_syscall`; `xe_skip` then leaves simulator and kernel armed, and the next injected failure panics |

Others were met while modelling and have no run of their own. The first nine show
when the constants or definitions named are changed:

- `mcl/ModelChecker.C:250`: a state reached without choice points is not
  regenerated, since an empty list of choices is taken for nothing to replay
  (`Regenerated`, with a harness that has a transition without choices);
- `crash/BufferCache.C:158`: the regular cache forgets pending contents that are
  overwritten, and misses their crashes (`AllComplete` with `Versioned = FALSE`,
  `WantsAll = TRUE`);
- `crash/Permuter.C:47`: of several `LAST_CHECK` records the first counts,
  against the comment at line 42 (`Sound` with `MaxForgets = 2`);
- `crash/LinuxLog.h:190`: a buffer dirtied after it was cleaned under its lock
  leaves the write set at the unlock (`NowComplete` with `DirtyInLock = TRUE`);
- `mcl/Monitor.C:65`: the length of a heart beat is sent before it is clamped, so
  a long state queue, which the beat prints, trips the monitor's assertion
  (`AssertionHolds` with a beat of `BufSize` or more); one that is shorter than
  `cmd_buf` only without its header makes `recv` return 0, and a healthy
  checker is rebooted (`NoSpuriousReset` with a beat of `BufSize - 1`);
- `mcl/helper.C:58`: `xe_random_skip_rest` under a `ReplayRandom` uses a null
  pointer, so a state behind a call in which nothing failed cannot be
  regenerated, against `mcl/README:153` (`NoPanic` without the
  condition on `skipped`). With `extra_kernel_failures` above 0 such a replay may fail
  otherwise first: `skip_rest` has put the largest count into the recorded choices, and
  a play-back of these need not be the execution that recorded them;
- `driver/StableFS.C:60`: `clear()` keeps `_valid_fs_sigs`, against
  `driver/StableFS.h:263-267`, so until its first sync a log is checked with the answers
  of the log before. A crash that left a file which this execution has not created is
  then accepted (`CacheIsSound` over `valid` instead of `valid \ inherited`: create,
  check, next log; five states);
- `mcl/ModelChecker.C:603`: the trace is written without an fsync, while the checkpoint
  that already counts the error is synced and renamed before the `sync()` at line 146. A
  machine that stops in between resumes behind the error and may have lost its trace
  (`NoTraceLost` without the condition on `Unsynced`);
- `driver/StableFS.h:153`: "unlink has only removes the directory entry, but
  doesn't actually remove things", but `unlink_obj` deletes the object with its
  last reference, so a file renamed and then linked is rejected when a crash
  left only the link (`Trees` in `Images` without the condition on `lost`).

The rest is outside of what the modules can express:

- `ekm-common/ekm_log_buf.c:148`: the page count is decremented without the log
  lock, against the comment at line 166, and loses updates;
- `mcl/Monitor.C:210`: a `prog_done` that arrives behind a beat in one `recv` is
  dropped, and the finished checker is rebooted (`Watched` allows it);
- `crash/CrashSim.C:213`: with `extra_kernel_failures` above 0 the record's count
  stays at 0 after a failure, is taken for "nothing failed", and the remaining
  counts are skipped;
- `ekm-linux-2.6/ekm_choice.h:60`: the count is said to be decremented whatever
  the choice point; the code counts only those that match;
- `driver/StableFS.C:298`: `exit_open` looks a new file up after `enter_open` has
  made it, so what it does for a file created with O_SYNC is dead code, and a
  later O_SYNC write fails an assertion;
- `driver/StableFS.C:841`: an fsync of a directory makes its object stable, with
  entries for files that are not;
- `driver/AbstFS.C:452`: renaming onto an existing name trips "entry already
  exists"; the driver renames such files onto themselves;
- `driver/AbstFS.C:375`: `delete_obj` erases entries of the map it iterates over;
- `mcl/ModelChecker.C:694`: the trace of an error in a transition without choice
  points is empty, and is not replayed;
- `mcl/ModelChecker.C:275`: with the priority queue a state that has been seen is
  queued again, against `mcl/README:134`; a cycle is then searched for ever;
- `mcl/ModelChecker.C:228`: signature and checkpoint of the initial state are
  taken before `init_state()`, so a harness that is not initialised when it is
  constructed (`testsuite/xywalk.C`) has its initial state explored twice;
- `mcl/ModelChecker.C:470`: replaying an error that `after_new_transition`
  reported on an edge back to a state of its path trips an assertion;
- `ekm-linux-2.6/ekm_log.c:179`: a user record and the record after it get the
  same sequence number, against `crash/Log.h:46`.

The passing runs stay clear of these cases on purpose: their harnesses have a
choice in every transition, are initialised when constructed, use the other two
queues, and report hook errors only where no path comes back;
`persistent` claims coverage only without errors; `CrashSim`'s passing
runs have `DirtyInLock = FALSE` and at most one `forget_old_crashes()`; beats fit
the monitor's buffer; `oracle` does not cut files (`Shrink = FALSE`), and its
`Images` leave out a file that is named again after its last applied name has gone;
`CacheIsSound`, `NoTraceLost`, `Reproduced` and `NoPanic` state their exceptions; and the
programs of `kernel_choice` check crashes outside calls.

## 8. Not modelled

Storage stacks, checks and RPC run commands or forward calls and keep no state
of their own. Options, output and archives are parsing and serialisation. The
BSD kernel modules and the MTD driver are ports of modules listed above. The
recovery cache (`crash/Fsck.C`) is dead code: nothing calls `Fsck::run`. The
kernel patches are in the environment of `CrashSim` and `KernelChoice`;
`src/explode-0.1pre` is an older copy of the repository, and most of the
repository by size is the kernel sources it patches.

## 9. Plan

Done: Random, EnumRandom, Worklist, KernelChoice, CrashSim, ModelChecker with its
refinement, EkmLog, Monitor and StableFS, all with proofs; LinuxLog, BufferCache
and AbstFS below them. Next, in this order:

1. Proofs: `NoFalseAlarm` of `StableFS`.
2. **Kernel**: failed requests, and hooks that are not atomic with their bits,
   in `CrashSim`.
3. **Combination and Powerset** as step machines that refine `Batches`, with
   their assertions and the width of their totals.
4. **Recovery permuter**: crash, recover, crash again; `SyscallPermuter`.
5. **RDD**: requests against whole-disk ioctls; one kernel thread at a time.
