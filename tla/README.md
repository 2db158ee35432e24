# Formal model of Unpopped's kernel interpreter

Unpopped emits kernels from a neutral description and judges them by an
*oracle*: a plain-Rust interpreter that runs a kernel thread by thread and
either finishes or names what is wrong with the kernel (a data race, a barrier
some threads never reach, a runaway). Emitters are compared with it, so what it
accepts is what the project calls correct. This directory states and checks
what the oracle promises, what the checkers in front of it promise, what the
lifts that build kernels for it promise, and what the optimizer may do to an
expression: TLA+ models translated from the source, TLC runs on small
instances, and TLAPS proofs for launches of every size.

In short:

* **Proved**, for any number of blocks, threads, elements, accesses, fences,
  barriers and copies: the race detector implements an abstract happens-before
  specification, so no launch it lets through has a race; and this carries over
  to whole launches as the driver runs them and to kernels with asynchronous
  copies. The driver
  reports a barrier mismatch exactly when there is one (but for launches that
  mix two kinds of grid barrier), the barrier counts the detector reads are what
  each thread has passed, and the step limit is exact; so a launch that
  finishes has no race and met at every rendezvous. A wait lands exactly the
  copies it must, and what is in flight was ordered when it was issued. No jump
  or return of the explicit stack disturbs a caller. Nobody can tell when an
  asynchronous copy lands if nobody touches what it covers. The lifted kernels
  race nowhere, load nothing that was not stored and store what the serial ones
  do, sums in the documented order. Every rule, fold and rebuild of the
  optimizer's e-graph leaves what each class computes, bit for bit.
* **Model-checked**: every launch ends; the resumable evaluator agrees with the
  recursive one statement by statement; an accepted kernel reads no unset local
  and meets at its barriers but for three named patterns; optimizing an expression
  preserves every bit, whatever the order of a hash map and wherever the passes
  are cut off; the serial C of a launched kernel runs it in one of the orders it
  may run in, if its counters are narrower than a `long long`, and its collectives
  give what the interpreter's do, for numbers a `long long` holds.
* **Seven places where the code does not do what its documents say**
  ("Disagreements" below). None makes the race rule unsound.

## 1. Inventory

| component (source) | state it keeps | operations | hard part | what makes it correct | here |
|---|---|---|---|---|---|
| access log (`oracle/kernel_mem.rs`) | per element: last writer, one atomic and one reader stamp per thread | `stamp`, `touch` | it forgets accesses; it compares counts of different groups | it admits an access only if every conflicting earlier one happens before it | `RaceDetector` |
| release/acquire edges (`oracle/kernel_sync.rs`) | a clock per thread, records per element, held records, the last release fence | `atomic`, `fence`, `knows` | clocks and records are summaries that replace one another; scopes | a clock never claims more than happens-before gives | `RaceDetector` |
| launch driver (`oracle/kernel_launch.rs`) | per thread: where it waits; per block: where it stopped; barrier counts | run a phase, release groups, release the grid or clusters, trap | rendezvous of five kinds, divergence, clusters that end early, the step limit | finishes iff the threads really met; ends always; counts match | `LaunchDriver`, `Launch` |
| asynchronous copies (`oracle/kernel_async.rs`) | a queue of open and committed copies per thread | issue, commit, wait | a copy is logged at issue and stored later | nobody can tell when it landed | `AsyncCopies` |
| resumable evaluator (`oracle/kernel_resume.rs`, `kernel_call.rs`) | a stack of frames | step, stop at a rendezvous, go on | stopping inside loops and calls; jumps unwinding the stack | agrees with the recursive evaluator | `ControlStack` |
| recursive evaluator (`oracle/kernel_eval.rs`) | locals, steps | statements, expressions | loop counters at the edge of their type | the reference for the other | `Evaluator` (control flow) |
| kernel and module checkers (`kernel_check.rs`, `kernel_module.rs`, `kernel_extern.rs`) | scopes while walking | one pass over a tree | scopes of locals, the call graph, references | an accepted kernel reads no unset local | `KernelCheck` (scopes, jumps, calls) |
| uniformity checker (`kernel_uniform.rs`) | which locals may differ between threads | a taint fixed point | break, continue, return, calls | accepts no divergent barrier | `Uniformity` |
| lifts to launched kernels (`kernel_lift/`) | none | build a kernel | barrier schedules, partial chunks, threads with nothing to fold | the built kernel has no race and computes the serial result | `Lifts` (reduction, scan, row reduction) |
| e-graph optimizer (`optimize.rs`) | union-find, classes, hashcons | intern, rewrite, rebuild, extract | rules on a snapshot while classes merge; folding on the host | the device's bits are preserved | `EGraph`, `Optimizer`, `Floats` |
| collectives, MMAs (`kernel_collective.rs`, `kernel_mma.rs`) | none | results of all lanes | out-of-range lanes, identities | equal to the definition | `Collectives` (no MMAs) |
| serial C emitter (`unpopped-cpu-c`) | none; of the C: the block, the construct, the thread it is at | spell a launched kernel | splits a kernel at barriers, reads conditions at thread 0, turns the block loops inside out | the C runs the kernel in an order the kernel allows | `SerialC`, `ParallelLaunch` |
| IR, plan, shapes, layouts, vocabulary, contracts, JIT, telemetry | none across calls | pure rewriting, tables, text | size | (values) | not modelled |

How they interact. A kernel is built by a lift or by hand, checked
(`check_module`: well-formedness, then the uniformity rule), and run.
`launch_checked` owns the global access log, the `Edges` and the blocks. It
advances the blocks in order; `advance` runs each runnable thread of a block
until it stops (`run_phase`), stepping the thread's frame stack, and every
memory statement goes through `ThreadCtx::stamp` (which reads the barrier
counts the driver keeps), `touch` (which asks `Edges::knows`) and, for an
atomic, `Edges::atomic`; a copy goes through the thread's `AsyncQueue` first.
When no thread of a block is runnable, `release` lets go the groups that met
and counts their barriers; when every block has stopped, `grid_release` does so
across blocks. All of it is one loop in one host thread: the concurrency is
that of the *kernel's* threads, which the log and the clocks must judge as if
they ran in parallel. The optimizer works on the expressions inside a kernel
before it is emitted and shares no state with the rest. The serial C emitter
takes the checked kernel and spells it without threads; tests compare its C
with the interpreter byte for byte.

The hazards of this code, line by line, are in `PROJECT.json`.

## 2. Modules

```
Scopes            the hierarchy of a launch, scopes, memory orders
 |- HappensBefore   abstract: what the race rule promises
 |- RaceDetector    kernel_mem.rs + kernel_sync.rs: log, clocks, records, counts
 |    '- RaceSoundness         the detector beside the history; the properties
 |         |- RaceSoundnessProofs   theorems
 |         |    '- RacePrecisionProofs  theorems
 |         |- Launch                detector + driver, sharing the counts
 |         |    '- LaunchProofs         theorems
 |         '- AsyncCopies           detector + queues of copies
 |              '- AsyncCopiesProofs    theorems
 '- LaunchDriver    kernel_launch.rs: phases, rendezvous, traps
      '- LaunchDriverProofs    theorems

Kernels           statement trees, expressions, functions, wrapping
 |- Frames          kernel_resume.rs: the frames of a stack
 |    |- ControlStack     kernel_resume.rs + kernel_call.rs: the steps of a stack
 |    |    '- ControlStackProofs   theorem
 |    |- ParallelLaunch   abstract: what a launched kernel means
 |    '- SerialC          unpopped-cpu-c: launch.rs, kernel.rs (with Uniformity)
 |- Evaluator       kernel_eval.rs: the same by recursion
 '- KernelCheck     kernel_check.rs, kernel_module.rs, kernel_extern.rs
      '- Uniformity     kernel_uniform.rs
KernelRuns = ControlStack + Evaluator + Uniformity

Collectives       oracle/kernel_collective.rs beside unpopped-cpu-c/collective.rs
Lifts             kernel_lift/: reduction, scan, row reduction
 '- LiftsProofs     theorems
Floats
 '- EGraph          optimize.rs: union-find, classes, hashcons, rules
      |- EGraphProofs    theorems
      '- Optimizer       optimize.rs: interning, passes, extraction
MC*: the small instances TLC runs
```

**`Scopes`** names a thread by block and linear index. The three axes of a
launch are linearised by the code before any of this looks at them.

**`HappensBefore`** is the specification. It has no clocks and no counts: it
keeps every access and, for each thread, the *set* of events that happen before
its next one. Program order adds the thread's own accesses; a barrier gives each
member what any member had; an acquire gives what a release in scope published,
through release sequences and fences as the memory-model document rules. An
access may happen only if all conflicting earlier ones are in that set.

**`RaceDetector`** has one variable per field of `Edges`, `BlockMem` and `Log`
and one action per statement: `Admit`/`Refuse` (stamp, touch, `Edges::atomic`),
`FenceBy`, and the counting of a barrier of each scope. A clock is a function
with 0 for an absent thread. `Races` is the four refusals of `touch`,
`AtomicEdges` the whole of `Edges::atomic`. Values are not there: the detector
never reads them. Shared and global elements follow one rule, so both are
`Keys`.

**`RaceSoundness`** takes each detector step together with its effect on the
history of `HappensBefore`. The history guards nothing: that an admitted access
was ordered is what has to be shown.

**`LaunchDriver`** gives every thread a script: its statements once control
flow has been followed. Scripts may differ between threads arbitrarily, because
the interpreter does not rely on the uniformity checker. `Running` is the one
thread `advance` would run now; `Step`, `Arrive`, `Finish`, `RunAway` and
`StatementTraps` are the ways `run_phase` can go on; `StopBlock`, `Release`,
`DeliveryTraps` (a collective whose lanes have no result) and `Mismatch` end a
phase; `GridFinished`, `ReleaseGrid`, `ReleaseClusters` and
`GridMismatch` are `grid_release` with what `launch_checked` does on its answer.
`Spin` is a loop whose condition never becomes false.

**`Launch`** is the conjunction: the driver chooses the statement, the detector
judges it, and they share `acquired` and the four barrier counts.

**`AsyncCopies`** puts `AsyncQueue` on top of the detector. A statement may
make several accesses (an issue reads its source and logs its destination, a
wait stores every element that lands), and the host runs it without a break: it
puts them on an `agenda` that is worked off, access by access, before anything
else happens. `late` is memory as the interpreter has it, where a copy is
stored at the wait; `early` is memory as the C emitter has it, where it is
stored at the issue. A value is named by the moment it was stored, so two reads
differ whenever they could.

**`Kernels`** has the statements and expressions the control flow depends on;
of the expressions the leaves, a sum and a comparison are kept, with the width
of an integer (`lo .. hi`, wrapping), because a `For` must not wrap. A local
that is not set has no value.

**`ControlStack`** has one action per kind of statement or frame that
`Machine::step` handles: entering and leaving a block, a branch, the two loops
with their counters, a call, an extern call with its reference, each jump (which
unwinds frames), a rendezvous (which stops the thread with its stack left just
past it) and being let go on. **`Evaluator`** is `kernel_eval.rs`: the same
kernel by recursion, returning a flow. **`KernelCheck`** and **`Uniformity`**
are the two checkers as operators. **`KernelRuns`** runs a module on the stack
and asks, of each state, what the others say of that module.

**`ParallelLaunch`** is what a launched kernel means: each thread has its stack
and takes its steps in any order; nobody passes a rendezvous before its group is
there. **`SerialC`** is the C that `unpopped-cpu-c` spells. `Admitted` is what it
takes on (`admit_launch`, and the refusals while emitting); its state is where
that C is: the block, the constructs holding a barrier that it is inside of
(`outer`) and, in a loop over the threads, the statements of that loop, the
thread and its place. `OpenRun` and `NextThread` are a thread loop, `BlockIf`,
`BlockFor` and `BlockTurn` a construct around thread loops, whose condition and
bounds are read at thread 0, `NextBlock` and `NextPhase` the loops over the
blocks. There is always one next step. The refinement mapping (`StackOf`) gives
every thread the stack it would have: threads the loop has been at are behind
its statements, the others before them.

**`Collectives`** has the two definitions of what a collective gives each lane
side by side: the interpreter's on integers without bounds, the C's with the
widths, casts, remainders and shifts of C.

**`Lifts`** runs the kernel a lift builds, as a program of steps separated by
barriers. A value is the sequence of elements folded into it in the order of
the additions, so that a missed, doubled, misplaced or foreign element shows;
between two barriers the Shared accesses are remembered, which is what a race
is about.

**`Floats`** is a floating-point format small enough to enumerate: signed
zeros, infinities, NaNs with a sign, rounding to nearest even, overflow and
underflow, at two precisions (the device's and the host's). **`EGraph`** is the
union-find, the classes, the hashcons and the rules for one node; **`Optimizer`**
the interning of an expression, the passes and the extraction. Where the code iterates over a `HashMap` the model takes
every order.

Operators that a comment calls "Mutant" are the code with a plausible mistake;
no specification uses them. Each property is shown to fail when the definition
it guards is replaced by one of them.

## 3. What each run checks

| run | instance | properties | distinct states |
|---|---|---|---|
| `detector_barriers` | 2 blocks x 2 threads, each block one subgroup and one cluster; one element; barriers of every scope | `TypeOK`, `RaceFree`, `Precise` | 207 k |
| `detector_edges` | 3 threads in 3 blocks; data and a flag that is also stored; 5 events | `SoundInv`, `RaceFree`, `Precise` | 544 k |
| `driver_all` | 4 blocks of a full and a partial subgroup, in 2 clusters; every script of up to 2 rendezvous, loops without end, limit 2 | `DriverTypeOK`, `FinishedIsAligned`, `MismatchIsReal`, `EpochsCountPasses`, `LimitIsExact`, `Ends` | 158 k |
| `launch_all` | 2 x 2 threads; phases around each rendezvous, messages between blocks, threads that do not meet | `FinishedIsCorrect` | 185 k |
| `kernels` | every small module of a family, run by three threads | `LocalsAreSet`, `StackAgrees`, `AcceptedMeetsOtherwise`, `CallersKept`, `ThreadEnds` | 430 k |
| `async` | 2 threads of a block, one Shared and one global element; 4 accesses, 1 barrier | `FlightOrdered`, `WaitsCover`, `UntouchedCannotTell` | 1.56 M |
| `lifts` | reduction, scan and row reduction, Sum and Max, blocks of 1, 2, 4 over up to 6 elements, 2 rows | `NoRace`, `NeverUnset`, `OutputsRight`, `DocumentedOrder`, `RowsComplete` | 27 k |
| `optimizer` | every expression of a family, chains of up to 4, every order of the maps | `BitsPreserved` | 2.9 M |
| `serial_c` | 879 kernels that the checkers and the emitter take, 2 blocks x 2 threads | `IsOneOrder`, `LoopsEnd` | 84 k |
| `collectives` | a block of 4 in groups of 1 to 4; ints of 3 bits, long longs of 4; every contribution from the edges of a type, floats with NaNs and zeros | `AsInterpreted` | 1.52 M |
| `launch_relay` | as `launch_all` | `RefusedIsRacy` (expected violation, section 5) | |
| `serial_wide` | as `serial_c`, with unsigned locals as wide as a long long | `AgreesWithInterpreter` (expected violation, section 5) | |

*What the properties say.*

- `RaceFree`: an access is let through only if every conflicting earlier one
  happens before it. `SoundInv` is what makes it inductive (section 4).
- `Precise`: a refusal is justified: the access conflicts with one it is not
  ordered after, or is an atomic out of another's scope. It does not hold of every
  kernel; where it does and is proved, and where it fails, is in sections 4 and 5.
- `FinishedIsAligned`, `MismatchIsReal`: `BarrierMismatch` is complete and
  precise with respect to the scripts alone: all threads of each scope pass the
  same rendezvous in the same order. A kernel that uses `Cluster` and `Device`
  barriers both is excepted from the second: `grid_release` refuses as soon as
  one block waits at a `Device` barrier and another does not, although the
  clusters might have got there later.
- `EpochsCountPasses`: for every thread, at every moment, the counts its next
  stamp would read are the barriers of each scope that thread has itself
  passed. This is what entitles the detector to read order from counts.
- `LimitIsExact`, `Ends`: only a launch with a thread too long for the limit
  runs away, over all its phases; and every launch ends.
- `FinishedIsCorrect`: both halves together, the driver deciding when the
  detector is asked and when its counts go up.
- `FlightOrdered`: while a copy is in flight, whatever another thread has done
  to its destination is ordered with the issue. `WaitsCover`: what has not
  landed is what no wait was due for, counting empty groups.
  `UntouchedCannotTell`: unless a thread touches what another's copy is in
  flight to, a launch reads and leaves what it would if copies landed at issue.
- `StackAgrees`: the explicit stack and the recursive evaluator make the same
  effects in the same order, with the same number of statements, the same
  locals and the same trap, although the stack stops and goes on in between.
  `CallersKept`: no jump and no return disturbs a caller's frames.
  `LocalsAreSet`: what `local_val` relies on. `AcceptedMeetsOtherwise`: two
  threads of a launch of an accepted kernel come to the same rendezvous, but for
  the three patterns of section 5. `ThreadEnds`: a thread ends, with the limit.
- `NoRace`, `NeverUnset`: a lifted kernel passes the race rule and loads no
  unset Shared element, between any two barriers. `OutputsRight`: each output
  is the fold of just the serial kernel's elements. `DocumentedOrder`: the order
  of a float sum is the documented one. `RowsComplete`: every row is stored.
- `BitsPreserved`: what `optimize` returns has the bits of its argument for
  every device value, and so has any form that could be extracted after any pass:
  the cap of 32 passes may decide which form is returned (section 5), not its bits.
- `IsOneOrder`: the C refines `ParallelLaunch`. Every step of it is a step one
  thread may take, or several threads together where nobody else can see it, or
  a meeting of all threads concerned, and it ends with the same outcome. So a
  result the C gives is one the kernel may give. `LoopsEnd`: where a long long is
  wider than the locals (`SumsFit`), C without a `while` ends, although its
  counters count past the type of the local. Where it is not, a counter may
  overflow, and the C need not end (section 5, 6).
- `AsInterpreted`: every lane of every group, the last partial one included,
  is given what the interpreter gives it.

*Bounds.* `MaxSeq` bounds accesses and fences (a `u64` in the code),
`MaxBarriers` barriers, `MaxCommits` commits, `StepBound` and `Limit` the
statements of a thread (the code's own `limit`). Three threads are the fewest
for a chain through a third; five events the fewest for write, release,
acquire-and-release, acquire, read. In `detector_barriers` a block is one
two-lane subgroup and one cluster, so every scope but the grid orders the pair
within a block and no pair across blocks; `launch_all` has one-lane subgroups,
where a subgroup barrier orders nobody; `driver_all` has a two-lane subgroup cut
short by the end of its block, and two-block clusters. The theorems make the
bounds of the detector and of the driver immaterial, and those of the lifts for
`NoRace` and `NeverUnset`; scripts of up to two or three statements are
enough for one group to meet while another waits, finishes, or meets
elsewhere, and again afterwards. In `async`, four accesses and two commits are
enough for an issue, its landing, an access between and a read; an issue makes
two. In `kernels` an integer is -4 .. 3, so that a loop's counter meets both
ends, and a module combines any compound statement with any body of one or two
statements, a condition of each kind (on data, the thread, the block), and every
callee; the limit of 14 statements lets a loop go round twice inside another. In
`lifts` a row is shorter than, as long as and longer than the block, and chunks
do and do not divide it; the second row is what finds a missing trailing
barrier. In `optimizer` the device has four finite magnitudes besides zeros,
infinities and NaNs, and the host twice the precision; that is the smallest
format in which rounding twice differs from rounding once. In `serial_c` a
kernel puts a statement, a meeting and another statement inside a loop or a
branch, between statements of its own, or cuts its body twice at barriers of any
scope; atomics, whose old values are kept, make the order of the threads
visible, and loops start, end and step at both ends of the type. A long long is
twice as wide as a local there. In `collectives` four lanes in groups of three
leave a last group of one.

*Deadlock* is not checked: a launch that finished or trapped, a thread that
ended, an expression that was extracted, or a run that met a bound, stops.

*Fairness.* Only the liveness properties need any. `Ends` assumes
`WF_driverVars(DriverNext)`, `ThreadEnds` the same of the stack and
`RowsComplete` of the lifted kernel, `LoopsEnd` of the C: the C is one serial
program, and the interpreter is one host loop that
nothing blocks or preempts for ever. None gives fairness to one kernel thread
over another: in the driver which thread runs is determined, and in `Lifts` a
phase ends because its steps run out. That a spinning launch ends is due to the
step limit, not to fairness.

## 4. What is proved

| module | theorem | statement |
|---|---|---|
| `RaceSoundnessProofs` | `TypeCorrect` | `Spec => []TypeOK` |
| | `SoundInvariant` | `Spec => []SoundInv` |
| | `RaceFreedom` | `Spec => []RaceFree` |
| | `Refinement` | `Spec => Sound` (that is, `HappensBefore!HBSpec`) |
| `RacePrecisionProofs` | `BarriersArePrecise` | `NothingAcquires` implies `Spec => []Precise` |
| | `EdgesArePrecise` | `EdgesAlone` implies `Spec => []Precise` |
| `LaunchDriverProofs` | `DriverTypeCorrect` | `DriverSpec => []DriverTypeOK` |
| | `EpochsExact` | `DriverSpec => []EpochsCountPasses` |
| | `LimitExact` | `DriverSpec => []LimitIsExact` |
| | `FinishedAligned` | `DriverSpec => []FinishedIsAligned` |
| | `MismatchReal` | `DriverSpec => []MismatchIsReal` |
| `LaunchProofs` | `LaunchRaceFreedom` | `LaunchSpec => []RaceFree` |
| | `LaunchFinishesCorrectly` | `LaunchSpec => []FinishedIsCorrect` |
| `AsyncCopiesProofs` | `AsyncRaceFreedom` | `AsyncSpec => []RaceFree` |
| | `WaitsCoverCopies` | `AsyncSpec => []WaitsCover` |
| | `CopiesAreOrdered` | `AsyncSpec => []FlightOrdered` |
| | `CopiesCannotBeTold` | `AsyncSpec => []UntouchedCannotTell` |
| `ControlStackProofs` | `CallersAreKept` | `ModulesAreNested` implies `StackSpec => CallersKept` |
| `LiftsProofs` | `LiftsHaveNoRace` | `LiftSpec => []NoRace` |
| | `LiftsLoadWhatIsStored` | `LiftSpec => []NeverUnset` |
| | `LiftsAreSerial` | `LiftSpec => []OutputsRight` |
| | `ReductionsAreReproducible` | `LiftSpec => []DocumentedOrder` |
| `EGraphProofs` | `InterningKeepsBits` | interning a node gives a class that computes what it does |
| | `RewritesKeepBits` | after `Rewritten`, each class computes what it did |
| | `RebuildingKeepsBits` | the same for every graph of `Rebuilt` |

*Assumptions.* `LaunchAssumption` (sizes are positive and the grid is a multiple
of the cluster), `SitesAssumption` (sites are well typed), `StepAssumption` (the
limit is positive), `ScriptsAssumption` (a script is a sequence for each thread,
an address is that of one statement, collectives and MMAs are of a subgroup or a
block), `DriverAssumption` (both of these, in the composition),
`SitesOfScripts` (the accesses of scripts are sites of the detector),
`CopiesAssumption` (a copy goes from global to Shared, element by element, and
names no destination twice: the code copies to `at .. at + n`),
`JobsAssumption` (a lift is one of the three, and its block is a power of two
that a `u32` holds, as `block_reduce.rs` requires), and `FloatAssumption` (the
device's format has a largest float, of at least one). TLC evaluates each on the
instances above. `ModulesAreNested` is a hypothesis of one theorem and no
assumption: the blocks of a module can be split into those outside of loops and
those inside, every `Break` and `Continue` is inside, and functions that are
called exist. That is what the checker's `in_loop` and its look-ups of callees
establish, and the run `kernels` evaluates it (`CheckedJumpsStayInside`) for
every module the checker takes there.

*The detector.* `RaceFree` is not inductive: `touch` looks at clocks, counts
and a pruned log, none of which mention the accesses it has forgotten.
`SoundInv` says what each of them stands for.

1. *Clocks* (`KnowledgeSound`): every access up to the number a thread's clock
   has for another is in its past. `ClocksBounded` keeps them from running
   ahead, so a new access is never claimed known by accident.
2. *Records* (`RecordsSound`): a record is **live** (something the
   specification still publishes covers it, and the releaser's latest atomic in
   the log is past it) or **stale**. Staleness is the delicate part: the code
   never drops records when an element is stored, while the specification ends
   the release sequence there. But the store was let through, so its thread had
   everything the record could bring (`LiveIsKnown`), and whoever can touch the
   element later has it from that store. A stale record therefore brings nothing
   that is not there already.
3. *Held records* (`PendingSound`), *fences* (`FencesSound`): the same for what
   an acquire fence may take in and what a release fence keeps.
4. *The log* (`LogComplete`): every access is in the log or in the past of one
   that is and that conflicts with whatever it conflicts with.
5. *Counts* (`EpochsSound`): where a count has grown since a stamp, the stamped
   access is in the past of every member of that group.
6. *The history* (`PastClosed`, `PublicationsClosed`, `HistoryBounded`): pasts
   are transitively closed, which is what lets one stamp stand for many.

There is one lemma per action and part it can disturb.

*That it refuses no more.* `Precise` asks the converse of `SoundInv`: whatever is
in a thread's past, a stamp on it is one the thread is found ordered after
(`OrderNoticed`). The code does not promise that of every kernel, so there are
two theorems, each with a hypothesis on the statements of the kernel that leaves
the shape, the schedule and the length of the launch free.

- `NothingAcquires`: no atomic and no fence acquires. Barriers of all four scopes
  and atomics of any scope are let in. Only barriers order then, and a count is
  compared with the stamp's, not with anybody's knowledge. A chain of barriers, of
  a subgroup, then its block, then the grid, could be lost that way, but scopes
  are nested: of two barriers with a thread in common, the group of one contains
  that of the other, so the widest of a chain has both ends in its group, and its
  count shows it (`PassedSince`, `EpochsComplete`).
- `EdgesAlone`: no barriers, all atomics on an element of one scope, no release
  fence; and where there are acquire fences, these of one scope and all atomics on
  one element. The invariant (`EdgesComplete`) is that a clock reaches everything
  in its thread's past, every publication is kept as a record with a clock that
  reaches what it publishes, although a later one of the same thread replaced it,
  and what a thread has read is held for its fences unless it is known already or
  out of their scope.

Each condition of `EdgesAlone` is needed: section 5 has a kernel for each where,
without it, an ordered access is refused (or, for release fences, the record is
lost). TLC evaluates that the two detector runs are of these classes
(`PrecisionExpected`).

*The driver.* `DriverInv` adds to the type invariant that a thread is within its
script, that a waiting one is just past the rendezvous it waits at (so what it
waits for is a statement of its script, and two that wait alike wait at the same
statement), that a finished one is at its end, and that a block which stopped
has all its threads at one place. `StepsCount` says that every statement behind
a thread has been counted, and no other unless the thread is in a loop without
end; `OutcomeIsReal` what each outcome has to show for itself. For the barrier
counts the steps that matter are the releases: a ready group's members all wait
at one statement (`ReadyMember`); within a block that is a subgroup's or the
whole block's (`ReleasedScopes`, or the block would have stopped at a barrier of
the grid); so a group's count goes up exactly when each of its threads goes past
its barrier (`SubgroupCounted`, `BlockCounted`, `ResumeCounts`), and a
collective, which is no barrier, moves neither side. How many barriers lie
before a place is an interval cut down by a condition, so passing a statement
adds one or none (`OneMoreStatement`).

*Where the threads meet.* Both directions of `BarrierMismatch` come from one
invariant (`Together`): any two threads of a scope have met at a rendezvous of
that scope equally often and at the same statements in the same order, wherever
each of them is now. A release keeps it, because the members of a ready group
all wait at one statement, and nobody else goes on. At the end of every script
`Together` is `Aligned`; at a mismatch, two threads of a scope that have met
equally often are about to meet at different statements, or one of them never
will again. What a thread has met at is a set of numbered statements, not a
filtered sequence: passing one statement more adds one element or none
(`MeetsOneMore`).

*Copies.* `WaitsCover` needs `QueueInStep`: the groups on a thread's queue and
those a wait was due for are together all it has committed, and each is where
its number says, empty ones included. `FlightOrdered` needs `IssuesLogged`: the
writes of a copy that has been issued are in the history, with nothing behind
them but what was known at the issue, or the agenda still has them, with nothing
between; and `PastsClosed`, that the past of every access holds the pasts of
what is in it. `UntouchedCannotTell` compares two memories, one where a copy
lands at its wait and one where it lands at its issue. No induction over the
queue is needed, because the invariant (`UntoldInv`) says nothing of order: as
long as no thread has touched what another's copy covers, every copy in flight is
in the early memory already (`Early`), and an element that no flight covers is
the same in both (`MemoriesAgree`). An issue writes its values early, and they
stay there because nobody else may write them; a landing copies to the late
memory what the early one has; a thread that has ended has nothing in flight. So
a read, which is of an uncovered element, finds the same in both.

*The stack.* `CallersKept` says of a step that it leaves the frames of all
callers and the heights they are at as they were, but for a call, which adds
one, and a return from it. Only an unwinding could do otherwise: a `Break` that
found no loop in its own function would take a caller along. The invariant
(`Nests`) is that a block from inside a loop lies on the frame of a loop, with no
caller's between. A frame's place depends on the frames below it only, so pushing,
advancing the top and cutting the stack keep it.

*The lifts.* First the kernels: every one is `Shaped`, for every power of two. A
round, a partner's read, a combine and a share stand alone between two barriers,
an offset beside a write only, a take just after the barrier that follows its
share (`RoundsAre`, `TotalsScanIs`, `PartPlaced`, over positions and powers of
two). Then the threads: the barriers a thread has behind it (`Behind`, each with
the row it was passed in) are the same ones for all threads at every moment, and
each access on record was made by a statement that has them behind it too. So
two accesses of one slot come from the same statement, or from two that do not
conflict (`NoConflict`); that a reduction has no barrier at the end of a row,
and one row's last phase is the next one's first, is no case of its own. And a
thread that reads a total has the row's first barrier behind it, so every
thread has, and has published.

*What the lifts store.* That needs the values. A value is a sequence of elements,
and `Holds` says that one has just the elements of a given set, each once;
`RightInv` says it of every thread at every place in the program, for a set that
depends on the place only. After the round with stride `w`, thread `t < w` has
the elements whose index is `t` modulo `w` (`Class`): a round adds those that are
`t + w` modulo `2w`, which are no others and all that were missing. In a scan,
after the step with distance `w`, thread `t` has its own chunk and those of the
`2w - 1` threads before it (`Bound` to `Bound`), so in the end the thread before
it has all of its offset. What is in the Shared arrays is said the same way, and holds at the
readers because the phases do not conflict: a partner's total is the one of the
place the partner is at. A stage's result stands from its `Share` to the one of
the next row. A value of `Max` is of the same elements, but one from a thread
that folded nothing is not carried over. `AtLevel` counts the rounds, and
each action has one lemma.

`DocumentedOrder` adds that the sums are these sequences and no permutations of
them: after `l` rounds thread `t` holds node `t` of level `l` of the tree
(`Ordered`). `TreeOrder` is a recursive function, of which it has to be shown
first that it exists (`TreeExists`); as no induction theorem can be used, the
proof takes the least level up to which there would be none.

*The optimizer.* The theorems are about the operators of `EGraph`, for every
graph, node, input and size of the float format. `Means(g, d, x)` says that the
graph is well made and that, for the input `x`, every node of a class and every
node the hashcons has for it computes what `d` says of the class. That relates
nodes, classes and hashcons at once, and it is what each operation has to leave,
for a `d` that says the same of the classes there were (`Continues`). The empty
graph means nothing (`EmptyMeans`). A union needs only that its two classes
compute the same; so for each rule an identity of floats has to hold to the bit
(`AddNegZero`, `SubZero`, `MulOne`, `ReciprocalIs`, `NegTwice`, `ReluTwice`,
`MaxSame`), and for a fold that the host, rounding to the device's precision,
gets what the device does (`FoldedIs`). A fold that does not settle
(`Unclear`: it makes a NaN of operands that are none, or the maximum of two
different zeros) is excluded by the hypothesis `Settled`; the run excludes the
same of the expression (`Unsettled`). A rule `x + 0 = x`, which -0 refutes, or a
fold at the host's precision, the run's mutant, has no such lemma.
For rebuilding, that the copies left out of a class can be numbered without gaps
needs that a set of `n` positions has a `k`-th for each `k` up to `n` (`Ranked`,
from an injection being onto), and that the hashcons names a class that holds the
node, that there is a last one (`WinnerExists`).

*The compositions.* `Launch` and `AsyncCopies` use the detector's own actions,
so that each step of theirs is one of the detector's or a stutter holds by
construction, but for its site being one the detector is asked about
(`LaunchRunsDetector`, `AsyncRunsDetector`: lemmas, no results). For a launch this needs where each thread is in
its script (`Located`): only then is the statement it runs one the sites cover.

*Only model-checked.* Liveness (`Ends`, `ThreadEnds`, `RowsComplete`,
`LoopsEnd`), which is out of this prover's reach. `LocalsAreSet`, `StackAgrees` and `AcceptedMeetsOtherwise`
compare the stack with the checkers and the recursive evaluator, which recurse
over trees, as `Optimizer` and `SerialC` do (`BitsPreserved`, `IsOneOrder`); `AsInterpreted` computes with bits. Of `BitsPreserved` the steps
on the graph are proved; that interning an expression node by node, and taking a
node of each class for the result, keep what they compute is an induction over
expressions and stays with the run. And `Precise` for kernels outside of
the two classes, where it may fail.

## 5. Disagreements with the documents

Two are runs that TLC is expected to refute. The others are configurations to be
run by hand, which TLC refutes the same way.

1. **`launch_relay`** (`RefusedIsRacy`) - barrier and release/acquire order do not compose.
   Thread 0 writes `x`; its block meets at a barrier; thread 1 of that block
   releases a flag; a thread of the next block acquires it and reads `x`. That
   is ordered, and it is refused as a `DataRace`, because a barrier is only a
   count and never enters the clock thread 1 publishes (`kernel_mem.rs:44-62`).
   `docs/question-u4-memory-model.md:37`: "it admits every program that is
   correctly synchronized".
2. **`MCKernels_unaligned.cfg`** (`AcceptedMeets`) - accepted kernels whose threads do not meet. A
   `Return` under divergent control is let through and what follows is not
   poisoned; `holds_device_barrier` does not look into callees, so `BlockIdx`
   counts as uniform although a callee has a `Device` barrier; an extern's
   reference that is called elsewhere too may look at the launch. The run
   finds one of each, and `AcceptedMeetsOtherwise` shows there is no fourth
   among the small modules. At run time the driver reports the mismatch.
3. **`MCAsyncCopies_between.cfg`** (`CannotTell`) - a copy is stored at its wait. Thread 0 issues a copy
   to `s`; both meet; thread 1 stores `s`; thread 0 waits and reads `s`, or
   thread 1 reads it before the wait: every pair is ordered, nothing traps, and
   the value is not the one a build that copies at the issue leaves. With
   `UntouchedCannotTell` these are the only cases.
4. **`MCOptimizer_again.cfg`** (`Idempotent`) - `optimize` is not idempotent: a rewrite interns the
   node of the snapshot afresh and joins the new class, not the one the root is
   in, and `rebuild_index` merges no classes, so which of two equal nodes is
   found follows a `HashMap`'s order. `max(2, abs(2))` may come back as
   `max(2, 2)`, which becomes `2` the next time. The bits are the same.
5. **`MCSerialC_order.cfg`** (`OneTurnEach`) - the C does not run each thread to the next barrier
   before the next thread starts (`launch.rs:43-44`). Statements ahead of a
   branch or loop that holds a barrier get a thread loop of their own
   (`launch.rs:420`), so all threads run them before any enters the construct.
   Still one of the kernel's orders (`IsOneOrder`), but not the one named.
6. **`serial_wide`** (`AgreesWithInterpreter`) - the C counts in a `long long` (`kernel.rs:430`,
   `launch.rs:505`). `U64` bounds are accepted, and one past 2^63 - 1 becomes
   negative: the loop makes no pass where the interpreter's makes some.
   `kernel_launch_emit_agrees.rs:2`: "The serialized thread-loop C agrees with
   the launch interpreter". The same of an `I64` counter, by
   `MCSerialC_order.cfg` with the constants its comment names: from 2^63 - 2 to
   2^63 - 1 by 2, `k += t` (`kernel.rs:434`, `launch.rs:509`) overflows, which C
   leaves undefined - the model lets it wrap and the loop go on, or the loop be
   left - where the interpreter ends the loop (`kernel_resume.rs:289`). Such
   bounds are accepted (`kernel_check.rs:606`).
7. **`MCCollectives_wide.cfg`** (`RulesAreTheOracles`) - the same of a shuffle's operand
   (`collective.rs:103`): a `U64` lane or distance past 2^63 - 1 is negative in
   the C and reads another lane. `collective.rs:7-8`: "The rules are the
   oracle's".

More configurations show smaller differences and can be run by hand:

- `MCOptimizer_again.cfg` with the constants its comment names (`Saturates`):
  `optimize.rs:847-848`, the "lowest-cost equivalent form via equality saturation".
  A pass works on a snapshot, in a hash map's order; one that comes to every
  addition of a sum of constants before the one below it is folded folds one of
  them, so `n` additions take up to `n` passes, and one to see that nothing is
  left. 32 passes (`optimize.rs:870`) may end before that, and the form returned
  depends on the map. Its bits do not (`BitsPreserved`).
- `MCLaunch_comments.cfg` (`ReplacementKnowsMore`): `kernel_sync.rs:170`, "a later
  release by one thread knows at least what its earlier one did, so it replaces
  it". A relaxed atomic after a release fence leaves the *fence's* clock, which
  may be older than the thread's last release on the element: an edge is lost,
  and a correct kernel may be refused.
- the same (`ScopesShared`): `kernel_sync.rs:15-17`, two atomics
  whose narrower scope does not contain both threads "are a `DataRace`". One
  stamp per thread is kept, so a `Block`-scope atomic followed by the same
  thread's `Device`-scope one is no longer compared with another block's atomic.
- `MCRaceSoundness_imprecise.cfg` (`Precise`): what an acquire fence may take is held
  per releaser, the record read last replacing the one before
  (`kernel_sync.rs:157-161`), also when it is of another element and knows less.
  A thread releases `f`, writes `x` and releases `g`; another reads `g`, then `f`,
  fences and reads `x`: ordered, and refused.
- the same with the constants its comment names: an acquire fence drops all that is
  held, what is out of its scope included (`kernel_sync.rs:187`), so that a fence
  for the device after one for the block takes nothing.
- the same with the others it names: a release to the block replaces the
  same thread's release of that element to the device (`kernel_sync.rs:170-177`).
  The kernel mixes scopes on an element, which `ScopesShared` shows is not
  always noticed; the refusal comes later, at an access that is ordered.
- `MCKernels_recursion.cfg` (`NoRecursion`): `kernel_module.rs:16`, the call
  graph is acyclic. It is built from calls alone, and a function may reach
  itself through an extern's reference.

## 6. Not modelled, and why

- *Values in the driver and detector*: indices, bounds, dtypes and the bits of
  an element. One nondeterministic `StatementTraps` stands for every trap of a
  memory statement that the detector does not refuse. Construction of launches and argument checks.
- *Values of MMAs*: pure functions of all lanes, applied at a rendezvous that
  is modelled. *Float sums* of collectives: their rounding.
- *Shapes of clusters*: they divide one axis (`Scopes`); the code divides each of
  three. No property depends on which blocks make up a cluster.
- *Copies in the driver*: `LaunchDriver` has no `AsyncUnwaited` (`AsyncCopies`
  has it). Externs that synchronise at `Device` scope are in `Uniformity`'s rules
  but not among the kernels of the run.
- *Checkers*: dtypes, ranks of places, orders of atomics, MMAs, sizes of allocations and
  target bodies; each is a check of one statement by itself.
- *Lifts*: the serial ones (gather, im2col, sort, scatter, window), which are
  loops of one thread. A lift's leaf expression is one named element.
- *Optimizer*: `optimize_top_k`, `Param` and `Reduced` leaves, `Min` (the mirror
  of `Max`), fused multiply-add and the transcendental operators, which no rule
  touches. Constants whose folding the host and the device may settle
  differently (`Unsettled`: a NaN no operand is, the maximum of two zeros).
- *The serial C emitter*: calls and modules, MMAs, private arrays, the limits on
  threads and resident threads, dtypes, and the C of kernels without a launch.
  Its copies at the issue are in `AsyncCopies`. A Shared element starts as 0 in
  `ParallelLaunch` as it does in the C; the interpreter refuses to load one that
  was never stored, so the two agree only for kernels that do not.
- *IR, plan, shapes, layouts, vocabulary, structure keys, contracts, artifacts,
  text forms, JIT, telemetry*: by far the most lines of the repository. They are
  sequential passes over large data, tables and formats that keep no state
  between calls; what could go wrong is in the values, where the repository's
  own exhaustive tests look, and a finite instance of them would check a
  formula against itself.
- `SeqCst` is `AcqRel` because it is in the code. Counter overflow (`seq` is 64
  bits, barrier counts 32) is not reachable within the step limit of ten million
  statements for launches of sensible size.
