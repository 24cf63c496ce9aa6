# robot-llm: a TLA+ verification of its control core

robot-llm lets a language model direct two LEGO robots, EV3RSTORM and BLAST-01, from a Mac. The model never
holds a motor: between its answers and the wheels stand several layers of ordinary, deterministic Python whose
job is to decide who may move a robot, to take that right away again, and to keep every stop. This directory
models those layers in TLA+, checks them with TLC and proves their main invariants with TLAPS.

Paths below are relative to the repository; `robot_agent/` stands for `src/robot_agent/`.

## 1. The system

```
 browser --HTTP--> dashboard_http / robot_control_http --> RobotControlService (one per robot, one shared gate)
                                                              | adapter.run / request_stop / emergency_stop
                        +-------------------------------------+------------------------------+
                        v                                                                    v
             physical navigation runtime                                        BLAST episode adapter
             ev3_navigation_transport (SSH)                                     observation monitor, BLE session
                        v                                                                    v
             ev3/navigation_worker                                              hub_programs/blast_01/runtime

 supervisor_transport (SSH) --> ev3/supervisor_daemon --> supervisor_protocol --> supervisor --> motors, sensors

 IdleExplorationService --> GoalLeaseCoordinator <-- a user's goal
        | one idle task: select (SingleFlightSelector), revalidate, MissionRunner, NavigationEpisode
        v
 MotionSupervisor --> one-shot pulses --> simulator plant
```

### Inventory

| component | state it keeps | operations | what is hard | what makes it correct |
|---|---|---|---|---|
| Robot control service (`robot_control_service`) | lifecycle state, current episode and thread, stop events, signals in flight, request history, gate | start, stop, emergency_stop, shutdown, update_settings, publish, the episode thread | adapter calls without the lock; a thread that outlives its episode; five places that release the gate; faults latched under a running thread | one driver; signals stay with their episode; faults and stops are never forgotten; the gate is neither leaked nor given up early |
| Goal authority (`autonomy_authority`) | active lease, pending reservation, re-arm guard, fault, generation counters | acquire idle, reserve, cancel, activate, re-arm begin and finish, release | user, explorer and operator threads in any order | at most one goal; preemption is told; a reservation is spent once; an unverified stop is final |
| Idle exploration (`autonomy_runtime`, `autonomy_task`, `autonomy_selector`) | session and duty counters, one task's bookkeeping, the selector's worker | run_once, run_session, rearm, one task from observation to release | an answer that comes seconds later or never; a world that changes meanwhile; cancellation and deadline between a check and the pulse | at most one late pulse; drives only in the world that was offered; budgets hold over sessions; the lease ends with its task |
| Navigation mission and episode | position in the plan, pulses and legs used | run | as above, one level lower | part of idle exploration's |
| Navigation supervisor, state, simulator | one-shot authorities, proposal inbox, plant versions | propose, decide, apply, cancel | replay and expiry of pulses, bounded inbox | a pulse is applied at most once and only when current |
| Concurrent runtime (`concurrent_runtime`) | three worker queues, pause / acknowledge / release events, the interaction's epochs | navigation, observation, expression and arm workers, cancel | an event handshake with timeouts, full queues, cancellation | arm and wheels exclude each other; cancel ends run() and every worker, which the code keeps but for one state of the arm (section 3) |
| EV3 supervisor (`ev3/supervisor`) | state, fault, session, sequence, heartbeat, active command, motors | claim, heartbeat, arm, start_drive, poll, stop, release, close | sensors and clock read between guards; two motor writes; stops that cannot be verified | motion has an owner; an armed robot has a client; a fault latches |
| EV3 daemon and protocol (`ev3/supervisor_daemon`, `supervisor_protocol`) | two inbound queues, output queue, stop event, shutdown flag, failure | reader, writer, dispatch loop, responses | three threads; a stop between the steps of a request; full queues; overrun cycles | no start after a stop; no false success; every stop served |
| Host transport (`supervisor_transport`) | lifecycle, request in flight, poison | request, wait_closed, close, reader thread | a lost, late or repeated response, several callers and closers | a command is sent at most once; an unknown outcome is never hidden; nothing is sent after it |
| EV3 navigation worker and transport | motor lock, motion in progress, latched fault; the channel | observe, pulse, scan turns, sample, stop, shutdown | half-executed pulses, a channel that closes in the middle, a process that outlives its host | evidence matches the motion; the lock is given back |
| EV3 peripherals, hardware layer, tools | file descriptors | reads | - | - |
| Speech to text (`stt_runtime`) | jobs, request index, pre-cancellations | submit, cancel, poll, worker | late results, eviction, cancel before submit | a cancelled job stays cancelled; bounded storage |
| Robot speech | bounded queue, playback | enqueue, cancel | cancellation during playback | bounded, fail-open |
| Dashboard (`dashboard_service`, `dashboard_state`) | request slots, event pages | submit, poll, page | concurrent requests | bounded, idempotent |
| Research and agent loops | steps, budgets | run | model answers | budgets |
| Physical navigation, memory | phase of the episode, session, plan; pose, anchor and validity, in memory and on disk | run, request_stop, emergency_stop, turns, routes, scans, renewals, saves | crash between motion and save, stops and timeouts inside a motion, failed saves | a stale pose is noticed; a goal reported was reached; the worker is released |
| BLAST controller | one BLE session, monitor, hub program | commands, scans, speech uploads | one owner for two users; half-started drives | one command at a time |
| Maps and detours | cells, envelopes | update | geometry | - |
| Model adapters, simulations, benchmarks, scripts | none | - | - | - |

`PROJECT.json` lists every component with its files, and under "hazards" the lines where each hard behaviour
bites, with the properties that cover it.

## 2. What is modelled

Nine specifications in twelve runs. Every action is one critical section of the code, or one stretch between two
points at which another thread can be seen; the actions' comments name the method.

### RobotControl (`RobotControl`, `RobotControlMC`, `RobotControlProofs`)

`robot_control_service.RobotControlService`, one instance for each element of `Service`, and the
`RobotEpisodeGate` they may share (`Gated`). `Client` are the HTTP threads and `Closer` the thread that shuts
everything down.

| model | code |
|---|---|
| `state`, `reason`, `thread`, `inflight`, `accepting`, `remembered`, `gate` | `_state`, `_terminal_reason`, `_thread`, `_control_signals_inflight`, `_accepting`, `_request_history`, the gate's owner |
| `episode` | `_episode_id`; episodes are numbered by the attempt that started them |
| `runner[s][e]` | where the thread of episode `e` is in `_run_episode` |
| `stopSet`, `estopSet` | the episodes whose stop events are set |
| `pinned`, `revision` | the settings revision an episode was given, and the current one |
| `shown` | the episode whose runtime the snapshots show |
| `call`, `closing` | an adapter call made without the lock; how far `shutdown()` is |
| `attempts` | history variable: the starts and whether they were rolled back |

`Stop` / `StopReturns` and `EmergencyStop` / `EmergencyStopReturns` / `EmergencyStopFails` are the two halves
of a call around the adapter; `RunnerBegins`, `AdapterReturns`, `RunnerConcludes`, `RunnerFaults` and
`RunnerUnwinds` are the pieces of `_run_episode`; `Settles` is `_finish_stopping_if_quiescent_locked`, made in
the same step by everyone who calls it.

Left out: the DISABLED service (no adapter: it refuses everything), exceptions raised by the service's own
bookkeeping inside a transition, the paging of events and snapshots, the speech fields of the settings.

### GoalAuthority (`GoalAuthority`, `GoalAuthorityProofs`)

`autonomy_authority.GoalLeaseCoordinator`. Each method is one action, since each runs under one lock. A lease
is its owner and generation; goal epoch and plan revision advance with the generation and are left to it.
`cancelSet` is the set of generations whose event is set; `cancelledUsers` and `activatedUsers` are histories.
Its specification `AuthoritySpec` lets anybody call anything in any order: it is the abstract promise that
the explorer below uses.

### IdleExploration (`IdleExploration`, `IdleExplorationMC`, `IdleExplorationProofs`)

`IdleExplorationService` with one task of `_IdleTaskExecutorMixin`, `MissionRunner` and `NavigationEpisode`
written as one thread's program counter `pc`, over the actions of `GoalAuthority`.

| `pc` | code |
|---|---|
| rest, next, rearm | between calls; between tasks of `run_session`; inside `rearm_idle_duty_cycle` |
| check, observe, ask, wait, answered | `_select_task`: budgets, context, `SingleFlightSelector.call`, its result |
| revalidate, recheck, ... plan | `_fresh_selection_snapshot` and the checks around it, `_dispatch_mission` |
| leg, episode, tick, dispatch, apply | `MissionRunner.run`, `NavigationEpisode.run` down to the pulse |
| stop, brake, boundary, release | the terminal stops at the three levels, `_finish_without_mission` / `_finish_state` |

Versions are not numbers. `current` is the set of the things the thread holds (snapshot, context, menu, plan)
that the world has not changed under; `WorldChanges` empties it. `clock` counts the three deadlines that have
passed: the answer's, the session's and, last, the duty cycle's. `worker` is the selector's one worker.
Around the thread act the user (`UserClaims`, `UserActivates`, `UserMoves`, `UserReleases`), the operator
(`OperatorSwitches`), the world, time and the selector's worker. No production code calls
`reserve_user` or `activate_user` yet; the user is modelled from the coordinator's contract and the tests, and
its actions are external in `PROJECT.json`.

Left out: the path on which a mission raises an unexpected exception; motion time, ticks and proposals as
budgets (tasks, planner calls, replans and actions are counted); candidates' geometry. Two results of the code
are worth knowing, both fail-closed. A task whose every observation failed has no snapshot to release its
lease with and returns with the lease held (`LeaseEndsWithItsTask` and `WaitingUserIsServed` name this case):
nothing but a new coordinator frees the robot. And a world update between the terminal stop's observation and
its application makes the stop unverified, so the release faults the authority for good.

### Ev3Supervisor and SupervisorSession (`Ev3Supervisor`, `SupervisorSession`, `SupervisorSessionProofs`)

`Ev3Supervisor` is `EV3Supervisor` and its motor owner: state, session, heartbeat, sequence numbers, the
command and the set `moving` of motors that may turn. Its operators are steps without a specification of their
own. `SupervisorSession` composes them into the foreground process: the loop of `run_forever` and `run_once`
as a program counter with its five looks for a requested stop, the daemon's `_dispatch_one`, the protocol's
`execute`, `start_drive` cut at its guards and its two motor writes, the completion that publishes or
invalidates the response, and the other threads: reader (`Receive`, `ReceiveStop`), writer (`Send`), failures
(`ThreadFails`, then `ThreadShutsDown`, since the stop event and the shutdown flag are two statements), time.

Every read of hardware or of the clock is a free choice among what it can show. A motor stop is verified or
not, freely. A request's contents are chosen when the loop takes it, the queues hold counts. The guard read
just before a motor write and the write are one step: the code cannot do better, since the flag may be set
between any two instructions; so `StopPreventsStart` promises that no start follows a guard that could have
seen the stop.

Left out: the audit events (a session's requests cannot fill their buffer), backwards clocks, the limits on
requests and on motion, which only refuse, the exact shift of the next tick after a request-bound stop, and
`reset_fault`, which only tests call. The process ends, so deadlock is not checked.

### ConcurrentRuntime (`ConcurrentRuntime`, `ConcurrentRuntimeProofs`)

`concurrent_runtime.ConcurrentBehaviorRuntime` with its `_InteractionReducer`: the navigation thread, the planner, speech
and arm workers, and a caller of `cancel()`.

| model | code |
|---|---|
| `current`, `requests` | the reducer's interaction with its version and epochs, `_planner_request_count` |
| `queue` | `_planner_queue`, `_speech_queue`, `_arm_queue`; `STOP` is `_STOP` |
| `cancelled`, `requested`, `acked`, `released` | `_cancel_event` and the three events of the pause |
| `nav` | where navigation is in `_observation_sink`, `_before_arbitration`, the pulse and the end of `run()` |
| `arm` with `armJob`, `segments`, `left` | where `_arm_worker` is: between the clears and sets of its pause, in the executor, in `_release_navigation_pause` |
| `planner` with `plannerJob` | where `_planner_worker` is: in its callback, looking at the result, before each of its two puts |
| `closing` | how far each caller of `cancel()`, and `run()`'s finally clause, is: its three `set()`s, the callbacks and `_close_queues`, with `_offer_stop` in its two attempts |
| `spoken`, `late` | histories: the epochs spoken about; whether a pause began under navigation's last acknowledgement |

`Event.set()` wakes the waiters there and then, also when `clear()` follows before they run: the action that sets an
event moves the waiting thread on. The planner's look at `_cancel_event`, its look at the interaction and its two puts are
four steps, so a job can be put into a queue that is being closed. A worker still ends, because it looks at
`_cancel_event` after each element it takes, whatever became of its `_STOP`; what wakes nobody is an arm that clears the
acknowledgement after the last `set()`: it waits for ever (`blocked` without `acked`). `CancelEndsTheWorkers` names this one
state, and the finding `CancelEndsTheArm` shows that it is reached. Left out: the behaviour worker,
clocks (wherever the code compares with one, both outcomes are possible), metrics and the event log.

### SupervisorTransport (`SupervisorChannel`, `SupervisorTransport`, `SupervisorTransportProofs`)

`supervisor_transport.SupervisorSSHSession` with any number of threads in `request()`, `wait_closed()` and `close()`,
`_StdoutPump`, the two pipes and the daemon. `SupervisorChannel` is the abstract specification: requests go one at a
time, the EV3 decides each at most once, a caller is told that decision, or that the outcome is unknown, or that the request was
not sent, and after an unknown outcome nothing is sent. `ChannelIsKept` is the refinement: the channel's outcome of a
request is `outcome`, or "pending" while it is in flight, and the channel is broken when the session is poisoned.

| model | code |
|---|---|
| `lifecycle`, `poison`, `failure`, `failed` | `_lifecycle_state`, `_poison_info`'s outcome flag, `_receive_failure`, `_failed` |
| `inflight`, `lines`, `number` | `_inflight_request_id`, `_inflight_response_lines`, `_request_number` |
| `lock`, `at`, `op`, `id`, `told` | `_request_lock`; where each thread is in `_exchange_locked` and `close()` |
| `output`, `pump`, `item`, `responses` | stdout, the reader between reading, marking and putting, `_responses` |
| `verdict`, `outcome`, `disturbed` | histories: what the daemon decided, what callers were told, whether anything went wrong |

The daemon decides a request or rejects it once, in order, answers it and may crash; lines nobody asked for, old answers
and invalid lines may come (`MaxNoise`). That it decides at most once is what `SupervisorSession` shows of the EV3's
process. Left out: starting SSH, stderr, validation of arguments.

### SttRuntime (`SttRuntime`, `SttRuntimeProofs`)

`stt_runtime.STTRuntime`. `job` stands for `_jobs` and `_request_index`, `pending` for the queue, `ended` for the order
in which terminal jobs may be evicted, `early` for `_pre_cancelled_requests`; `held` is the job in the worker's
hands, identified by its serial number, since an evicted request may be submitted again meanwhile. `Expire` is what every
operation and the idle worker do first with what is due. Left out: audio, texts, events.

### PhysicalNavigation (`NavigationMemory`, `NavigationWorker`, `PhysicalNavigation`, `PhysicalNavigationProofs`)

Three components composed. `NavigationMemory` is `navigation_memory_store`: pose, anchor and validity, `memory` in the
process and `disk` in the file, one operator per operation. `NavigationWorker` is the process on the EV3
(`ev3/navigation_worker`, `navigation_worker_cli`), its lock, its slices, its latched fault, and the robot: `wheels`
are the encoder counts, and as the model's wheels do not slip they are also the way the robot has gone. `PhysicalNavigation` is the episode on the host
(`physical_navigation_runtime` with its motion, plan-tail, route and scan mixins) over `ev3_navigation_transport`, the
operator, crashes of the host and pushes.

| model | code |
|---|---|
| `phase`, `ending`, `outcome` | where `run()` is; `terminal_reason`; what it returned |
| `started`, `aborted`, `renewing`, `allClean` | `_transport_started`, the transport's abort, a session renewal, `_all_sessions_clean` |
| `plan` | the locals of the turn loop: turn, deferred veto, who drives (plan, tail, route or scan), actions left, turns of the scan, `motion_fault_latched` of the last observation |
| `worker`, `by`, `link`, `boot` | the process that has the motor lock, whose it is, its channel; a process that comes up |
| `frame`, `reply` | the request in the pipe, the response line |
| `job`, `done`, `travel` | the motion, its completed slices, what their receipts add up to |
| `zero` | history: where the robot was when its memory was first anchored |
| `origin`, `truth` | histories: the pose and the place a mission began at |
| `residue` | history: what the memory accepted without accounting for it, the settling that `begin_episode` took and what the scans it kept its pose over had left of their turns |

Position and encoders are one number each: what the properties tell apart is whether a movement was accounted for, not
where it led. A scan is one turn out and one back, for whatever the schedule of rays asks: two movements of opposite sign,
each verified by the encoders within a tolerance (`TurnSlip`), the second of the nominal size whatever the first one made. The
scan is restored if the turns add up to no more than `ScanTolerance` (`alignment_tolerance_mdeg`), and the memory then keeps its
pose; what is left of the turns is a movement that the pose never hears of, scan after scan, and `residue` counts it. An episode
may begin a new memory (`Resets`), which is what the EV3 profile always does, or go on with the file, which the
store and the adapter allow; with a new one the pose counts from its first anchor. A worker started while another holds the lock fails; one whose host has gone keeps the lock
until it notices. The planner's attempts are one step; deadlines, budgets and all vetoes but the latched fault's are
choices. Left out: geometry, the hazard map, the heading trim (only tests call it), encoder recovery inside a
slice (its outcome is a choice). A power cycle of the EV3, after which the counters start at zero again and an anchor
of zero would match by accident, is outside the model.

Worth knowing: a stop during a pulse always ends in `physical_shutdown_unverified`, since the transport breaks the channel to
interrupt it. A motion result adopts the encoder positions it ends with, so a push between two requests of a session is not noticed:
pushes are therefore between episodes (`PushPhases`), and the code promises no more. And `_execute_motion` verifies the result before the `try` around `apply_motion_result`, so the store's
invalidation for an unverifiable motion is not reached from there; it is the next `begin_episode` that notices.

## 3. What the runs check

| run | states | bounds | what it shows |
|---|---|---|---|
| `RobotControlGated` | 3.4 million (symmetry) | two robots, one HTTP thread and the closer, three starts in all, history of one | `OneEpisodeDrives`, `GateTracksWork` |
| `RobotControlSingle` | 1.4 million | one robot, two HTTP threads and the closer, three starts of two requests, history of one, two revisions | `SignalBelongsToEpisode`, `EpisodeIsolation`, `ShutdownIsFinal`, `RequestRunsOnce`, `FaultStaysLatched`, `StoppedNeverStarts`, `StopSettles` |
| `GoalAuthority` | 20 thousand | two user requests, six generations | `PreemptedIdleIsCancelled`, `ReservationSpentOnce`, `FaultIsFinal` |
| `IdleExploration` | 0.7 million | two tasks, two calls, one replan, two actions a session and a duty cycle; three generations | `AtMostOneLatePulse`, `DriveMatchesMenu`, `LeaseEndsWithItsTask`, `DutyWithinBudget`, `BudgetResetIsQuiet`, `WaitingUserIsServed` |
| `SupervisorSession` | 0.7 million | one command identifier, two commands a session, two sessions, sequence numbers to four, queues of one | `MotionIsOwned`, `ArmedIsClaimed`, `SuccessIsTrue`, `CommandRunsOnce`, `StopPreventsStart`, `StopIsServed` |
| `ConcurrentRuntime` | 0.44 million | a speaker or an arm, one object, queues of one, two planner requests, utterances and gestures, four segments, one repetition, two changes of the interaction | `PauseGateHolds`, `GestureFacesItsObstruction`, `SpokenOnceInOrder`, `CancelEndsTheRun`, `CancelEndsTheWorkers` |
| `SupervisorTransport` | 0.75 million | one client, two closers, one request besides close()'s two, one disturbance | `NoFalseAlarm`, `ChannelIsKept` (refinement), `CallsReturn` |
| `SttRuntime` | 16 thousand | three requests, four jobs, a queue of one, a store of two | `CancelIsKept`, `WorkIsAccountedFor`, `EveryJobEnds` |
| `PhysicalNavigation` | 1.2 million | two episodes of two turns, each with a new memory or the old one, tails of one, pulses of two slices, turns off by one, a scan tolerance of one, two motions, one mishap (a crash, a failed save or a push between episodes) | `PoseIsTrue`, `GoalWasReached`, `CleanMeansReleased`, `FaultIsNotDriven`, `EpisodeEnds` |

Three runs expect a violation, each of something the repository says of itself; the counterexamples are findings.

| run | property | what happens |
|---|---|---|
| `ConcurrentOverlap` | `NeverOverlaps`: wheels and propeller never move at once | The arm clears the acknowledgement, then the release, then sets the request. A navigation tick that still saw the last request acknowledges in between, finds the old release set and drives on, while the arm takes that acknowledgement for its own. `PauseGateHolds` shows that this window is the only way. |
| `SupervisorTransportShared` | `RefusedNeverRuns`: what was reported as not sent is not decided | With two threads in `request()`, the second one's look at the channel, taken before the lock, can find the reader's failure first and poison the session with a known outcome while the first one's request is in flight. With one client the refinement is proved. |
| `ConcurrentCancel` | `CancelEndsTheArm`: once `cancel()` has returned, the arm's thread ends unless its executor does not return | The arm takes its job, sees no cancellation and clears the acknowledgement only after `cancel()`, and `run()` at its end, have set it. It then waits without a timeout for an event that nobody sets again. `cancel()`'s docstring says that it wakes an active arm pause. |

Why these bounds are enough for the cases that matter: the gate is contended with two robots, and of three
starts one robot has two, so an unwinding thread meets its successor. Two HTTP threads and the closer give three
signals in flight. With a history of one, the second of three starts evicts the first one's request, whether it goes on or is
rolled back, and the third may repeat it. Six generations let idle, user,
cancelled user and idle again follow each other. Two tasks spend a budget across a boundary, and two
re-arm. Four sequence numbers are heartbeat, arm, a drive and its replay, in two sessions. Queues of one are
full as soon as a second item comes, in the concurrent runtime as in the supervisor. Two changes of the interaction make an
obstruction vanish under a queued gesture and another appear. A client and two closers meet on the request lock in
every order, and one disturbance is enough for each way a channel breaks, since the first poisoning counts. A store of
two with three requests evicts while a job is with the provider and lets its request come back. Two episodes are what
it takes to notice what the first left behind, two turns let a session be renewed, two motions are a pulse with its
tail or a scan and a pulse, and a goal of two pulses needs both. Turns that are off by one, out and back, add up to zero, one or two: within the scan's
tolerance of one and beyond it. The properties that are also proved (below) do not depend on the bounds.

Each property has a mutant in `PROJECT.json`: a variant of one definition, kept next to it, that repeats a
plausible mistake (a dropped guard, a missing release, an event not set), under which TLC finds the property
violated.

### Fairness

- `RobotControl`: the episode's thread is scheduled; adapter calls return or raise; and `adapter.run` returns once
  its stop event is set, which the adapters poll at every step. Nobody need
  start or stop anything. `StopSettles` assumes that stop signals do not overlap for ever.
- `IdleExploration`: the explorer's thread runs and a user who may activate does. The selector's worker is owed
  nothing: it may never answer. That is why `call` waits against a deadline and a cancellation.
- `SupervisorSession`: the dispatch thread is scheduled and its hardware calls return; a thread that has set the
  stop event goes on to set the shutdown flag. Reader, writer and client are owed nothing.

- `ConcurrentRuntime`: every thread runs when it can and timed waits end. The callbacks (planner, speaker, arm executor)
  may never return; `cancel()`, once its caller has begun, is carried out. Nothing wakes an arm whose acknowledgement is not set.
- `SupervisorTransport`: some thread that can go on does, which is enough since each makes a bounded number of calls and every
  wait of a caller is timed. Daemon and reader are owed nothing.
- `SttRuntime`: the worker runs and the provider, which has timeouts of its own, returns.
- `PhysicalNavigation`: the host goes on, as all its waits are timed, and a worker that runs goes on running. Nothing makes
  a worker come up, and nobody need start, stop or push anything.

## 4. What is proved

TLAPS checks the theorems for every value of the constants. The type invariants (`TypeOK`, `AuthorityTypeOK`) are proved
rather than run. `PhysicalNavigation` has none of its own: its types are the part `Shapes` of `SessionInv`.

- `RobotControlProofs`. `IInv` is the inductive invariant: types, and for each service the relation between
  `state`, `thread`, the place of every episode's runner, the signals in flight and the gate. The invariants alone
  are not inductive: that a second thread cannot drive depends on which earlier threads are already past their
  adapter, and that the gate is not leaked depends on `IDLE` with a registered thread. From `Invariance` follow
  `TypeCorrect`, `Exclusion`, `GateIsTight`, `SignalsStayHome`, `Isolation`, `ShutdownHolds`, `FaultLatched` and
  `StoppedHolds`. `NoRequestRunsTwice` needs an invariant about a sliding window (`HistoryInv`): an accepted request either is
  remembered, no further from the end of the history than its start is from the last start, or `HistoryLimit` starts
  came after it. Taking the oldest request out of a full history, and taking a start back that could not be made,
  must both keep that distance.
- `GoalAuthorityProofs`. `AuthorityInvariance` carries the generation counters: a pending or active generation is
  at most the last one issued and never a spent one. From it `AuthorityTypeCorrect`, `PreemptionIsTold`,
  `RearmExcludesGoals`, `SpentOnce`, `FaultEndsOwnership`.
- `IdleExplorationProofs`. `ExplorerUsesAuthority`: the explorer's specification implies `AuthoritySpec`, with the
  coordinator's variables mapped to themselves, so the theorems above hold of the explorer. `TaskKeepsLease` proves
  `LeaseEndsWithItsTask`. `Accounts` relates what was used, what the running task may still use and what is left of the duty
  cycle in each phase (`DutyIsBounded`); `RearmIsAlone` says that no selector lives while budgets are given back
  (`ResetsAreQuiet`); `Views` says which of snapshot, context, menu and plan a mission has compared with the world
  (`DrivesMatchMenus`); `Lateness` says where a thread may be once a pulse came late (`OneLatePulse`). Together with the types
  of the coordinator, which the explorer inherits, they give `ExplorerTypeCorrect`.
- `SupervisorSessionProofs`. The invariant is the conjunction of the types, `Core` (what each supervisor state
  implies of session, heartbeat and command), `DriveInv` (what is true at each step of a drive) and `Promise` (what
  the reply on its way out still relies on: either the state it reports or an excuse that will invalidate
  it). From `SessionInvariance` follow `SessionTypeCorrect`, `MotionStaysOwned`, `ArmedStaysClaimed`,
  `SuccessStaysTrue`, `CommandsRunOnce` and `StopsPreventStarts`.
- `ConcurrentRuntimeProofs`. `Handshake` says, for each step of the arm, where navigation may be and which events may be
  set, as long as the arm has not begun a pause too early. `PausesExclude`, `GesturesFaceObstructions` and
  `SpeechIsOrdered` (whose strengthening orders the epochs in the queues, in the workers' hands and in what was spoken).
  `RuntimeTypeCorrect` says that no queue exceeds its capacity and no budget is exceeded. For the arm that is not local:
  a job is admitted against the budgets, then waits for its pause, and only then is charged, segment by segment;
  `Charges` says at each step of the arm what may still be charged and that it is left.
- `SupervisorTransportProofs`. `ChannelKept`: with one client, any number of closing threads and any failures, the session
  implements `SupervisorChannel`. The invariant says who owns the lock, which thread the request in flight belongs
  to, and that the answer lines on their way (in the pipe, in the reader's hand, in the queue) for it carry its decision.
  `NoAlarm` proves `NoFalseAlarm`, again for one client: `CalmInv` says where the answer to the request in flight is (not yet
  taken by the daemon, in the pipe, in the reader's hand or in the queue), that nothing else is in the pipe but ends of file,
  and when the end of the daemon is expected. Both theorems need the single client (`OneClient`), and must: with two, let
  one client's shutdown be accepted and the daemon exit; the reader records the end of file while that client still
  waits and the session is `OPEN`, and the other client's `request()` finds the failure and poisons the channel.
  What is left with any number of clients is `SharedInv`: `WordIsKept` (what is returned as accepted or rejected was so
  decided, and no request follows one whose outcome is unknown) and `RequestsAreDecidedOnce`. What is lost with the second
  client is the honesty of "refused", which the run `SupervisorTransportShared` shows, and the calm of a shutdown.
  `TransportTypeCorrect` holds of any number too.
- `SttRuntimeProofs`. `CancellationsAreKept` and `WorkStaysAccountedFor`, for any requests and capacities. `RoomInv` is about the
  sizes: the queue holds exactly the jobs that wait, each once (`NoJobIsLost`), the order of ends exactly those that have
  ended, and queue, stored jobs and remembered cancellations stay within their capacities (`CapacitiesHold`). One eviction
  makes room because the store never holds more than its capacity before it, and frees no more than one place because
  no job ends twice. `SttTypeCorrect` assumes that there is a request.
- `PhysicalNavigationProofs`. `SessionInv` follows the channel: an open one belongs to the newest process of a session
  neither given up nor broken, and between an answer and the next request nothing of that process is under way, so
  what was answered last (its fault, that it is shutting down) is still true of it. `CleanReleases` and `FaultsAreNotDriven`.
  `PoseInv` is about the file, which is short of the wheels by two amounts. From its anchor to the wheels is a movement still to be
  noticed (`Owed`): nothing while the host decides (`Going`), what the plan turned and the receipts say while it asks
  (`Asked`), and anything after a crash, a failed save or a lost answer, where the next `begin_episode` either sees
  it or takes it as settling. From its pose to its anchor, counted from `zero`, is `Offset`, what its poses were never told: a valid
  file has it within `residue` (`Vouched`), as only a settling and a kept scan change it, by what they add to
  `residue`. A scan is owed until it is re-anchored, so its turns come into `Offset` only then, and only if they were
  `Restored`. A goal is judged against where the mission began, so `Close` measures the offset from the one at that moment
  (`Start`). `PosesAreTrue` and `GoalsAreReached` follow for `PushPhases` within {"off"}, the assumption that nobody moves the robot
  while an episode runs. What they bound is the error by `residue`, which grows with every kept scan: the tolerance is
  accepted anew each time, and nothing in the code adds the remainders up.

The assumptions are the named `ASSUME`s on the constants in the modules that declare them (positive limits,
distinct model values); TLC evaluates them in the runs.

Every invariant and action property of the runs that pass is proved. Only model-checked, because liveness under fairness is
beyond the prover: `StopSettles`, `WaitingUserIsServed`, `StopIsServed`, `CancelEndsTheRun`, `CancelEndsTheWorkers`, `CallsReturn`,
`EveryJobEnds` and `EpisodeEnds`. The runs that expect a violation are TLC's as well.

## 5. Not modelled

The repository has some 96 thousand lines of implementation; the models cover the parts in which threads, processes
and failures decide who moves a robot. What is left, and why:

- The BLAST controller (episode adapter, observation monitor, Bluetooth session, hub program). Its one owner for two users, half-started
  drives and recovery flows would make a composition of the size of `PhysicalNavigation`; it is the largest part a
  model checker could still reach.
- Robot speech, dashboard, HTTP routes, peripherals: bounded queues, slots and pages in the patterns of `SttRuntime` and
  `SupervisorTransport`, without authority over motors.
- One-shot pulses and the proposal inbox of `navigation_supervisor` and `navigation_state`, beyond what idle exploration
  uses of them: sequential checks of versions and expiry under one lock.
- Maps, detours, geometry, odometry: real arithmetic, which neither tool handles.
- Model adapters, research and agent loops: prompts and validation of answers. To the models an answer is a free choice.
- Active scan schedules: `PhysicalNavigation` has the scan's turns, stops and failures for one ray.
- Simulations, benchmarks, preflights, demos, firmware and scripts: not part of the running system.

Inside the modelled components, each paragraph of section 2 ends with what it leaves out.

## 6. Running it

```
tlc -workers 2 -config RobotControlGated.cfg RobotControlMC
tlc -workers 2 -config RobotControlSingle.cfg RobotControl
tlc -workers 2 -config GoalAuthority.cfg GoalAuthority
tlc -workers 2 -config IdleExploration.cfg IdleExplorationMC
tlc -workers 2 -config SupervisorSession.cfg SupervisorSession
tlc -workers 2 -config ConcurrentRuntime.cfg ConcurrentRuntime            # and ConcurrentOverlap.cfg, ConcurrentCancel.cfg
tlc -workers 2 -config SupervisorTransport.cfg SupervisorTransport        # and SupervisorTransportShared.cfg
tlc -workers 2 -config SttRuntime.cfg SttRuntime
tlc -workers 2 -config PhysicalNavigation.cfg PhysicalNavigation
tlapm RobotControlProofs.tla      # likewise GoalAuthorityProofs, IdleExplorationProofs, SupervisorSessionProofs,
                                  # ConcurrentRuntimeProofs, SupervisorTransportProofs, SttRuntimeProofs,
                                  # PhysicalNavigationProofs
```
