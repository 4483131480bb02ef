# Carcar: verification of what moves the robot and what it records

TLA+ models of the software that decides when the Carcar robot may move, that
runs its mapping and inspection tasks and keeps their results; the TLC runs that
check them on small instances, and TLAPS proofs of their main invariants for
every value of the constants.

Carcar is a mecanum-wheeled inspection robot running ROS 2 Humble and Nav2 on a
Jetson. All source paths below are relative to `src/src/`. Sections:
1 inventory, 2 what is modelled and how, 3 runs, 4 proofs, 5 findings,
6 what is not modelled, 7 plan.

## 1. Inventory

### 1.1 Components, their state and operations

| Component (package) | State | Operations |
|---|---|---|
| **Final velocity gate** (`carcar_navigation`: `MotionGate`, `NavigationMotionGate`) | permit token and time, last command and time, last perception heartbeat | `permit`, `command`, `perception_heartbeat`, `output` (20 ms timer), `stop` |
| **Bounded action session** (`BoundedAction`) | one record per goal revision (handle, response, cancel, result, superseded time) and the session's accepted / terminal / success / timed-out flags | `send` (first goal or replacement), `poll`, `cancel`, three client callbacks |
| **Recovery supervisor** (`RecoverySupervisor` in `nav012_nodes.cpp`) | active child, stop barrier, start barrier, input / perception / localisation waits, published permit | `tick`, `halt`; helpers `stop_then`, `finish_stop`, `fail`, `start_task` |
| **Action leaves** (`FollowPath`, `SafeBackUp`, `ControlledSpin`, ...) | their session | `onStart`, `onRunning`, `onHalted`, and the hooks `prepare`, `reserve`, `rejected`, `failed`, `completed` |
| **Recovery runtime** (`RecoveryRuntime`) | ledger (`backup_used`, `spin_used`, `observe_replans_used`, `forward_distance`), UUID cache, sensor caches, `motion`, `retiring` | `begin_recovery`, `forward_progress`, `reconcile_backup`, `note_backup`, `request_observe_replan`, `reset_for_new_task`, `observe_uuid` |
| **Depth layer supervisor** (`carcar_camera`) | phase of a switch, target and active state of the layer, parameter or clear calls in flight, how long health has lasted | 100 ms `tick`, service callbacks, costmap subscriptions |
| **Required depth health** (`RequiredStvlHealth`) | camera, cloud and per-layer reports, stabilisation start, update barriers | `camera`, `cloud`, `layer`, `allowed` |
| **Teleoperation guard** (`carcar_mapping_console`: `Safety`, `teleop_guard`) | session, sequence, gear, armed, pressed, lease, sensor times | `connect`, `disconnect`, `enable`, `drive`, `release`, `heartbeat`, `change_gear`, `stop`, `tick` |
| **Mapping gateway** (`web_gateway.cpp`, `task_process.hpp`) | task state, phase, mode; the admitted request; the job thread; whether scans are taken and passed on; pose, map, unsaved progress; the SLAM and camera process groups; the bundle directories | `lifecycle` (start, restart, end, video), `save`, `finish`, `resume`, the job's steps, the 100 ms `update_state`, callbacks of scan, pose, map and diagnostics |
| **Control transport** (`http_server`, `rtc_control`, `web/app.js`) | one HTTP worker and its queue, the `/inspect` portal, the I/O thread that sends replies; owner and generation of a control connection | take, forward, answer, refuse a request; open, forward, close |
| **Inspection executor** (`executor.{hpp,cpp}`) | phase, point and spot, captures, the tree of steps of one spot | `start`, `tick`, `pause`, `resume`, `cancel` |
| **Inspection console** (`console_node.cpp`) | the step under way and its deadline, the navigation goal, one request at the chassis driver, what it believes of hold, board and depth, what a run is to end as | the 20 ms `tick`, jobs posted by HTTP, callbacks of the Nav2 client, of odometry and sensors; the upload thread |
| **Inspection store and upload** (`store.cpp`, `upload.cpp`) | SQLite tables of points, tasks, runs, uploads; photo files | `begin_run`, `update_run`, `enqueue_upload`, `recover_interrupted`, `next_upload`, `finish_upload` |
| **Inspection teaching** (`teaching.hpp`) | phase of the adjustment, last command, frame generation | `start`, `request`, `sent`, `frame`, `reconnect`, `confirm`, `disconnect` |
| **Chassis driver** (`carcar_hardware`; `carcar_base/rosmaster_node.py`) | serial link, motion hold and its owner, servo state | `read`, `write`, command topics, hold and servo services |
| **Localisation monitor, protected backup, behaviour-tree decorators, indicator, loggers** (`carcar_navigation`) | small caches and timers | subscriptions, timers |
| **Tools** (`tablet_wifi_trial`, `hotspot`, `prepare`, proxy selector, `carcar_bt_monitor`) | system configuration | command line |

### 1.2 Interactions

```
 behaviour tree ── ticks ──> RecoverySupervisor ── /navigation/motion_permit ──┐
      │                        │   ▲                                           ▼
   action leaves ── runtime->motion (BoundedAction) ── Nav2 servers ── cmd ─> MotionGate ─> /cmd_vel
      │                        │                                               ▲
      └── RecoveryRuntime (ledger, UUID)    perception_motion_allowed ─────────┤
                                            ▲                                  │
   DepthLayerSupervisor (optional switch, or RequiredStvlHealth) ──────────────┘
        ├─ set_parameters, clear_costmap ─> local / global costmap nodes
        └─ camera, cloud and layer reports

 operator's page ── WebSocket + WebRTC ──> web_gateway ── /mapping/control/request ──> TeleopGuard ─> cmd_vel
        │  HTTP                              │   ├─ job thread ── fork / kill ──> SLAM, camera
        │                                    │   └─ save ──> bundle directories
        │            ┌── GET /api/state ─────┘
        └─ /inspect ─┤ (portal)   GET /api/status ──┐
                     ▼                              │
              inspection console ───────────────────┘
                 ├─ NavigateToPose ──> Nav2            ├─ run records, upload queue ──> SQLite
                 └─ hold, servo ──> chassis driver     └─ upload thread ── HTTP ──> peer
```

* Calls and shared state: leaves and supervisor share `RecoveryRuntime`; the tree
  runs on one thread, but client callbacks write the session's records from
  another, under the session's mutex. In the gateway an HTTP worker, a job
  thread, the ROS callbacks and a timer share one mutex. The console does its
  work on one ROS thread; HTTP posts jobs to it and waits 2 s for the answer.
* Messages: permits, perception heartbeats, costmap updates and operator
  messages may be late, lost, repeated or (over two channels) reordered. A
  service request that timed out may still be carried out.
* Processes: gateway and console ask each other over HTTP before they start
  anything; the gateway starts and kills the SLAM back end; the chassis driver
  may restart under the console.
* Time: leases, ages and limits are compared with steady clocks; most of them
  are looked at only when a callback or a timer runs.

### 1.3 Hard behaviours, and what makes each part correct

* **Gate.** Expiry is lazy: a lapsed lease stays in the fields until somebody
  calls in. Correct when no order of permits, commands, heartbeats and silences
  forwards a command under a permit it was not given for, or keeps the robot
  moving past a limit.
* **Session.** Goals are replaced while earlier ones are unanswered, and answers,
  results and cancel acknowledgements come in any order. Correct when a cancel
  reaches every goal, only the newest goal's success counts, a session that is
  over leaves nothing running, and no server can make the tree wait for ever.
* **Supervisor.** Goal replacement, cancellation, perception loss, input loss and
  localisation loss all interrupt each other. Correct when two motions are never
  in flight, an unattended motion is never permitted, a permit belongs to the
  current task's goal, and every stop ends.
* **Ledger.** Correct when, whatever becomes of each backup or spin, the robot
  backs up by no more than the budget and spins once before it gets away, and
  only real progress renews the ledger.
* **Depth layers.** Two costmap nodes answer late, differently or never. Correct
  when the robot moves only on costmaps that agree with each other and with the
  camera's health, and every switch ends: with the layer as requested or with
  the robot locked.
* **Required depth.** Correct when motion follows a full stabilisation time and
  new updates of every layer, and stops when a source is silent or frozen.
* **Teleoperation.** Correct when nothing moves the robot after the operator let
  go, after a limit ran out, or from a session that ended.
* **Mapping task.** A request is admitted, the previous job is joined, and the new
  job works step by step with the mutex let go of between the steps, while the
  back end dies, diagnostics fail, poses are invalid and the timer declares a
  fault. Correct when SLAM is fed only while a task that maps wants it, a failed
  session never comes back to life, what counts as saved is whole, nothing
  unsaved goes unasked, and every operation ends.
* **Start exclusion.** Each side's single worker waits for the other side's single
  worker. Correct when every request is answered, every thread comes free, and
  the two never own the motion together.
* **Inspection run.** Pause, cancel and failure cut into any step, with a goal whose
  handle has not come, a servo request whose answer is late, a driver that has
  forgotten the hold. Correct when an ended run has stopped the car and its
  goals, a photo is of its point, the car never drives looking aside, and
  neither a stop nor a run hangs.
* **Inspection records.** Photo file, upload row and run record are written one after
  the other; any write may fail and the process may die between two of them.
  Correct when records name only what is on disk, nothing is done twice, and
  every queued photo is delivered.

`PROJECT.json` lists these hazards at their source lines.

## 2. What is modelled

| Module | Models | State ↔ code |
|---|---|---|
| `VelocityInterlock` | abstract specification: grant, revoke, accept a command, drop it, move, halt; no clocks, no messages | what a velocity gate promises; implemented by the next row and by `TeleopGuard` |
| `MotionGate` (`MCMotionGate`) | `motion_gate.hpp`, `navigation_motion_gate.{hpp,cpp}` | the fields of the class; `published` is the last `/cmd_vel`; `Live*` are the fields after `expire()`, which every entry point calls first |
| `BoundedAction` | `bounded_action.hpp`, and the retirement of a session in `tick()` | `records[r]` is the `Record` of revision r; `status` the flags of `Shared`; `goal[r]` is the server's side |
| `RecoverySupervisor` | `RecoverySupervisor` in `nav012_nodes.cpp`, with `observe_uuid` and `reset_for_new_task` | the record `node` holds the node's fields; `motion` is `runtime->motion`; `permit` the last one published |
| `RecoveryBudget` | the ledger of `recovery_runtime.cpp` and the hooks of `SafeBackUp`, `ControlledSpin`, `ParkAndObserve` | `backup_used`, `spin_used`, ... by name; `leaf`, `reserved`, `moved` the action in flight |
| `DepthLayerSupervisor` | `depth_layer_supervisor.cpp`, optional layer | `phase`, `target_enabled`, `active_enabled`, ... by name; `enabled[c]` and `calls[c]` the costmap nodes |
| `RequiredStvlHealth` (`MCRequiredStvlHealth`) | `required_stvl_health.hpp` and its use in `tick()` | the fields of the class; `layers[i]` a `Layer` |
| `TeleopGuard` | `safety.hpp`, `teleop_guard.cpp` | the fields of `Safety`; the channel is the set of messages that may arrive now or later, once, twice or never |
| `MappingTask` | the managed task of `web_gateway.cpp` and `task_process.hpp` | fields by name (`task` is `task_state_`, `have_map` is `map_`, ...); `request` is what the HTTP worker has admitted, `job.at` where the job thread is; `disk` the bundle directories |
| `StartExclusion` | `inspection_blocks_mapping()`, the portal and the worker of `http_server.cpp`; `mapping_active()`, `command()` and the snapshot of `console_node.cpp` | two queues and two workers, what each works on and waits for; `task`/`status` and `run`/`snapshot` are the truth of each side and the copy it shows |
| `InspectionRun` | `executor.cpp`, the automatic run of `console_node.cpp`, the hold and servo services of `rosmaster_node.py` | `phase`, `point`, `approach`, `captures` of the executor, `node` the tree's running child, `pending` the request at the driver, `goal` Nav2's side, `driver` the chassis driver's |
| `InspectionRecords` | `store.cpp`, `upload.cpp`, `persist_run()` and the capture step of the console | `runs`, `uploads` the tables, `files` the photo files; `shot.at` how far the photo being taken is |

One action stands for one handler, with every call it makes. A few decisions:

* **Clocks.** One `Tick` is the period of the component's own timer. Actions that
  the code runs on a timer are forced before the next tick (`served`, `polled`):
  a timer that misses its period is not modelled, so limits
  are checked with one period of slack and no more.
* **`BoundedAction`.** The three callbacks are separate actions. `Poll` decides
  under the lock to cancel and `PollCancels` calls `cancel()` after it has
  let go of it, as the code does: a callback may come in between. The
  server accepts, rejects, ends, cancels or ignores each goal.
* **`RecoverySupervisor`.** A tick is one action, with the code's early returns
  as alternatives. The two children are reduced to what they do to the session
  and to the outcome they return; health, odometry and stillness are any
  value at every tick. Sessions are as `BoundedAction` specifies them:
  sent, accepted, over.
* **`RecoveryBudget`.** Distances are in a common unit; the robot's true movement
  (`moved`, `reversed`, `ahead`, `turns`) is observed beside the ledger, so the
  properties are about the robot and not about the counters.
* **`DepthLayerSupervisor`.** A service call is outstanding until the node serves or
  refuses it and the client callback has run. A switch that fails or times out
  is the end: the node stays in FAILED, with motion forbidden, and late answers
  change nothing that matters. Health is the level the tick samples. A tick
  that completes a switch publishes twice: `permitted` keeps that it let the
  robot move, `motion_allowed` what it published last.
* **`RequiredStvlHealth`.** `updates - barrier` is an unsigned subtraction in the
  code; the model keeps both as naturals and the invariant `BarrierNeverAhead`
  is the reason the subtraction cannot wrap.
* **`TeleopGuard`.** A request may be lost, repeated and overtaken. The node's
  topology check passes or fails at every timer. The gateway publishes the
  session under its mutex, so a session that has ended does not begin again.
  Messages carry the session of their page, and the older operator's may still
  arrive under the next one.
  `require_video` is off by default and left out with its frame history.
* **`MappingTask`.** Each action is what one thread does under the mutex in one go:
  the HTTP worker that admits a request and then waits, without the mutex, for
  the job to end; the job thread, whose `job.at` names the next thing it does;
  the callbacks; the timer. Durations (45 s to start, 6 s for a trial match, 2 s
  of silence) are left to chance: a limit that can run out may run out at any
  time. The operator session is taken as given, and the managed entry
  (`mode:=standby`) with the real back end is the one modelled. A crash may
  strike between any two steps and leaves the directories.
* **`StartExclusion`.** Both sides use their Beast sockets synchronously, where
  `expires_after` has no effect, so a question waits until it is answered; only
  the 2 s wait of the console's HTTP worker for its ROS thread is a real limit.
  Both processes are up. Each enable and each drive asks the console on the I/O
  thread, and passes the gateway's mutex. A request is asked for the first
  time: one whose `request_id` is on record is answered at once
  (`console_node.cpp:553`), and the page repeats none (`App.vue:558`).
* **`InspectionRun`.** A tick of the console is split into its parts, and what comes
  from outside waits until the tick is over (`BetweenTicks`). The chassis driver
  is the other process: a request to it may time out and be carried out later
  (`late`), an answer carries the board command of the time it was given, and
  the process may end and start again, when it holds nothing and looks ahead.
  It sends the odometry, so that its silence fails the step under way
  (`Healthy`); it takes longer to start than the 20 ms between two steps, so a
  step looks before it is back. Only a driver that is back before its odometry
  is missed at all (0.3 s) goes `unnoticed`. The car may be pushed off its spot
  whenever it stands there. A failed save, a lost localisation
  and a stale sensor are one event, the step throws. Left out: the 3 s
  alarm, manual driving and teaching; it begins with the navigation view
  confirmed.
* **`InspectionRecords`.** One SQLite statement is one step and what is committed
  survives a power cut (journal WAL, `synchronous=FULL`, `store.cpp`); of a file
  that was not synced, a power cut may leave anything (`Remains`). How the car
  gets to its points is not here: a run may end in any way between two photos.

Observers (variables the code does not have) are marked where they are declared
and never occur in a guard.

## 3. Runs

All runs finish in less than two minutes with two workers.

| Run | Checks | Bounds, and why they are enough |
|---|---|---|
| `motion_gate` | `StopDeadline` (non-zero `/cmd_vel` within lease, command age and perception limit), `ImplementsInterlock` (refinement of `VelocityInterlock`) | two generations: a command of one under the permit of the other; lease 2 and ages 3 expire one without the other; 12 225 states |
| `action` | `CancelReachesEveryHandle`, `SuccessIsOfCurrentGoal`, `OverMeansEnded`, `WaitIsBounded` | three goals: a replacement of a replacement; response and result limits of one tick, a clock that outlasts their sum; 4.9 M states |
| `stvl_health` | `AllowedIsEarned`, `BarrierNeverAhead`, `SilenceStops` | two layers (symmetric), three updates each, so that a layer restarts and passes a barrier twice; 2.5 M states |
| `depth_layers` | `LayersAgree`, `MovesWithHealthyCamera`, `SwitchEnds` | both costmaps; time limits long enough for a switch to complete in either direction and to time out in each phase; 7 424 states |
| `supervisor` | `NoStrayMotion`, `MotionIsAttended`, `PermitIsEarned`, `StopEnds` | three tasks and three motions: each may overtake the stop of the one before; limits of one tick |
| `budget` | `BudgetHolds`, `OneSpin`, `RenewalIsEarned` | a budget of two full backups, in three lengths, and a reset distance longer than one step; 13 521 states |
| `teleop` | `ReleaseIsFinal`, `StopsInTime`, `ImplementsInterlock` | two sessions of two messages, two enables, two gears; lease longer than the sensor limit; 1.0 M states |
| `mapping_task` | `SavedIsWhole`, `FedOnlyWhenMapping`, `RefusedIsSpoilt`, `NoSilentLoss`, `FailureIsFinal`, `BusyEnds` | two bundles, four operations: start, save, restart and resume, each with the next admitted before it ends; a crash whenever one likes; 228 864 states |
| `start_exclusion` | `KnotsComeUndone`, `PortalNeverConfirms` (finding) | two requests of any kind: each blocks the worker of one side, or one of them the I/O thread, and one may queue behind the other; a third would only lengthen the queue. 18 121 states; both hold with three requests too (752 506 states, 4 minutes), and `PortalNeverConfirms` is proved for any number |
| `inspection_run` | `EndedIsStopped`, `EveryPointAccountedFor`, `DrivesLookingForward`, `CancelReachesGoal`, `PhotoIsOfItsPoint`, `StopIsSettled`, `RunEnds` | one point of two spots: each kind of step, a spot after a failed one, a missed point, parking; any number of pauses, pushes and driver restarts; 447 898 states. All seven hold with two points too (`PointCount = 2`, 1 183 406 states, 4 minutes), and but for the last two they are proved for any number of points |
| `inspection_records` | `RecordsAreTrue`, `NothingTwice`, `UploadsEnd` | two requests, one point, two photos, one crash or power cut at any place; some 450 000 states. The invariants are proved for any number of each |
| `inspection_timeout` | finding: `GivenUpIsCancelled` is violated | one point of two spots |

Type invariants are not in the runs: all of them are proved (`TypeCorrect`, and
`LegacyTyped` in `LegacyInductive` for `DepthLayerSupervisor`).

**Fairness.** What is assumed, and what in the code justifies it:

* `SwitchEnds`: weak fairness of the supervisor's `SwitchTick`, a ROS wall timer that
  nothing in the node stops. The costmap nodes get none: they may never answer.
* `BusyEnds`: the HTTP worker's join and the job thread's steps (threads that run
  on), and the limits that end each wait of theirs (45 s to start, 6 s for a
  trial, the watchdog for a lost back end). SLAM gets none: it may never answer.
* `KnotsComeUndone`: the threads run on; the console's HTTP worker gives up after
  2 s; strong fairness of `Deliver`, because the I/O thread that delivers
  replies comes free again and again. Nothing is assumed about when a question
  is answered.
* `StopIsSettled`, `RunEnds`: the 20 ms timer (`Tree`, `Poll`), the limits that run
  out (`TimePasses`), and strong fairness of `Settle`, which the same timer
  calls in every tick. Nav2, the driver, the odometry and the operator get none.
* `UploadsEnd`: the upload thread runs on; the peer accepts each photo some day and
  its confirmation arrives some day (strong fairness). The queue always offers
  the first pending photo, so a photo refused for ever would block those behind
  it: the assumption is per photo, and it is needed.

The bounded waits `WaitIsBounded` and `StopEnds` are safety properties on the age
of the wait.

**Deadlock** is checked except where a system really stops: operations, requests,
goals, motions and photos are bounded, and when they are used up nothing is left
to do (`BoundedAction`, `RecoverySupervisor`, `MappingTask`, `StartExclusion`,
`InspectionRecords`); a run that is over with the console locked
waits for an operator (`InspectionRun`).

Each property is checked to be refutable by a plausible bug in the code: the
definitions such as `CommandUnchecked`, `FinishStopOnRequest` or
`ReleaseWithoutBarrier`, which stand before the definition they vary, are those
bugs.

## 4. Proofs

Each `*_proof.tla` extends the module it is about. Three of them extend two
modules that belong to one part of the robot: `RecoveryActions_proof`,
`DepthHealth_proof` and `MappingConsole_proof`; this is why `RecoveryBudget`,
`DepthLayerSupervisor` and `StartExclusion` name their specification `LedgerSpec`,
`SwitchSpec` and `ExclusionSpec`. The proofs hold for every value of the
constants under the named assumptions of the modules, which TLC evaluates in
every run. The assumptions say that limits are natural numbers, that a bound that
must be reached is not 0, and that the values that stand for nothing are not
members of the sets they stand beside (`NoBundle \notin Bundles`,
`"executor" \notin Requests`). `SpotCount \in 1..3` is what the console accepts.

| Module | Theorems | Argument |
|---|---|---|
| `MotionGate_proof` | `TypeCorrect`, `StopInTime`, `GateImplementsInterlock` | `StopDeadline` is not inductive: `DeadlineInv` bounds the age of what is published by one period less once the timer of this tick has fired. The refinement maps lapsed fields to the interlock's empty ones, so that the passage of time is where a permit is revoked and `expire()` is a stutter |
| `RecoveryActions_proof`, sessions | `TypeCorrect`, `CancelIsComplete`, `SuccessIsCurrent`, `OverIsEnded`, `WaitBounded` | `IInv` adds to the properties that every terminal record has ended or was replaced longer ago than both limits (`OverInv`). All callbacks and the poll rewrite records and recompute `terminal`: one lemma (`RewriteStep`) says what such a rewrite must respect. `Waiting` is the timer argument: the poll of every period finds a limit at most one period after it has run out |
| `RecoveryActions_proof`, ledger | `LedgerTypeCorrect`, `BudgetIsKept`, `SpinIsSingle`, `RenewalEarned` | `Covered`: what the robot has backed up, plus what the action in flight may still do, is covered by `backup_used`; the same for spins; and `forward_distance` never exceeds the true net progress |
| `DepthHealth_proof`, required layer | `TypeCorrect`, `BarrierBehind`, `MotionIsEarned`, `SilenceStopsMotion` | `Earning` relates the stabilisation start to the last time there was trouble and each barrier to its counter; `Recent` is the timer argument of the gate |
| `DepthHealth_proof`, optional layer | `CostmapsAgree`, `CameraIsHealthy` | for any set of costmaps. `LegacyInv` says, phase by phase, which calls are outstanding and what the costmaps have already taken; the robot's permission is tied to the phase in which all of them have. `CameraIsHealthy` is about what a tick publishes in passing, too: a tick whose permission is not the last thing it published is the one that completed a switch |
| `RecoverySupervisor_proof` | `TypeCorrect`, `NoStray`, `Attended`, `PermitEarned`, `StopIsOver` | for any time limits. `Core`: a live session that nobody cancels has its leaf, a leaf runs only in a task under way, a start that has stopped the robot finds no session, and a stop is no older than what its two clocks have counted (`Timely`). A tick is a chain of operators on a state `[n, m, p]`; one lemma per operator says that it keeps `Core` and withdraws the permit, one that only `AfterChild` gives it (`Good`). A child that has failed may leave its motion unattended until the end of the tick, which is why `Tended` is weaker than `Core` |
| `MappingConsole_proof`, guard | `TypeCorrect`, `LettingGoIsFinal`, `StopInTime`, `GuardImplementsInterlock` | for any number of operators and messages and any delay. `Sequenced`: what is on its way was sent, the guard's sequence is never behind the newest release, and a pressed stick was pressed by a later drive of the present operator; `Timed` is the timer argument of the gate. The refinement splits the timer by what it finds: unhealthy inputs stop, a lapsed lease and a running one publish |
| `MappingConsole_proof`, exclusion | `PortalUnheard`, `ExclusionTypeCorrect` | for any number of requests in any order. The executor's question exists once: in the gateway's queue, with its worker, or in the outbox, and only while the executor waits (`Checks`). What the gateway's worker has asked exists once, at the console, and it waits for just that (`Questions`). A run that has become a job has left both queues (`Gone`, `Begun`), so that the run the portal's worker waits for is the only one of its request; while it waits, nothing can answer the executor (`Unanswered`), and no reply says accepted (`NeverAccepted`). Queues are sequences of any length: `QueueGrows` and `QueueShrinks` say what `Append` and `Tail` do to what is in them and what is in them once |
| `MappingTask_proof` | `TypeCorrect`, `SavesAreWhole`, `FedWhileMapping`, `RefusedSpoils`, `ProgressIsKept`, `FailedStaysFailed` | for any set of bundles and any number of operations. `Writing` says how far the directory of a save is at each step of its job, `Manifests` that a complete manifest stands over both maps; `Consent` follows the operator's yes from the request into the job. `FedOnlyWhenMapping` needs most: `Launching` and `Overtaken` say which requests may have overtaken a start between the steps of its thread, and that the inputs are then closed or a job that closes them is due. The three action properties are proved step by step from the same invariant |
| `InspectionRun_proof` | `TypeCorrect`, `EndIsStop`, `PointsAddUp`, `CameraIsForward`, `CancelIsSent`, `PhotoOfPoint` | for any number of points. `CarIsHeld` ties the driver's hold to its camera, whatever the console believes; `RunState` the phase to the record and to what is on its way outside; `Cancelling` says that a halted goal is cancelled as soon as its handle is there; `Accounts` that every point behind has its photo or is missed; `OnTheSpot` that from the arrival to the photo no goal is left that could move the car, and no request that could turn the camera back. `PhotoOfPoint` is about the driver and not about what the console believes, so it needs one more invariant: once this run has let the car go (`Trusted`), no older hold or release is on its way any more, and what the console believes of hold and camera is so (`Belief`), because what the driver has answered was true (`Answers`) and a driver that was missed has failed the run. A tree tick is split by what its child finds: it succeeds, fails, throws or waits |
| `InspectionRecords_proof` | `TypeCorrect`, `RecordsTrue`, `NothingIsTwice` | for any number of requests, points, photos and failures. Neither property is inductive: `Inv` adds that whatever is named in memory, on disk or on its way to the peer is kept on disk (`OnDisk`), that a photo in hand is exactly as far as its step says (`InHand`), and that the queued photos of the run under way are the ones it knows of (`Known`, `Owned`, `Single`). A crash forgets the memory, and what is left still satisfies each part |

So every safety invariant and action property of a passing run is proved, and the
two refinements. Only model-checked is liveness (`SwitchEnds`, `BusyEnds`,
`KnotsComeUndone`, `StopIsSettled`, `RunEnds`, `UploadsEnd`): liveness under fairness
and ENABLED are beyond the prover. No RECURSIVE operator is used.

## 5. Findings

In seven places the code does something else than its own comments and
documentation say. Two are runs of the project; the others are reproduced with
`tlc -config X.cfg M` on the configurations named here.

* `inspection_timeout` (`console_node.cpp:670`). A spot whose navigation times out is
  given up without cancelling its goal. The step to the next spot then finds the
  previous navigation unfinished and the whole run fails, where
  `carcar_inspection/README.md:164` promises to cancel it and go on.
* `start_exclusion`, `PortalNeverConfirms` (`http_server.cpp:30`). A run start through
  `/inspect` occupies the gateway's only worker, and the console's own check of
  the gateway waits for that worker. The operator is told "timeout" although the
  run may start right after. `KnotsComeUndone` states what does hold.
* `StartExclusionOwner.cfg`, `OneOwner` (`web_gateway.cpp:424`). Each side looks at the
  other before it starts, at a copy, and does not look again: both may start.
* `BoundedActionLate.cfg`, `LateGoalsAreCancelled` (`bounded_action.hpp:141`). A replaced
  goal that never answered is counted as ended after response and cancel limit.
  The session is then over, is dropped, and the response callback, which holds it
  weakly, does not cancel a handle that comes later. `recovery_runtime.hpp:247`
  says late responses can still be cancelled. `OverMeansEnded` states exactly
  what does hold.
* `RecoverySupervisorStop.cfg`, `StopIsBounded` (`nav012_nodes.cpp:818`). A perception
  wait that interrupts an input wait with no odometry never reaches the deadline
  that its comment relies on. `StopEnds` states the limit that does hold outside
  that case.
* `TeleopGuardReplay.cfg`, `RecoveryReplaysNothing` (`safety.hpp:72`). `stop()` and
  `enable()` leave the sequence alone, so a drive sent before may arrive after
  and move the robot.
* `TeleopGuardLate.cfg`, `LateDrivesDoNotRenew` (`safety.hpp:106`). The lease counts from
  receipt; the transport's comments say it counts from issue.

## 6. Not modelled

The map covers a small share of the repository's lines. Most of the rest are
vendored drivers (`sllidar_ros2`, `rosmaster_vendor`), numeric processing and
logging tools, which have no state machine a model checker would help with:

* Geometry and estimation: swept footprints, rear clearance, headings, point
  cloud filters, `ProtectedBackUp`'s collision checks. They are inputs here.
* Nav2's servers, costmap contents and the robot's dynamics: external, by what
  the code may observe of them.
* `nav_event_logger`, `nav_log_tool`, `carcar_bt_monitor`, status markers,
  diagnostics, lamp and buzzer: no effect on motion.
* Hotspot, Wi-Fi trial, preparation and proxy tools, launch and description
  packages.
* The serial protocol of the chassis drivers.

State machines that are left out, or parts of modelled ones:

* Teaching the camera by hand (`teaching.hpp`) and manual driving in the inspection
  console.
* Editing points and tasks. `remove_point()` (`console_node.cpp:262`) edits the
  tasks one by one before it erases the point; a failure on the way leaves them
  edited.
* In the gateway: operator sessions, previews, telemetry, the unmanaged entry.
* `ParkAndObserve`'s window (`nav012_nodes.cpp:580`): `observe_started` is kept when an
  observation ends early, so a later one may find its time used up.
* The localisation monitor, whose verdict is an input of `RecoverySupervisor`, and
  the small behaviour-tree decorators.

Behaviours that are visible in a model, or known, and that no property forbids:

* On completing a switch the depth layer supervisor publishes TRUE
  (`depth_layer_supervisor.cpp:266`) before the same tick looks at the camera and,
  if it has failed, publishes FALSE (`:173`, `:226`). `MovesWithHealthyCamera` states
  this one exception; the gate sees both messages in order.
* A chassis driver that restarts within 0.3 s is not missed: the console goes on
  believing in a hold and a camera position that are gone (`console_node.cpp:680`
  looks at `held_`, not at the driver) and the next photo may be taken without
  them; and a car pushed off its spot while it is held is photographed from
  there. `PhotoIsOfItsPoint` says so.
* A photo queued while `upload_url` is empty stays `PENDING_CONFIGURATION`
  (`store.cpp:91`, `carcar_inspection/README.md:185`); `UploadsEnd` is about `PENDING`
  ones.
* A replacement of a goal restarts its response clock while the acceptance of
  the previous goal stands (`bounded_action.hpp:69`).
* A health report that goes FALSE and TRUE between two samples of the supervisor
  (`depth_layer_supervisor.cpp:316`), and a costmap published before a clear but
  received after it (`:259`). The code samples levels and receipt times, and
  promises no more.
* `console_node.cpp:720`: with the hold service away for 10 s a pending end is
  dropped and not recorded. `:723`: a lost answer to a release leaves `held_` TRUE.
  `:694`: a control message that throws in the job loop fails a running run
  (`StepThrows` in `InspectionRun`). After a crash while holding, the console's new
  owner token is refused by `rosmaster_node.py:332`.
* Failures of the repair itself: an exception of `async_cancel_goal`
  (`bounded_action.hpp:230`), and a manifest that cannot be rewritten after a
  failed save (`web_gateway.cpp:658`). Neither is modelled.
* A final record that cannot be written leaves the run RUNNING on disk until the
  next start turns it into INTERRUPTED.

## 7. Plan

Done: the motion core from permit to `/cmd_vel`, manual driving, the mapping task,
the exclusion of mapping and inspection, the inspection run and its records, each
with the proofs of its safety properties.
What is left, in order:

1. `NavStack`: supervisor, one session and the gate composed. Abstract
   specification: at most one motion at a time, and `/cmd_vel` non-zero only for
   a session that is accepted and not cancelled, up to the gate's limits. With
   it `ParkAndObserve`'s window and the behaviour-tree decorators.
2. `Teaching`: phases matched by callbacks across a disconnect, and manual driving
   in the console.
3. The localisation monitor, and the C++ driver's motion hold.
