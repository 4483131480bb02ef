----------------------------- MODULE InspectionRun -----------------------------
(***************************************************************************)
(* One automatic inspection: the console visits the points of a task, takes   *)
(* one photo at each, and parks.  A point has up to three parking spots; a     *)
(* spot that cannot be reached is given up for the next one.                  *)
(*                                                                          *)
(* The console is one thread: every 20 ms tick() runs the operator's jobs,     *)
(* looks at the request it has at the chassis driver, ticks the tree, settles  *)
(* what has ended and publishes a velocity; the callbacks of the Nav2 action   *)
(* run between two ticks.  The parts of a tick are actions of their own; what   *)
(* comes from outside waits until the tick is over (BetweenTicks).             *)
(*                                                                          *)
(* The chassis driver, a process of its own, holds the car still for an owner, *)
(* turns the camera and sends the odometry.  It may restart, and a request may *)
(* time out on its way.  Manual driving and teaching are not in this module;   *)
(* the navigation view has been confirmed.  Photos are saved; a failed save, a *)
(* lost localisation and a stale sensor are the same to the run: the step      *)
(* throws.                                                                  *)
(***************************************************************************)
EXTENDS Naturals

CONSTANTS
  PointCount,      \* points of the task
  SpotCount        \* parking spots of each point

ASSUME CountsAssumption == PointCount \in Nat \ {0} /\ SpotCount \in 1..3

Points == 1..PointCount
Forward == 0         \* board command 94, the navigation view
View == 1            \* the command the photos are taken with

VARIABLES
  phase, point, approach, captures, missed,  \* the executor and run_
  status,                                    \* run_["status"]
  node, started,                             \* the tree: its child, and whether it runs
  operation, stage,                          \* operation_, operation_stage_
  overdue,           \* the time allowed since operation_at_ has passed
  pending_terminal,
  nav,               \* nav_waiting_ ("waiting"), else ~nav_terminal_ ("active")
  nav_success, cancel_requested,
  goal, cancel_sent, \* external: the goal at the Nav2 server
  pending,           \* the request to the chassis driver
  late,              \* external: one that timed out but is still on its way
  held, board,       \* what the console believes of the driver
  depth,             \* depth_enabled_
  driver,            \* external: the chassis driver; life says whether it is the one
                     \* the console's driver_epoch_ names ("up"), is missed, or new
  driving, still, place   \* external: the car

mission == <<point, approach, captures, missed>>
tree == <<node, started, operation, stage>>
action == <<nav, nav_success, cancel_requested>>
server == <<goal, cancel_sent>>
belief == <<held, board, depth>>
wire == <<pending, late>>
car == <<driving, still, place>>
vars == <<phase, mission, status, tree, overdue, pending_terminal, action, server, wire,
          belief, driver, car>>

NoRequest == [do |-> "none", to |-> Forward, stale |-> FALSE, answer |-> "none"]

Parking == point > PointCount
Kind == IF node = "return" THEN "restore" ELSE node
Target == IF Kind = "restore" THEN Forward ELSE View
Captured == ~Parking /\ point \in captures

(* Between two ticks the tree is new, or its running child has been started.  *)
BetweenTicks == phase = "RUNNING" => started \/ node = "restore"

TypeOK ==
  /\ phase \in {"IDLE", "RUNNING", "PAUSED", "SUCCEEDED", "CANCELED"}
  /\ point \in 1..PointCount + 1 /\ approach \in 1..SpotCount
  /\ captures \subseteq Points /\ missed \subseteq Points
  /\ status \in {"none", "RUNNING", "PAUSING", "PAUSED", "CANCELING", "CANCELED", "STOPPING",
                 "FAILED", "SUCCEEDED", "LOCKED"}
  /\ node \in {"restore", "navigate", "stop", "adjust", "capture", "return"}
  /\ started \in BOOLEAN /\ overdue \in BOOLEAN
  /\ operation \in {"", "restore", "navigate", "stop", "adjust", "capture"}
  /\ stage \in {"", "WAIT_DEPTH", "REBUILD", "RELEASING", "DONE"}
  /\ pending_terminal \in {"", "PAUSED", "CANCELED", "FAILED"}
  /\ nav \in {"idle", "waiting", "active"}
  /\ nav_success \in BOOLEAN /\ cancel_requested \in BOOLEAN /\ cancel_sent \in BOOLEAN
  /\ goal \in {"none", "sent", "refused", "live", "succeeded", "failed"}
  /\ pending \in [do: {"none", "hold", "release", "servo"}, to: {Forward, View},
                  stale: BOOLEAN, answer: {"none", "waiting", "yes", "no"}]
  /\ late \in {"none", "hold", "release"}
  /\ held \in BOOLEAN /\ board \in {Forward, View} /\ depth \in BOOLEAN
  /\ driver \in [held: BOOLEAN, board: {Forward, View},
                 life: {"up", "silent", "restarted", "unnoticed"}]
  /\ driving \in BOOLEAN /\ still \in BOOLEAN /\ place \in {"there", "pushed", "away"}

-----------------------------------------------------------------------------
(* Helpers *)

(* A new operation makes the answer to an older release count for nothing.     *)
Stale(request) == [request EXCEPT !.stale = request.do = "release"]

(* call(): one request at a time. *)
Ask(what, to) ==
  /\ pending = NoRequest
  /\ pending' = [do |-> what, to |-> to, stale |-> FALSE, answer |-> "waiting"]
  /\ UNCHANGED late

(* The odometry is looked at nowhere. *)
HealthUnseen == TRUE

(* base_health(): the odometry, which the driver sends, is not older than 0.3 s.  *)
Healthy == driver.life # "silent"

(* A velocity of zero reaches the wheels only through the driver.              *)
Stops == driving' = (driving /\ driver.life = "silent")

(* A halt() that leaves a goal alone whose handle has not come yet.           *)
HaltForgetsWaiting(request) ==
  /\ depth' = FALSE /\ pending' = Stale(request)
  /\ cancel_sent' = (cancel_sent \/ (nav = "active" /\ ~cancel_requested))
  /\ cancel_requested' = (nav = "active")
  /\ Stops

(* halt(): shuts the depth gate, ends the operation, cancels the goal when its  *)
(* handle is there, else notes that it has to be cancelled, and stops.         *)
Halt(request) ==
  /\ depth' = FALSE /\ pending' = Stale(request)
  /\ cancel_sent' = (cancel_sent \/ (nav = "active" /\ ~cancel_requested))
  /\ cancel_requested' = TRUE
  /\ Stops

(* What a throw in tick() does to a run that is not over: everything halts.    *)
Fails(request) ==
  IF phase = "RUNNING"
  THEN /\ Halt(request)
       /\ phase' = "CANCELED" /\ started' = FALSE
       /\ pending_terminal' = "FAILED" /\ overdue' = FALSE /\ status' = "STOPPING"
  ELSE /\ depth' = FALSE /\ pending' = request
       /\ UNCHANGED <<phase, started, pending_terminal, overdue, status, cancel_requested,
                      cancel_sent, driving>>

-----------------------------------------------------------------------------
(* The operator *)

Start ==
  /\ phase \notin {"RUNNING", "PAUSED"} /\ pending_terminal = ""
  /\ pending = NoRequest /\ nav = "idle" /\ Healthy
  /\ phase' = "RUNNING" /\ status' = "RUNNING"
  /\ point' = 1 /\ approach' = 1 /\ captures' = {} /\ missed' = {}
  /\ node' = "restore" /\ started' = FALSE /\ place' = "away"
  /\ UNCHANGED <<operation, stage, overdue, pending_terminal, action, server, wire, belief,
                 driver, driving, still>>

(* executor_.pause() halts the tree, which calls halt() if a child was running. *)
Pause ==
  /\ phase = "RUNNING" /\ BetweenTicks
  /\ phase' = "PAUSED" /\ status' = "PAUSING"
  /\ pending_terminal' = "PAUSED" /\ overdue' = FALSE
  /\ IF started THEN Halt(pending)
     ELSE UNCHANGED <<depth, pending, cancel_sent, cancel_requested, driving>>
  /\ started' = FALSE
  /\ UNCHANGED <<mission, node, operation, stage, nav, nav_success, goal, late, held, board,
                 driver, still, place>>

Cancel ==
  /\ phase \in {"RUNNING", "PAUSED"} /\ BetweenTicks
  /\ phase' = "CANCELED" /\ status' = "CANCELING"
  /\ pending_terminal' = "CANCELED" /\ overdue' = FALSE
  /\ Halt(pending) /\ started' = FALSE
  /\ UNCHANGED <<mission, node, operation, stage, nav, nav_success, goal, late, held, board,
                 driver, still, place>>

Resume ==
  /\ phase = "PAUSED" /\ status = "PAUSED" /\ pending_terminal = ""
  /\ nav = "idle" /\ pending = NoRequest /\ held /\ still /\ Healthy
  /\ phase' = "RUNNING" /\ status' = "RUNNING"
  /\ node' = "restore" /\ started' = FALSE
  /\ UNCHANGED <<mission, operation, stage, overdue, pending_terminal, action, server, wire,
                 belief, driver, car>>

-----------------------------------------------------------------------------
(* tick(): the tree *)

Running(child) == phase = "RUNNING" /\ started /\ node = child /\ Healthy

Following ==
  CASE node = "restore" -> "navigate"
    [] node = "navigate" -> "stop"
    [] node = "stop" -> IF Parking THEN "end" ELSE "adjust"
    [] node = "adjust" -> "capture"
    [] node = "capture" -> "return"
    [] node = "return" -> "end"

(* The child has succeeded: the next one, or the next point, or the end.      *)
Succeeds ==
  /\ started' = FALSE
  /\ IF Following # "end"
     THEN node' = Following /\ UNCHANGED <<phase, status, point, approach, place>>
     ELSE /\ node' = "restore"
          /\ IF Parking
             THEN phase' = "SUCCEEDED" /\ status' = "SUCCEEDED" /\ UNCHANGED <<point, approach, place>>
             ELSE /\ point' = point + 1 /\ approach' = 1 /\ place' = "away"
                  /\ UNCHANGED <<phase, status>>
  /\ UNCHANGED <<missed, operation, overdue, pending_terminal, action, server, late, held, board,
                 driver, driving, still>>

(* A point whose photo is taken is passed over, but for the camera.           *)
Skip ==
  /\ phase = "RUNNING" /\ ~started /\ Captured /\ Kind # "restore"
  /\ Succeeds
  /\ UNCHANGED <<captures, stage, pending, depth>>

(* step() with start: a new operation with its own time.                     *)
StartChild ==
  /\ phase = "RUNNING" /\ ~started /\ ~(Captured /\ Kind # "restore") /\ Kind # "navigate"
  /\ operation' = Kind /\ stage' = "" /\ overdue' = FALSE
  /\ pending' = Stale(pending) /\ started' = TRUE
  /\ UNCHANGED <<phase, mission, status, node, pending_terminal, action, server, late, belief,
                 driver, car>>

MayNavigate == ~held /\ depth /\ nav = "idle" /\ Healthy

(* start_navigation() *)
StartNavigate ==
  /\ phase = "RUNNING" /\ ~started /\ node = "navigate" /\ ~Captured /\ MayNavigate
  /\ operation' = "navigate" /\ stage' = "" /\ overdue' = FALSE
  /\ pending' = Stale(pending) /\ started' = TRUE
  /\ nav' = "waiting" /\ nav_success' = FALSE /\ cancel_requested' = FALSE
  /\ goal' = "sent" /\ cancel_sent' = FALSE
  /\ UNCHANGED <<phase, mission, status, node, pending_terminal, late, belief, driver, car>>

(* Steps that may take as long as they like. *)
MustThrowPatient ==
  \/ started /\ ~Healthy
  \/ Running("capture") /\ ~(held /\ still)
  \/ ~started /\ node = "navigate" /\ ~Captured /\ ~MayNavigate

(* Every step needs the odometry, and every step but navigate has a limit; a    *)
(* photo needs the car held and still; a navigation needs the camera back and   *)
(* the last one over.                                                       *)
MustThrow ==
  \/ started /\ ~Healthy
  \/ started /\ overdue /\ node # "navigate"
  \/ Running("capture") /\ ~(held /\ still)
  \/ ~started /\ node = "navigate" /\ ~Captured /\ ~MayNavigate

Throw ==
  /\ phase = "RUNNING" /\ Fails(pending)
  /\ UNCHANGED <<mission, node, operation, stage, nav, nav_success, goal, late, held, board,
                 driver, still, place>>

StepMustThrow == MustThrow /\ Throw

(* The localisation, a sensor, the disk, an interface: any step may throw.     *)
StepThrows == ~MustThrow /\ Throw

Acquire(child) ==
  /\ Running(child) /\ ~overdue /\ ~held /\ Ask("hold", Forward)
  /\ UNCHANGED <<phase, mission, status, tree, overdue, pending_terminal, action, server,
                 belief, driver, car>>

StopStep ==
  /\ Running("stop") /\ ~overdue /\ pending = NoRequest
  /\ held /\ still /\ nav = "idle"
  /\ Succeeds
  /\ UNCHANGED <<captures, stage, pending, depth>>

Positioned(child) ==
  Running(child) /\ ~overdue /\ pending = NoRequest /\ held /\ still /\ stage # "DONE"

(* One command of the way to the target; the gate is shut first.              *)
Turn(child) ==
  /\ Positioned(child) /\ board # Target
  /\ depth' = FALSE
  /\ Ask("servo", Target)
  /\ UNCHANGED <<phase, mission, status, tree, overdue, pending_terminal, action, server, held,
                 board, driver, car>>

Adjusted ==
  /\ Positioned("adjust") /\ board = View
  /\ depth' = FALSE
  /\ Succeeds
  /\ UNCHANGED <<captures, stage, pending>>

(* The camera is back: depth data again, both costmaps cleared and rebuilt from *)
(* it, then the driver lets the car go.                                       *)
Reopen(child) ==
  /\ Positioned(child) /\ board = Forward
  /\ \/ stage = "" /\ stage' = "WAIT_DEPTH" /\ depth' = TRUE /\ UNCHANGED wire
     \/ stage = "WAIT_DEPTH" /\ stage' = "REBUILD" /\ UNCHANGED <<depth, wire>>
     \/ stage = "REBUILD" /\ stage' = "RELEASING" /\ Ask("release", Forward) /\ UNCHANGED depth
  /\ UNCHANGED <<phase, mission, status, node, started, operation, overdue, pending_terminal,
                 action, server, held, board, driver, car>>

Restored(child) ==
  /\ Running(child) /\ ~overdue /\ stage = "DONE"
  /\ Succeeds
  /\ UNCHANGED <<captures, stage, pending, depth>>

(* The pose is compared with the target once more. *)
Arrives ==
  /\ Running("navigate") /\ ~overdue /\ nav = "idle" /\ nav_success /\ place = "there"
  /\ Succeeds
  /\ UNCHANGED <<captures, stage, pending, depth>>

(* An executor that forgets to note the point.                               *)
NextSpotUnnoted ==
  /\ started' = FALSE /\ node' = "restore" /\ place' = "away"
  /\ IF approach < SpotCount
     THEN approach' = approach + 1 /\ UNCHANGED point
     ELSE approach' = 1 /\ point' = point + 1
  /\ UNCHANGED <<phase, captures, missed, status, operation, stage, overdue, pending_terminal,
                 action, server, wire, belief, driver, driving, still>>

(* A spot that was not reached within 180 s, or at all: the executor takes the  *)
(* next spot, or notes the point as missed.  Nothing is halted.               *)
NextSpot ==
  /\ started' = FALSE /\ node' = "restore" /\ place' = "away"
  /\ IF approach < SpotCount
     THEN approach' = approach + 1 /\ UNCHANGED <<point, missed>>
     ELSE approach' = 1 /\ point' = point + 1 /\ missed' = missed \cup {point}
  /\ UNCHANGED <<phase, captures, status, operation, stage, overdue, pending_terminal, action,
                 server, wire, belief, driver, driving, still>>

NavigationFails ==
  /\ Running("navigate") /\ (overdue \/ nav = "idle")
  /\ IF Parking THEN Throw ELSE NextSpot

Capture ==
  /\ Running("capture") /\ ~overdue /\ held /\ still
  /\ captures' = captures \cup {point}
  /\ Succeeds
  /\ UNCHANGED <<stage, pending, depth>>

Tree ==
  \/ Skip \/ StartChild \/ StartNavigate \/ StepMustThrow
  \/ \E child \in {"restore", "stop", "adjust", "return"} : Acquire(child)
  \/ \E child \in {"restore", "adjust", "return"} : Turn(child)
  \/ \E child \in {"restore", "return"} : Reopen(child) \/ Restored(child)
  \/ StopStep \/ Adjusted \/ Arrives \/ NavigationFails \/ Capture

-----------------------------------------------------------------------------
(* tick(): the request at the driver *)

Released ==
  /\ held' = FALSE
  /\ stage' = IF pending.stale THEN stage ELSE "DONE"

(* The answer carries the driver's board command as it was when it was given.   *)
PollAnswer ==
  /\ BetweenTicks /\ pending.answer = "yes"
  /\ pending' = NoRequest /\ board' = pending.to
  /\ \/ pending.do = "hold" /\ held' = TRUE /\ UNCHANGED stage
     \/ pending.do = "release" /\ Released
     \/ pending.do = "servo" /\ UNCHANGED <<held, stage>>
  /\ UNCHANGED <<phase, mission, status, node, started, operation, overdue, pending_terminal,
                 action, server, late, depth, driver, car>>

(* require(result->accepted ...) *)
PollRefused ==
  /\ BetweenTicks /\ pending.answer = "no"
  /\ Fails(NoRequest)
  /\ UNCHANGED <<mission, node, operation, stage, nav, nav_success, goal, late, held, board,
                 driver, still, place>>

(* 1.5 s without an answer: the request is given up, wherever it is.  A servo   *)
(* command is too old by then for the driver to obey.                        *)
PollTimesOut ==
  /\ BetweenTicks /\ pending # NoRequest
  /\ late' = IF pending.answer = "waiting" /\ pending.do # "servo" THEN pending.do ELSE late
  /\ Fails(NoRequest)
  /\ UNCHANGED <<mission, node, operation, stage, nav, nav_success, goal, held, board, driver,
                 still, place>>

Poll == PollAnswer \/ PollRefused \/ PollTimesOut

-----------------------------------------------------------------------------
(* tick(): what is to end *)

Settled == held /\ still /\ nav = "idle" /\ pending = NoRequest

SettleHolds ==
  /\ pending_terminal # "" /\ ~held /\ Ask("hold", Forward)
  /\ UNCHANGED <<phase, mission, status, tree, overdue, pending_terminal, action, server,
                 belief, driver, car>>

Ends(word) ==
  /\ pending_terminal' = "" /\ status' = word
  /\ UNCHANGED <<phase, mission, tree, overdue, action, server, wire, belief, driver, car>>

(* A settlement that does not wait for the action. *)
ConcludeEarly ==
  /\ pending_terminal # "" /\ held /\ still /\ pending = NoRequest
  /\ Ends(pending_terminal)

(* The car is held and still, and the goal is over (a failure sounds the alarm  *)
(* for 3 s first).                                                           *)
Conclude == pending_terminal # "" /\ Settled /\ Ends(pending_terminal)

(* A settlement without a limit. *)
LockNever == FALSE /\ Ends("LOCKED")

(* 10 s without that. *)
Lock == pending_terminal # "" /\ ~Settled /\ overdue /\ Ends("LOCKED")

(* hold() throws, because the driver's service is away: after 10 s the end is    *)
(* forgotten without a word in the record.                                    *)
Forget ==
  /\ pending_terminal # "" /\ ~held /\ pending = NoRequest /\ overdue
  /\ Ends(status)

(* tick() finds another publisher on /cmd_vel, and the console not holding.    *)
OutletLost ==
  /\ BetweenTicks /\ ~held /\ Ask("hold", Forward)
  /\ UNCHANGED <<phase, mission, status, tree, overdue, pending_terminal, action, server,
                 belief, driver, car>>

(* The velocity of the navigation is passed on. *)
Drive ==
  /\ phase = "RUNNING" /\ BetweenTicks /\ operation = "navigate" /\ nav = "active"
  /\ ~held /\ depth /\ pending_terminal = "" /\ Healthy
  /\ ~driver.held
  /\ driving' = TRUE /\ still' = FALSE /\ place' = "away"
  /\ UNCHANGED <<phase, mission, status, tree, overdue, pending_terminal, action, server, wire,
                 belief, driver>>

Zero ==
  /\ driving /\ Stops
  /\ UNCHANGED <<phase, mission, status, tree, overdue, pending_terminal, action, server, wire,
                 belief, driver, still, place>>

TimePasses ==
  /\ ~overdue /\ (started \/ pending_terminal # "")
  /\ overdue' = TRUE
  /\ UNCHANGED <<phase, mission, status, tree, pending_terminal, action, server, wire, belief,
                 driver, car>>

(* The goal's handle, or its refusal, and its result reach the console.         *)
Response ==
  /\ BetweenTicks /\ nav = "waiting" /\ goal # "sent"
  /\ IF goal = "refused"
     THEN nav' = "idle" /\ nav_success' = FALSE /\ goal' = "none" /\ UNCHANGED cancel_sent
     ELSE nav' = "active" /\ cancel_sent' = cancel_requested /\ UNCHANGED <<nav_success, goal>>
  /\ UNCHANGED <<phase, mission, status, tree, overdue, pending_terminal, cancel_requested, wire,
                 belief, driver, car>>

Result ==
  /\ BetweenTicks /\ nav = "active" /\ goal \in {"succeeded", "failed"}
  /\ nav' = "idle" /\ nav_success' = (goal = "succeeded") /\ goal' = "none"
  /\ UNCHANGED <<phase, mission, status, tree, overdue, pending_terminal, cancel_requested,
                 cancel_sent, wire, belief, driver, car>>

-----------------------------------------------------------------------------
(* The Nav2 server, the chassis driver and the car *)

Nav2 ==
  /\ \/ goal = "sent" /\ goal' \in {"live", "refused"} /\ UNCHANGED place
     \/ goal = "live" /\ goal' = "failed" /\ UNCHANGED place
     \/ goal = "live" /\ goal' = "succeeded" /\ place' \in {"there", "away"}
  /\ UNCHANGED <<phase, mission, status, tree, overdue, pending_terminal, action, cancel_sent,
                 wire, belief, driver, driving, still>>

(* A driver that releases the car whatever the camera looks at.               *)
MayReleaseAnyhow == driver.life = "up"

MayRelease == driver.life = "up" /\ (driver.held => driver.board = Forward)

(* _on_inspection_hold() and _on_inspection_servo(): what one request does, and *)
(* how it is answered.                                                       *)
Obeys(what, to, word) ==
  \/ /\ what = "hold" /\ driver.life = "up" /\ word = "yes"
     /\ driver' = [driver EXCEPT !.held = TRUE] /\ driving' = FALSE
  \/ /\ what = "release" /\ MayRelease /\ word = "yes"
     /\ driver' = [driver EXCEPT !.held = FALSE] /\ driving' = FALSE
  \/ /\ what = "servo" /\ driver.life = "up" /\ driver.held /\ driver.board = board
     /\ word = "yes" /\ driver' = [driver EXCEPT !.board = to] /\ UNCHANGED driving
  \/ /\ word = "no"
     /\ what = "hold" => driver.life # "up"
     /\ what = "release" => ~MayRelease
     /\ UNCHANGED <<driver, driving>>

DriverServes ==
  /\ pending.answer = "waiting" /\ (late = "none" \/ pending.do = "servo")
  /\ driver.life # "silent"
  /\ \E word \in {"yes", "no"} :
       /\ Obeys(pending.do, pending.to, word)
       /\ pending' = [pending EXCEPT !.answer = word, !.to = driver'.board]
  /\ UNCHANGED <<phase, mission, status, tree, overdue, pending_terminal, action, server, late,
                 belief, still, place>>

DriverServesLate ==
  /\ late # "none" /\ late' = "none" /\ driver.life # "silent"
  /\ \E word \in {"yes", "no"} : Obeys(late, Forward, word)
  /\ UNCHANGED <<phase, mission, status, tree, overdue, pending_terminal, action, server, pending,
                 belief, still, place>>

(* The driver is gone and its odometry is missed: nothing is served or passed on. *)
DriverFallsSilent ==
  /\ driver.life # "silent" /\ driver' = [driver EXCEPT !.life = "silent"]
  /\ driving' \in {driving, FALSE} /\ still' = FALSE
  /\ UNCHANGED <<phase, mission, status, tree, overdue, pending_terminal, action, server, wire,
                 belief, place>>

(* A new epoch: the driver has no owner, stops the car and sends 94 to the servo. *)
Restarts(life) ==
  /\ driver' = [held |-> FALSE, board |-> Forward, life |-> life] /\ driving' = FALSE
  /\ UNCHANGED <<phase, mission, status, tree, overdue, pending_terminal, action, server, wire,
                 belief, still, place>>

(* It is back once it was missed, so late that the tree, if it is being ticked, *)
(* has looked at the odometry in between and found nothing to throw for.       *)
DriverStarts ==
  /\ driver.life = "silent" /\ (phase = "RUNNING" => started /\ ~MustThrow)
  /\ Restarts("restarted")

(* It is back before it is missed. *)
DriverBackUnnoticed ==
  /\ driver.life = "up"
  /\ Restarts(IF phase = "RUNNING" THEN "unnoticed" ELSE "restarted")

Stands ==
  /\ ~still /\ ~driving /\ driver.life # "silent" /\ still' = TRUE
  /\ UNCHANGED <<phase, mission, status, tree, overdue, pending_terminal, action, server, wire,
                 belief, driver, driving, place>>

(* The car is bumped, and perhaps pushed off its spot, or the odometry wavers.   *)
Bump ==
  /\ still' = FALSE /\ place' \in {place, IF place = "there" THEN "pushed" ELSE place}
  /\ UNCHANGED <<phase, mission, status, tree, overdue, pending_terminal, action, server, wire,
                 belief, driver, driving>>

-----------------------------------------------------------------------------
Init ==
  /\ phase = "IDLE" /\ status = "none"
  /\ point = 1 /\ approach = 1 /\ captures = {} /\ missed = {}
  /\ node = "restore" /\ started = FALSE /\ operation = "" /\ stage = ""
  /\ overdue = FALSE /\ pending_terminal = ""
  /\ nav = "idle" /\ nav_success = FALSE /\ cancel_requested = FALSE
  /\ goal = "none" /\ cancel_sent = FALSE
  /\ pending = NoRequest /\ late = "none"
  /\ held = TRUE /\ board = Forward /\ depth = TRUE
  /\ driver = [held |-> TRUE, board |-> Forward, life |-> "up"]
  /\ driving = FALSE /\ still = TRUE /\ place = "away"

Settle == Conclude \/ Lock

Next ==
  \/ Start \/ Pause \/ Cancel \/ Resume
  \/ Tree \/ StepThrows \/ Poll \/ SettleHolds \/ Settle \/ Forget \/ OutletLost
  \/ Drive \/ Zero \/ TimePasses
  \/ Response \/ Result \/ Nav2 \/ DriverServes \/ DriverServesLate
  \/ DriverFallsSilent \/ DriverStarts \/ DriverBackUnnoticed
  \/ Stands \/ Bump

(* The console's timer runs and time passes.  Neither Nav2 nor the driver owes   *)
(* an answer, nor the car to stand.  Every tick settles what it can, however      *)
(* the odometry wavers, after it has asked for the hold once more.             *)
Spec ==
  /\ Init /\ [][Next]_vars
  /\ WF_vars(Tree) /\ WF_vars(Poll) /\ SF_vars(Settle) /\ WF_vars(TimePasses)

-----------------------------------------------------------------------------
(* Properties *)

(* What is recorded as paused, cancelled, failed or succeeded is over: no goal  *)
(* is on its way to Nav2 or running there, and the car is not being driven.     *)
EndedIsStopped ==
  status \in {"PAUSED", "CANCELED", "FAILED", "SUCCEEDED"} => goal = "none" /\ ~driving

(* A run that has succeeded has a photo of each point, or says it is missing.  *)
EveryPointAccountedFor ==
  status = "SUCCEEDED" =>
    captures \cup missed = Points /\ captures \cap missed = {}

(* A photo is taken where its point's spot is, with the car still, held by the    *)
(* driver and the camera turned, whatever was late or lost on the way.  The car   *)
(* was driven to the spot and not driven since; a push in between is not looked   *)
(* for.  A driver that restarts is found out by its silence, unless it is back    *)
(* before its odometry is missed: then the camera may look ahead, and nothing     *)
(* hold the car.                                                            *)
PhotoIsOfItsPoint ==
  [][captures' # captures /\ captures' # {} =>
       /\ place \in {"there", "pushed"} /\ still /\ ~driving
       /\ driver.life # "unnoticed" => driver.held /\ driver.board = View]_vars

(* The car is never driven while the camera looks away from the way, or is     *)
(* about to.                                                                *)
DrivesLookingForward ==
  driving => driver.board = Forward /\ ~(pending.do = "servo" /\ pending.answer = "waiting")

(* A run that was cancelled or has failed leaves no goal running without having *)
(* asked Nav2 to cancel it, whenever the goal's handle comes in.              *)
CancelReachesGoal ==
  pending_terminal \in {"CANCELED", "FAILED"} /\ nav = "active" => cancel_sent

(* A pause, a cancellation or a failure comes to an end, whatever Nav2, the      *)
(* driver and the odometry do.                                               *)
StopIsSettled == pending_terminal # "" ~> pending_terminal = ""

(* A run does not hang: in bounded time it is over, paused or locked.          *)
RunEnds == phase = "RUNNING" ~> phase # "RUNNING"

(* "Navigation failed, refused or timed out: cancel this spot and try the next": *)
(* when the run turns to another spot, no goal is left that is not cancelled.   *)
GivenUpIsCancelled ==
  phase = "RUNNING" /\ Kind = "restore" => nav = "idle" \/ cancel_requested
=============================================================================
