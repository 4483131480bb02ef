-------------------------- MODULE InspectionRun_proof --------------------------
(***************************************************************************)
(* Proofs about one automatic inspection, for any number of points and        *)
(* parking spots, and whatever Nav2, the chassis driver and the car do.        *)
(***************************************************************************)
EXTENDS InspectionRun, TLAPS

DriverRequest ==
  [do: {"none", "hold", "release", "servo"}, to: {Forward, View}, stale: BOOLEAN,
   answer: {"none", "waiting", "yes", "no"}]

Driver ==
  [held: BOOLEAN, board: {Forward, View}, life: {"up", "silent", "restarted", "unnoticed"}]

(* The types, in the groups the steps change them.                            *)
MissionTyped ==
  /\ phase \in {"IDLE", "RUNNING", "PAUSED", "SUCCEEDED", "CANCELED"}
  /\ point \in 1..PointCount + 1 /\ approach \in 1..SpotCount
  /\ captures \subseteq Points /\ missed \subseteq Points
  /\ status \in {"none", "RUNNING", "PAUSING", "PAUSED", "CANCELING", "CANCELED", "STOPPING",
                 "FAILED", "SUCCEEDED", "LOCKED"}

TreeTyped ==
  /\ node \in {"restore", "navigate", "stop", "adjust", "capture", "return"}
  /\ started \in BOOLEAN /\ overdue \in BOOLEAN
  /\ operation \in {"", "restore", "navigate", "stop", "adjust", "capture"}
  /\ stage \in {"", "WAIT_DEPTH", "REBUILD", "RELEASING", "DONE"}
  /\ pending_terminal \in {"", "PAUSED", "CANCELED", "FAILED"}

ActionTyped ==
  /\ nav \in {"idle", "waiting", "active"}
  /\ nav_success \in BOOLEAN /\ cancel_requested \in BOOLEAN /\ cancel_sent \in BOOLEAN
  /\ goal \in {"none", "sent", "refused", "live", "succeeded", "failed"}

WireTyped ==
  /\ pending \in DriverRequest
  /\ late \in {"none", "hold", "release"}
  /\ held \in BOOLEAN /\ board \in {Forward, View} /\ depth \in BOOLEAN

CarTyped ==
  /\ driver \in Driver
  /\ driving \in BOOLEAN /\ still \in BOOLEAN /\ place \in {"there", "pushed", "away"}

Typed == MissionTyped /\ TreeTyped /\ ActionTyped /\ WireTyped /\ CarTyped

(* The driver lets the car go only with the camera forward; a car that is driven   *)
(* is let go, and moves; the console turns the camera only when the car stands    *)
(* and it believes that it holds it, which is not always true.                   *)
CarIsHeld ==
  /\ ~driver.held => driver.board = Forward
  /\ driving => ~driver.held /\ ~still /\ pending.do # "servo"
  /\ pending.do = "servo" => held

(* How the phase, the record and what is to end belong together.               *)
RunState ==
  /\ nav = "idle" => goal = "none"
  /\ started => phase = "RUNNING"
  /\ phase = "RUNNING" => status = "RUNNING" /\ pending_terminal = ""
  /\ pending_terminal # "" => status \in {"PAUSING", "CANCELING", "STOPPING"}
  /\ status \in {"PAUSED", "CANCELED", "FAILED", "SUCCEEDED"} => nav = "idle" /\ ~driving

(* A goal that is to be cancelled is cancelled as soon as its handle is there.   *)
Cancelling ==
  /\ nav = "active" /\ cancel_requested => cancel_sent
  /\ pending_terminal \in {"CANCELED", "FAILED"} => cancel_requested

(* The points before this one have a photo or are missed; this one is not missed, *)
(* and it has a photo only once its child for that has run.                      *)
Accounts ==
  /\ 1..(point - 1) \subseteq captures \cup missed
  /\ captures \cap missed = {} /\ missed \subseteq 1..(point - 1)
  /\ captures \subseteq 1..point
  /\ status = "SUCCEEDED" => Parking
  /\ Parking => node \in {"restore", "navigate", "stop"}
  /\ node = "return" => Captured
  /\ started /\ Kind # "restore" => ~Captured

(* From the arrival to the photo no goal is left that could drive the car away,   *)
(* and once the camera is turned no request that could turn it back.             *)
OnTheSpot ==
  /\ node \in {"stop", "adjust", "capture"} /\ ~Captured =>
       nav = "idle" /\ place \in {"there", "pushed"}
  /\ node = "capture" /\ ~Captured => held /\ board = View /\ pending = NoRequest

Inv == CarIsHeld /\ RunState /\ Cancelling /\ Accounts /\ OnTheSpot

LEMMA TypedIsTypeOK == Typed <=> TypeOK
  BY Zenon DEF Typed, MissionTyped, TreeTyped, ActionTyped, WireTyped, CarTyped, TypeOK,
               DriverRequest, Driver

(* Requests to the driver. *)
LEMMA RequestLemma ==
  /\ NoRequest \in DriverRequest /\ NoRequest.do = "none" /\ NoRequest.answer = "none"
  /\ Stale(NoRequest) = NoRequest
<1>1. NoRequest \in DriverRequest /\ NoRequest.do = "none" /\ NoRequest.answer = "none"
  BY DEF NoRequest, DriverRequest
<1>2. [NoRequest EXCEPT !.stale = FALSE] = NoRequest
  <2>1. NoRequest = [do |-> "none", to |-> Forward, stale |-> FALSE, answer |-> "none"]
    BY DEF NoRequest
  <2>2. PICK f : f = NoRequest
    OBVIOUS
  <2>3. f.stale = FALSE /\ f = [f EXCEPT !.stale = f.stale]
    BY <2>1, <2>2
  <2> QED
    BY <2>2, <2>3
<1>3. (NoRequest.do = "release") = FALSE
  BY <1>1
<1> QED
  BY <1>1, <1>2, <1>3 DEF Stale

LEMMA StaleLemma ==
  ASSUME NEW request \in DriverRequest
  PROVE  /\ Stale(request) \in DriverRequest /\ Stale(request).do = request.do
         /\ Stale(request).answer = request.answer /\ Stale(request).to = request.to
<1>1. PICK b \in BOOLEAN : b = (request.do = "release")
  OBVIOUS
<1>2. Stale(request) = [request EXCEPT !.stale = b]
  BY <1>1 DEF Stale
<1> QED
  BY <1>2 DEF DriverRequest

LEMMA AnswerLemma ==
  ASSUME NEW request \in DriverRequest, NEW word \in {"yes", "no"}, NEW b \in {Forward, View}
  PROVE  /\ [request EXCEPT !.answer = word, !.to = b] \in DriverRequest
         /\ [request EXCEPT !.answer = word, !.to = b].do = request.do
  BY DEF DriverRequest

LEMMA AskLemma ==
  ASSUME NEW what \in {"hold", "release", "servo"}, NEW to \in {Forward, View}, Ask(what, to)
  PROVE  /\ pending' \in DriverRequest /\ pending'.do = what /\ pending'.answer = "waiting"
         /\ late' = late /\ pending = NoRequest
  BY DEF Ask, DriverRequest

-----------------------------------------------------------------------------
LEMMA Counts ==
  /\ PointCount \in Nat /\ PointCount >= 1 /\ SpotCount \in Nat /\ SpotCount >= 1
  /\ 1 \in 1..PointCount + 1 /\ 1 \in 1..SpotCount /\ 1..(1 - 1) = {}
  BY CountsAssumption

LEMMA PointLemma ==
  ASSUME NEW p \in Nat, p >= 1
  PROVE  /\ (p + 1) - 1 = p /\ 1..p = 1..(p - 1) \cup {p} /\ p \notin 1..(p - 1)
         /\ 1..p \subseteq 1..(p + 1)
  OBVIOUS

LEMMA InitInv == Init => Typed /\ Inv
<1> SUFFICES ASSUME Init PROVE Typed /\ Inv
  OBVIOUS
<1>1. MissionTyped /\ TreeTyped
  BY Counts DEF Init, MissionTyped, TreeTyped
<1>2. ActionTyped /\ WireTyped
  BY RequestLemma DEF Init, ActionTyped, WireTyped
<1>3. CarTyped
  BY DEF Init, CarTyped, Driver
<1>4. CarIsHeld /\ RunState /\ Cancelling
  BY RequestLemma DEF Init, CarIsHeld, RunState, Cancelling
<1>5. Accounts /\ OnTheSpot
  BY Counts DEF Init, Accounts, OnTheSpot, Parking, Captured, Kind
<1> QED
  BY <1>1, <1>2, <1>3, <1>4, <1>5 DEF Typed, Inv

LEMMA GroupsTyped ==
  ASSUME MissionTyped', TreeTyped', ActionTyped', WireTyped', CarTyped' PROVE Typed'
  BY DEF Typed

LEMMA StartKeeps == ASSUME Typed, Inv, Start PROVE Typed' /\ Inv'
<1> USE DEF Start, mission, action, server, wire, belief
<1>1. MissionTyped'
  BY Counts DEF Typed, MissionTyped
<1>2. TreeTyped'
  BY DEF Typed, TreeTyped
<1>3. ActionTyped' /\ WireTyped'
  BY DEF Typed, ActionTyped, WireTyped
<1>4. CarTyped'
  BY DEF Typed, CarTyped
<1>5. CarIsHeld' /\ RunState' /\ Cancelling'
  BY DEF Inv, CarIsHeld, RunState, Cancelling
<1>6. Accounts' /\ OnTheSpot'
  BY Counts DEF Accounts, OnTheSpot, Parking, Captured, Kind
<1> QED
  BY <1>1, <1>2, <1>3, <1>4, <1>5, <1>6, GroupsTyped DEF Inv

LEMMA ResumeKeeps == ASSUME Typed, Inv, Resume PROVE Typed' /\ Inv'
<1> USE DEF Resume, mission, action, server, wire, belief, car
<1>1. MissionTyped'
  BY DEF Typed, MissionTyped
<1>2. TreeTyped'
  BY DEF Typed, TreeTyped
<1>3. ActionTyped' /\ WireTyped'
  BY DEF Typed, ActionTyped, WireTyped
<1>4. CarTyped'
  BY DEF Typed, CarTyped
<1>5. CarIsHeld' /\ RunState' /\ Cancelling'
  BY DEF Inv, CarIsHeld, RunState, Cancelling
<1>6. Accounts' /\ OnTheSpot'
  BY DEF Inv, Accounts, OnTheSpot, Parking, Captured, Kind
<1> QED
  BY <1>1, <1>2, <1>3, <1>4, <1>5, <1>6, GroupsTyped DEF Inv

-----------------------------------------------------------------------------
(* What stops a run, or comes after it: an operator, a step that throws, a        *)
(* request that is refused or not answered.                                    *)
Halting ==
  /\ UNCHANGED <<mission, node, operation, stage, nav, nav_success, goal, held, board, driver,
                 still, place>>
  /\ phase' \in {"IDLE", "PAUSED", "SUCCEEDED", "CANCELED"} /\ ~started'
  /\ \/ /\ status' \in {"PAUSING", "CANCELING", "STOPPING"}
        /\ pending_terminal' \in {"PAUSED", "CANCELED", "FAILED"}
     \/ UNCHANGED <<status, pending_terminal>> /\ phase # "RUNNING"
  /\ \/ /\ cancel_requested'
        /\ (nav = "active" /\ ~cancel_requested) \/ cancel_sent => cancel_sent'
     \/ /\ UNCHANGED <<cancel_requested, cancel_sent>>
        /\ pending_terminal' \in {"CANCELED", "FAILED"} => pending_terminal' = pending_terminal
  /\ cancel_requested' \in BOOLEAN /\ cancel_sent' \in BOOLEAN
  /\ pending' \in {pending, Stale(pending), NoRequest} /\ late' \in {"none", "hold", "release"}
  /\ pending' = NoRequest \/ late' = late
  /\ depth' \in BOOLEAN /\ overdue' \in BOOLEAN /\ started' \in BOOLEAN
  /\ driving' \in BOOLEAN /\ (driving' => driving)

LEMMA FailsLemma ==
  ASSUME Typed, Inv, NEW request \in {pending, NoRequest}, Fails(request),
         late' \in {"none", "hold", "release"}, request = NoRequest \/ late' = late,
         UNCHANGED <<mission, node, operation, stage, nav, nav_success, goal, held, board, driver,
                     still, place>>
  PROVE  Halting
<1>1. CASE phase = "RUNNING"
  <2>1. Halt(request)
    BY <1>1 DEF Fails
  <2>2. /\ phase' = "CANCELED" /\ started' = FALSE
        /\ pending_terminal' = "FAILED" /\ overdue' = FALSE /\ status' = "STOPPING"
    BY <1>1 DEF Fails
  <2>3. /\ cancel_requested' = TRUE /\ cancel_sent' \in BOOLEAN
        /\ (nav = "active" /\ ~cancel_requested) \/ cancel_sent => cancel_sent'
    BY <2>1 DEF Halt, Typed, ActionTyped
  <2>4. /\ pending' \in {pending, Stale(pending), NoRequest}
        /\ pending' = NoRequest \/ late' = late
    BY <2>1, RequestLemma DEF Halt
  <2>5. depth' = FALSE /\ driving' \in BOOLEAN /\ (driving' => driving)
    BY <2>1 DEF Halt, Stops
  <2> QED
    BY <2>2, <2>3, <2>4, <2>5 DEF Halting
<1>2. CASE phase # "RUNNING"
  <2>1. ~started
    BY <1>2 DEF Inv, RunState
  <2> QED
    BY <1>2, <2>1 DEF Fails, Halting, Typed, MissionTyped, TreeTyped, ActionTyped, CarTyped
<1> QED
  BY <1>1, <1>2

LEMMA HaltingSteps ==
  ASSUME Typed, Inv, Pause \/ Cancel \/ Throw \/ PollRefused \/ PollTimesOut PROVE Halting
<1>1. CASE Pause
  BY <1>1 DEF Pause, Halt, Stops, Halting, Typed, TreeTyped, ActionTyped, WireTyped, CarTyped
<1>2. CASE Cancel
  BY <1>2 DEF Cancel, Halt, Stops, Halting, Typed, TreeTyped, ActionTyped, WireTyped, CarTyped
<1>3. CASE Throw
  BY <1>3, FailsLemma DEF Throw, Typed, WireTyped
<1>4. CASE PollRefused
  BY <1>4, FailsLemma DEF PollRefused, Typed, WireTyped
<1>5. CASE PollTimesOut
  <2>1. late' \in {"none", "hold", "release"}
    BY <1>5, RequestLemma DEF PollTimesOut, Typed, WireTyped, DriverRequest
  <2> QED
    BY <1>5, <2>1, FailsLemma DEF PollTimesOut
<1> QED
  BY <1>1, <1>2, <1>3, <1>4, <1>5

LEMMA HaltingKeeps == ASSUME Typed, Inv, Halting PROVE Typed' /\ Inv'
<1> USE DEF Halting, mission
<1>1. /\ pending' \in DriverRequest /\ pending'.do \in {pending.do, "none"}
      /\ pending = NoRequest => pending' = NoRequest
  BY RequestLemma, StaleLemma DEF Typed, WireTyped
<1>2. MissionTyped'
  BY DEF Typed, MissionTyped
<1>3. TreeTyped'
  BY DEF Typed, TreeTyped
<1>4. ActionTyped' /\ WireTyped' /\ CarTyped'
  BY <1>1 DEF Typed, ActionTyped, WireTyped, CarTyped
<1>5. CarIsHeld' /\ RunState'
  BY <1>1 DEF Inv, CarIsHeld, RunState
<1>6. Cancelling'
  BY DEF Inv, Cancelling
<1>7. Accounts' /\ OnTheSpot'
  BY <1>1 DEF Inv, Accounts, OnTheSpot, Parking, Captured, Kind
<1> QED
  BY <1>2, <1>3, <1>4, <1>5, <1>6, <1>7, GroupsTyped DEF Inv

-----------------------------------------------------------------------------
(* A request to the driver, and the steps between two of them.                  *)
Asking ==
  /\ UNCHANGED <<phase, mission, status, node, started, operation, overdue, pending_terminal,
                 action, server, late, held, board, driver, car>>
  /\ stage' \in {"", "WAIT_DEPTH", "REBUILD", "RELEASING", "DONE"} /\ depth' \in BOOLEAN
  /\ stage' = "DONE" => stage = "DONE"
  /\ \/ pending' = pending
     \/ /\ pending' \in DriverRequest /\ (pending'.do = "servo" => held /\ still)
        /\ node # "capture" \/ ~held
        /\ pending = NoRequest /\ pending'.answer = "waiting"
        /\ pending'.do = "release" => stage' # "DONE" /\ node \in {"restore", "return"}

LEMMA AskingSteps ==
  ASSUME Typed, Inv,
         \/ \E child \in {"restore", "stop", "adjust", "return"} : Acquire(child)
         \/ \E child \in {"restore", "adjust", "return"} : Turn(child)
         \/ \E child \in {"restore", "return"} : Reopen(child)
         \/ SettleHolds \/ OutletLost
  PROVE  Asking
<1> USE DEF belief, tree, wire
<1>1. ASSUME NEW child \in {"restore", "stop", "adjust", "return"}, Acquire(child)
      PROVE  Asking
  <2>1. /\ pending' \in DriverRequest /\ pending'.do = "hold" /\ late' = late
        /\ pending'.answer = "waiting" /\ pending = NoRequest
    BY <1>1, AskLemma DEF Acquire
  <2>2. node # "capture"
    BY <1>1 DEF Acquire, Running
  <2> QED
    BY <1>1, <2>1, <2>2 DEF Acquire, Asking, Typed, TreeTyped, WireTyped
<1>2. ASSUME NEW child \in {"restore", "adjust", "return"}, Turn(child)
      PROVE  Asking
  <2>1. Target \in {Forward, View}
    BY DEF Target
  <2>2. /\ pending' \in DriverRequest /\ pending'.do = "servo" /\ late' = late
        /\ pending'.answer = "waiting" /\ pending = NoRequest
    BY <1>2, <2>1, AskLemma DEF Turn
  <2>3. node # "capture" /\ held /\ still
    BY <1>2 DEF Turn, Positioned, Running
  <2> QED
    BY <1>2, <2>2, <2>3 DEF Turn, Asking, Typed, TreeTyped
<1>3. ASSUME NEW child \in {"restore", "return"}, Reopen(child)
      PROVE  Asking
  <2>1. node \in {"restore", "return"} /\ stage # "DONE"
    BY <1>3 DEF Reopen, Positioned, Running
  <2>2. /\ stage' \in {"WAIT_DEPTH", "REBUILD", "RELEASING"}
        /\ \/ UNCHANGED wire
           \/ /\ pending' \in DriverRequest /\ pending'.do = "release" /\ late' = late
              /\ pending'.answer = "waiting" /\ pending = NoRequest
    BY <1>3, AskLemma DEF Reopen
  <2> QED
    BY <1>3, <2>1, <2>2 DEF Reopen, Asking, Typed, WireTyped
<1>4. CASE SettleHolds
  <2>1. /\ pending' \in DriverRequest /\ pending'.do = "hold" /\ late' = late
        /\ pending'.answer = "waiting" /\ pending = NoRequest
    BY <1>4, AskLemma DEF SettleHolds
  <2> QED
    BY <1>4, <2>1 DEF SettleHolds, Asking, Typed, TreeTyped, WireTyped
<1>5. CASE OutletLost
  <2>1. /\ pending' \in DriverRequest /\ pending'.do = "hold" /\ late' = late
        /\ pending'.answer = "waiting" /\ pending = NoRequest
    BY <1>5, AskLemma DEF OutletLost
  <2> QED
    BY <1>5, <2>1 DEF OutletLost, Asking, Typed, TreeTyped, WireTyped
<1> QED
  BY <1>1, <1>2, <1>3, <1>4, <1>5

LEMMA AskingKeeps == ASSUME Typed, Inv, Asking PROVE Typed' /\ Inv'
<1> USE DEF Asking, mission, action, server, car
<1>1. MissionTyped' /\ CarTyped'
  BY DEF Typed, MissionTyped, CarTyped
<1>2. ActionTyped'
  BY DEF Typed, ActionTyped
<1>3. TreeTyped'
  BY DEF Typed, TreeTyped
<1>4. WireTyped'
  BY DEF Typed, WireTyped
<1>5. CarIsHeld' /\ RunState' /\ Cancelling'
  BY DEF Inv, CarIsHeld, RunState, Cancelling
<1>6. Accounts' /\ OnTheSpot'
  BY DEF Inv, Accounts, OnTheSpot, Parking, Captured, Kind
<1> QED
  BY <1>1, <1>2, <1>3, <1>4, <1>5, <1>6, GroupsTyped DEF Inv

(* A child is started. *)
LEMMA StartChildKeeps == ASSUME Typed, Inv, StartChild PROVE Typed' /\ Inv'
<1> USE DEF StartChild, mission, action, server, belief, car
<1>1. /\ pending' \in DriverRequest /\ pending'.do = pending.do
      /\ pending = NoRequest => pending' = NoRequest
  BY RequestLemma, StaleLemma DEF Typed, WireTyped
<1>2. MissionTyped' /\ CarTyped'
  BY DEF Typed, MissionTyped, CarTyped
<1>3. ActionTyped'
  BY DEF Typed, ActionTyped
<1>4. TreeTyped'
  BY DEF Typed, TreeTyped, Kind
<1>5. WireTyped'
  BY <1>1 DEF Typed, WireTyped
<1>6. CarIsHeld' /\ RunState' /\ Cancelling'
  BY <1>1 DEF Inv, CarIsHeld, RunState, Cancelling
<1>7. Accounts' /\ OnTheSpot'
  BY <1>1 DEF Inv, Accounts, OnTheSpot, Parking, Captured, Kind
<1> QED
  BY <1>2, <1>3, <1>4, <1>5, <1>6, <1>7, GroupsTyped DEF Inv

LEMMA StartNavigateKeeps == ASSUME Typed, Inv, StartNavigate PROVE Typed' /\ Inv'
<1> USE DEF StartNavigate, mission, belief, car
<1>1. /\ pending' \in DriverRequest /\ pending'.do = pending.do
      /\ pending = NoRequest => pending' = NoRequest
  BY RequestLemma, StaleLemma DEF Typed, WireTyped
<1>2. MissionTyped' /\ CarTyped'
  BY DEF Typed, MissionTyped, CarTyped
<1>3. TreeTyped'
  BY DEF Typed, TreeTyped
<1>4. ActionTyped'
  BY DEF ActionTyped
<1>5. WireTyped'
  BY <1>1 DEF Typed, WireTyped
<1>6. CarIsHeld' /\ RunState' /\ Cancelling'
  BY <1>1 DEF Inv, CarIsHeld, RunState, Cancelling
<1>7. Accounts' /\ OnTheSpot'
  BY <1>1 DEF Inv, Accounts, OnTheSpot, Parking, Captured, Kind
<1> QED
  BY <1>2, <1>3, <1>4, <1>5, <1>6, <1>7, GroupsTyped DEF Inv

(* A child has succeeded, or is passed over.                                   *)
Succeeding ==
  /\ phase = "RUNNING" /\ Succeeds /\ UNCHANGED <<stage, pending>> /\ depth' \in BOOLEAN
  /\ captures' = IF node = "capture" THEN captures \cup {point} ELSE captures
  /\ node = "stop" => ~driving \/ ~Parking
  /\ node = "restore" => started /\ stage = "DONE"
  /\ ~Captured => /\ node = "navigate" => nav = "idle" /\ place \in {"there", "pushed"}
                  /\ node = "adjust" => held /\ board = View /\ pending = NoRequest

LEMMA SucceedingSteps ==
  ASSUME Typed, Inv,
         \/ Skip \/ StopStep \/ Adjusted \/ Arrives \/ Capture
         \/ \E child \in {"restore", "return"} : Restored(child)
  PROVE  Succeeding
<1> USE DEF Succeeding, Running, Captured, Parking, Kind
<1>1. CASE Skip
  BY <1>1 DEF Skip, Typed, WireTyped, MissionTyped
<1>2. CASE StopStep
  BY <1>2 DEF StopStep, Typed, WireTyped, Inv, CarIsHeld
<1>3. CASE Adjusted
  BY <1>3 DEF Adjusted, Positioned
<1>4. CASE Arrives
  BY <1>4 DEF Arrives, Typed, WireTyped
<1>5. CASE Capture
  BY <1>5 DEF Capture, Typed, WireTyped
<1>6. CASE \E child \in {"restore", "return"} : Restored(child)
  BY <1>6 DEF Restored, Typed, WireTyped
<1> QED
  BY <1>1, <1>2, <1>3, <1>4, <1>5, <1>6

LEMMA SucceedingKeeps == ASSUME Typed, Inv, Succeeding PROVE Typed' /\ Inv'
<1> USE DEF mission, action, server
<1>1. /\ UNCHANGED <<missed, operation, stage, overdue, pending_terminal, action, server, pending,
                     late, held, board, driver, driving, still>>
      /\ started' = FALSE /\ depth' \in BOOLEAN /\ phase = "RUNNING"
      /\ captures' = IF node = "capture" THEN captures \cup {point} ELSE captures
  BY DEF Succeeding, Succeeds
<1>2. ActionTyped' /\ WireTyped'
  BY <1>1 DEF Typed, ActionTyped, WireTyped
<1>3. CarIsHeld' /\ Cancelling'
  BY <1>1 DEF Inv, CarIsHeld, Cancelling
<1>4. captures' \subseteq Points /\ missed' \subseteq Points
  BY <1>1, Counts DEF Typed, MissionTyped, Inv, Accounts, Parking, Points
<1>5. pending_terminal = "" /\ status = "RUNNING"
  BY <1>1 DEF Inv, RunState
<1>6. point \in Nat /\ point >= 1 /\ point \in 1..point /\ point \notin 1..(point - 1)
  BY Counts DEF Typed, MissionTyped
<1>7. CASE Following # "end"
  <2>1. node' = Following /\ UNCHANGED <<phase, status, point, approach, place>>
    BY <1>7 DEF Succeeding, Succeeds
  <2>2. /\ node = "restore" => node' = "navigate"
        /\ node = "navigate" => node' = "stop"
        /\ node = "stop" => ~Parking /\ node' = "adjust"
        /\ node = "adjust" => node' = "capture"
        /\ node = "capture" => node' = "return"
        /\ node # "return"
    BY <1>7, <2>1 DEF Following
  <2>3. MissionTyped'
    BY <1>4, <2>1 DEF Typed, MissionTyped
  <2>4. TreeTyped'
    BY <1>1, <2>2 DEF Typed, TreeTyped
  <2>5. CarTyped' /\ RunState'
    BY <1>1, <2>1 DEF Typed, CarTyped, Inv, RunState
  <2>6. Accounts'
    <3>1. captures \subseteq captures' /\ captures' \subseteq captures \cup {point}
      BY <1>1
    <3>2. 1..(point - 1) \subseteq captures' \cup missed'
      BY <1>1, <3>1 DEF Inv, Accounts
    <3>3. captures' \cap missed' = {} /\ missed' \subseteq 1..(point - 1)
      BY <1>1, <1>6, <3>1 DEF Inv, Accounts
    <3>4. captures' \subseteq 1..point
      BY <1>6, <3>1 DEF Inv, Accounts
    <3>5. Parking => node' \in {"restore", "navigate", "stop"}
      BY <2>2 DEF Inv, Accounts, Typed, TreeTyped
    <3>6. node' = "return" => ~Parking /\ point \in captures'
      BY <1>1, <2>2 DEF Inv, Accounts, Typed, TreeTyped
    <3> QED
      BY <1>1, <1>5, <2>1, <3>2, <3>3, <3>4, <3>5, <3>6 DEF Accounts, Parking, Captured
  <2>7. OnTheSpot'
    <3>1. ~Captured' => ~Captured
      BY <1>1, <2>1 DEF Captured, Parking
    <3>2. ~Captured /\ node' \in {"stop", "adjust", "capture"} =>
            nav = "idle" /\ place \in {"there", "pushed"}
      BY <2>2 DEF Succeeding, Inv, OnTheSpot, Typed, TreeTyped
    <3>3. ~Captured /\ node' = "capture" => held /\ board = View /\ pending = NoRequest
      BY <2>2 DEF Succeeding, Typed, TreeTyped
    <3> QED
      BY <1>1, <2>1, <3>1, <3>2, <3>3 DEF OnTheSpot
  <2> QED
    BY <1>2, <1>3, <2>3, <2>4, <2>5, <2>6, <2>7, GroupsTyped DEF Inv
<1>8. CASE Following = "end" /\ ~Parking
  <2>1. node = "return" /\ Captured
    BY <1>8 DEF Following, Typed, TreeTyped, Inv, Accounts
  <2>2. /\ node' = "restore" /\ point' = point + 1 /\ approach' = 1 /\ place' = "away"
        /\ UNCHANGED <<phase, status>>
    BY <1>8 DEF Succeeding, Succeeds
  <2>3. captures' = captures /\ point \in captures /\ point \in 1..PointCount
    BY <1>1, <2>1, Counts DEF Captured, Parking, Typed, MissionTyped
  <2>4. MissionTyped'
    BY <1>4, <2>2, <2>3, Counts DEF Typed, MissionTyped
  <2>5. TreeTyped'
    BY <1>1, <2>2 DEF Typed, TreeTyped
  <2>6. CarTyped' /\ RunState'
    BY <1>1, <2>2 DEF Typed, CarTyped, Inv, RunState
  <2>7. Accounts'
    <3>1. point' - 1 = point /\ 1..point = 1..(point - 1) \cup {point} /\ 1..point \subseteq 1..point'
      BY <1>6, <2>2, PointLemma
    <3>2. 1..(point' - 1) \subseteq captures' \cup missed'
      BY <1>1, <2>3, <3>1 DEF Inv, Accounts
    <3>3. captures' \cap missed' = {} /\ missed' \subseteq 1..(point' - 1)
      BY <1>1, <2>3, <3>1 DEF Inv, Accounts
    <3>4. captures' \subseteq 1..point'
      BY <2>3, <3>1 DEF Inv, Accounts
    <3> QED
      BY <1>1, <1>5, <2>2, <3>2, <3>3, <3>4 DEF Accounts
  <2>8. OnTheSpot'
    BY <2>2 DEF OnTheSpot
  <2> QED
    BY <1>2, <1>3, <2>4, <2>5, <2>6, <2>7, <2>8, GroupsTyped DEF Inv
<1>9. CASE Following = "end" /\ Parking
  <2>1. node = "stop"
    BY <1>9 DEF Following, Typed, TreeTyped, Inv, Accounts
  <2>2. /\ node' = "restore" /\ phase' = "SUCCEEDED" /\ status' = "SUCCEEDED"
        /\ UNCHANGED <<point, approach, place>>
    BY <1>9 DEF Succeeding, Succeeds
  <2>3. nav = "idle" /\ ~driving /\ captures' = captures
    BY <1>1, <1>9, <2>1 DEF Succeeding, Inv, OnTheSpot, Captured
  <2>4. MissionTyped'
    BY <1>4, <2>2 DEF Typed, MissionTyped
  <2>5. TreeTyped'
    BY <1>1, <2>2 DEF Typed, TreeTyped
  <2>6. CarTyped' /\ RunState'
    BY <1>1, <1>5, <2>2, <2>3 DEF Typed, CarTyped, Inv, RunState
  <2>7. Accounts'
    BY <1>1, <1>9, <2>2, <2>3 DEF Inv, Accounts, Parking, Captured, Kind
  <2>8. OnTheSpot'
    BY <2>2 DEF OnTheSpot
  <2> QED
    BY <1>2, <1>3, <2>4, <2>5, <2>6, <2>7, <2>8, GroupsTyped DEF Inv
<1> QED
  BY <1>7, <1>8, <1>9

(* A spot is given up: the next spot, or the next point.                        *)
LEMMA NextSpotKeeps ==
  ASSUME Typed, Inv, Running("navigate"), ~Parking, NextSpot PROVE Typed' /\ Inv'
<1> USE DEF NextSpot, action, server, wire, belief
<1>1. ~Captured /\ status = "RUNNING"
  BY DEF Running, Kind, Inv, Accounts, RunState
<1>2. point \in 1..PointCount
  BY Counts DEF Parking, Typed, MissionTyped
<1>3. MissionTyped'
  <2>1. CASE approach < SpotCount
    BY <2>1, Counts DEF Typed, MissionTyped
  <2>2. CASE ~(approach < SpotCount)
    <3>1. point' = point + 1 /\ approach' = 1 /\ missed' = missed \cup {point}
      BY <2>2
    <3>2. point' \in 1..PointCount + 1 /\ missed' \subseteq Points
      BY <3>1, <1>2, Counts DEF Typed, MissionTyped, Points
    <3> QED
      BY <3>1, <3>2, Counts DEF Typed, MissionTyped
  <2> QED
    BY <2>1, <2>2
<1>4. TreeTyped'
  BY DEF Typed, TreeTyped
<1>5. ActionTyped' /\ WireTyped'
  BY DEF Typed, ActionTyped, WireTyped
<1>6. CarTyped'
  BY DEF Typed, CarTyped
<1>7. CarIsHeld' /\ RunState' /\ Cancelling'
  BY DEF Inv, CarIsHeld, RunState, Cancelling
<1>8. Accounts'
  <2>1. CASE approach < SpotCount
    BY <1>1, <2>1 DEF Inv, Accounts, Parking
  <2>2. CASE ~(approach < SpotCount)
    <3>1. point \in Nat /\ point >= 1 /\ point \notin captures
      BY <1>1, <1>2, Counts DEF Captured, Parking
    <3>2. point' = point + 1 /\ missed' = missed \cup {point} /\ captures' = captures
      BY <2>2
    <3>3. point' - 1 = point /\ 1..point = 1..(point - 1) \cup {point} /\ 1..point \subseteq 1..point'
      BY <3>1, <3>2, PointLemma
    <3>4. 1..(point' - 1) \subseteq captures' \cup missed'
      BY <3>2, <3>3 DEF Inv, Accounts
    <3>5. captures' \cap missed' = {} /\ missed' \subseteq 1..(point' - 1)
      BY <3>1, <3>2, <3>3 DEF Inv, Accounts
    <3>6. captures' \subseteq 1..point'
      BY <3>2, <3>3 DEF Inv, Accounts
    <3> QED
      BY <1>1, <3>4, <3>5, <3>6 DEF Accounts
  <2> QED
    BY <2>1, <2>2
<1>9. OnTheSpot'
  BY DEF OnTheSpot
<1> QED
  BY <1>3, <1>4, <1>5, <1>6, <1>7, <1>8, <1>9, GroupsTyped DEF Inv

-----------------------------------------------------------------------------
(* The driver has answered; only a release lets the car go.                     *)
LEMMA PollAnswerKeeps == ASSUME Typed, Inv, PollAnswer PROVE Typed' /\ Inv'
<1> USE DEF mission, action, server, car
<1>1. /\ UNCHANGED <<phase, mission, status, node, started, operation, overdue, pending_terminal,
                     action, server, late, depth, driver, car>>
      /\ pending' = NoRequest /\ pending # NoRequest
  BY RequestLemma DEF PollAnswer
<1>2. /\ held' \in BOOLEAN /\ board' \in {Forward, View}
      /\ stage' \in {"", "WAIT_DEPTH", "REBUILD", "RELEASING", "DONE"}
  <2>1. board' \in {Forward, View}
    BY DEF PollAnswer, Typed, WireTyped, DriverRequest
  <2>2. CASE pending.do = "hold" /\ held' = TRUE /\ UNCHANGED stage
    BY <2>1, <2>2 DEF Typed, TreeTyped
  <2>3. CASE pending.do = "release" /\ Released
    BY <2>1, <2>3 DEF Released, Typed, TreeTyped
  <2>4. CASE pending.do = "servo" /\ UNCHANGED <<held, stage>>
    BY <2>1, <2>4 DEF Typed, TreeTyped, WireTyped
  <2> QED
    BY <2>2, <2>3, <2>4 DEF PollAnswer
<1>3. MissionTyped' /\ CarTyped'
  BY <1>1 DEF Typed, MissionTyped, CarTyped
<1>4. TreeTyped'
  BY <1>1, <1>2 DEF Typed, TreeTyped
<1>5. ActionTyped'
  BY <1>1 DEF Typed, ActionTyped
<1>6. WireTyped'
  BY <1>1, <1>2, RequestLemma DEF Typed, WireTyped
<1>7. CarIsHeld' /\ RunState' /\ Cancelling'
  BY <1>1, RequestLemma DEF Inv, CarIsHeld, RunState, Cancelling
<1>8. Accounts' /\ OnTheSpot'
  BY <1>1 DEF Inv, Accounts, OnTheSpot, Parking, Captured, Kind
<1> QED
  BY <1>3, <1>4, <1>5, <1>6, <1>7, <1>8, GroupsTyped DEF Inv

(* What was to end has ended, or is locked, or forgotten.                       *)
LEMMA EndingKeeps ==
  ASSUME Typed, Inv, Conclude \/ Lock \/ Forget PROVE Typed' /\ Inv'
<1> USE DEF mission, action, server, car, tree, wire, belief
<1>1. /\ UNCHANGED <<phase, mission, tree, overdue, action, server, wire, belief, driver, car>>
      /\ pending_terminal # "" /\ pending_terminal' = ""
      /\ status' \in {pending_terminal, "LOCKED", status}
      /\ status' = pending_terminal => (nav = "idle" /\ ~driving) \/ status' = status
  BY DEF Conclude, Lock, Forget, Ends, Settled, Inv, CarIsHeld, RunState, Typed, TreeTyped
<1>2. phase # "RUNNING" /\ status \in {"PAUSING", "CANCELING", "STOPPING"}
  BY <1>1 DEF Inv, RunState
<1>3. pending_terminal \in {"PAUSED", "CANCELED", "FAILED"}
  BY <1>1 DEF Typed, TreeTyped
<1>4. MissionTyped'
  BY <1>1, <1>3 DEF Typed, MissionTyped
<1>5. TreeTyped'
  BY <1>1 DEF Typed, TreeTyped
<1>6. ActionTyped' /\ CarTyped'
  BY <1>1 DEF Typed, ActionTyped, CarTyped
<1>7. WireTyped'
  BY <1>1 DEF Typed, WireTyped
<1>8. CarIsHeld' /\ RunState' /\ Cancelling'
  BY <1>1, <1>2, <1>3 DEF Inv, CarIsHeld, RunState, Cancelling
<1>9. Accounts' /\ OnTheSpot'
  BY <1>1, <1>2, <1>3 DEF Inv, Accounts, OnTheSpot, Parking, Captured, Kind
<1> QED
  BY <1>4, <1>5, <1>6, <1>7, <1>8, <1>9, GroupsTyped DEF Inv

(* What happens around the run: the car, Nav2, the driver, and time.            *)
Outside ==
  /\ UNCHANGED <<phase, mission, status, tree, pending_terminal, cancel_requested, belief>>
  /\ overdue' \in BOOLEAN /\ ActionTyped' /\ WireTyped' /\ CarTyped'
  /\ CarIsHeld'
  /\ nav' = "idle" => goal' = "none"
  /\ nav = "idle" => nav' = "idle" /\ (place' = place \/ (place = "there" /\ place' = "pushed"))
  /\ driving' => driving \/ phase = "RUNNING"
  /\ nav' = "active" /\ cancel_requested => cancel_sent'
  /\ pending = NoRequest => pending' = NoRequest

LEMMA CarSteps ==
  ASSUME Typed, Inv, Drive \/ Zero \/ Stands \/ Bump \/ TimePasses \/ UNCHANGED vars
  PROVE  Outside
<1> USE DEF mission, tree, action, server, belief, wire
<1>1. /\ UNCHANGED <<phase, mission, status, tree, pending_terminal, action, server, belief, wire,
                     driver>>
      /\ overdue' \in BOOLEAN
  BY DEF Drive, Zero, Stands, Bump, TimePasses, vars, Typed, TreeTyped
<1>2. /\ driving' \in BOOLEAN /\ still' \in BOOLEAN /\ place' \in {"there", "pushed", "away"}
      /\ driving' => driving \/ (phase = "RUNNING" /\ nav = "active" /\ ~driver.held /\ ~held)
      /\ driving' => ~still'
      /\ nav = "idle" => place' = place \/ (place = "there" /\ place' = "pushed")
  <2> USE DEF Typed, CarTyped, Inv, CarIsHeld, car
  <2>1. CASE Drive
    BY <2>1 DEF Drive
  <2>2. CASE Zero
    BY <2>2 DEF Zero, Stops
  <2>3. CASE Stands
    BY <2>3 DEF Stands
  <2>4. CASE Bump
    BY <2>4 DEF Bump
  <2>5. CASE TimePasses \/ UNCHANGED vars
    <3>1. UNCHANGED car
      BY <2>5 DEF TimePasses, vars
    <3> QED
      BY <3>1
  <2> QED
    BY <2>1, <2>2, <2>3, <2>4, <2>5
<1>3. ActionTyped'
  BY <1>1 DEF Typed, ActionTyped
<1>4. WireTyped'
  BY <1>1 DEF Typed, WireTyped
<1>5. CarTyped' /\ CarIsHeld'
  BY <1>1, <1>2 DEF Typed, CarTyped, Inv, CarIsHeld
<1> QED
  BY <1>1, <1>2, <1>3, <1>4, <1>5 DEF Outside, Inv, RunState, Cancelling

LEMMA NavigationSteps ==
  ASSUME Typed, Inv, Response \/ Result \/ Nav2 PROVE Outside
<1> USE DEF mission, tree, belief, wire
<1>1. /\ UNCHANGED <<phase, mission, status, tree, overdue, pending_terminal, cancel_requested,
                     belief, wire, driver, driving, still>>
      /\ place' \in {"there", "pushed", "away"} /\ (nav = "idle" => place' = place)
  BY DEF Response, Result, Nav2, car, action, Typed, CarTyped, Inv, RunState
<1>2. ActionTyped'
  BY DEF Response, Result, Nav2, action, Typed, ActionTyped
<1>3. /\ nav' = "idle" => goal' = "none"
      /\ nav = "idle" => nav' = "idle"
      /\ nav' = "active" /\ cancel_requested => cancel_sent'
  BY DEF Response, Result, Nav2, action, Inv, RunState, Cancelling
<1>4. WireTyped'
  BY <1>1 DEF Typed, WireTyped
<1>5. CarTyped' /\ CarIsHeld'
  BY <1>1 DEF Typed, CarTyped, Inv, CarIsHeld
<1> QED
  BY <1>1, <1>2, <1>3, <1>4, <1>5 DEF Outside, Typed, TreeTyped

(* What the driver does keeps the car held unless the camera looks forward.      *)
LEMMA ObeysLemma ==
  ASSUME Typed, Inv, NEW what \in {"none", "hold", "release", "servo"},
         NEW to \in {Forward, View}, NEW word, Obeys(what, to, word)
  PROVE  /\ driver' \in Driver /\ (~driver'.held => driver'.board = Forward)
         /\ driving' \in BOOLEAN /\ (driving' => driving /\ ~driver'.held)
<1> USE DEF Typed, CarTyped, Inv, CarIsHeld
<1>1. CASE driver.life = "up" /\ driver' = [driver EXCEPT !.held = TRUE] /\ driving' = FALSE
  BY <1>1 DEF Driver
<1>2. CASE MayRelease /\ driver' = [driver EXCEPT !.held = FALSE] /\ driving' = FALSE
  BY <1>2 DEF Driver, MayRelease
<1>3. CASE driver.held /\ driver' = [driver EXCEPT !.board = to] /\ UNCHANGED driving
  BY <1>3 DEF Driver
<1>4. CASE UNCHANGED <<driver, driving>>
  BY <1>4
<1> QED
  BY <1>1, <1>2, <1>3, <1>4 DEF Obeys

LEMMA DriverSteps ==
  ASSUME Typed, Inv,
         DriverServes \/ DriverServesLate \/ DriverFallsSilent \/ DriverStarts
           \/ DriverBackUnnoticed
  PROVE  Outside
<1> USE DEF mission, tree, action, server, belief
<1>0. still' \in BOOLEAN /\ (still' => still)
  <2>1. \/ still' = still
        \/ still' = FALSE
    BY DEF DriverServes, DriverServesLate, DriverFallsSilent, DriverStarts, DriverBackUnnoticed,
           Restarts
  <2>2. still \in BOOLEAN
    BY DEF Typed, CarTyped
  <2>3. CASE still' = still
    BY <2>2, <2>3, Zenon
  <2>4. CASE still' = FALSE
    BY <2>4
  <2> QED
    BY <2>1, <2>3, <2>4
<1>1. UNCHANGED <<phase, mission, status, tree, overdue, pending_terminal, action, server,
                  belief, place>>
  BY DEF DriverServes, DriverServesLate, DriverFallsSilent, DriverStarts, DriverBackUnnoticed,
         Restarts
<1>2. /\ driver' \in Driver /\ (~driver'.held => driver'.board = Forward)
      /\ driving' \in BOOLEAN /\ (driving' => driving /\ ~driver'.held)
  <2>1. CASE DriverServes
    BY <2>1, ObeysLemma DEF DriverServes, Typed, WireTyped, DriverRequest
  <2>2. CASE DriverServesLate
    BY <2>2, ObeysLemma DEF DriverServesLate, Typed, WireTyped
  <2>3. CASE DriverFallsSilent
    <3>1. PICK life \in {"silent"} : driver' = [driver EXCEPT !.life = life]
      BY <2>3 DEF DriverFallsSilent
    <3>2. driver' \in Driver /\ driver'.held = driver.held /\ driver'.board = driver.board
      BY <3>1 DEF Driver, Typed, CarTyped
    <3>3. driving' = driving \/ driving' = FALSE
      BY <2>3 DEF DriverFallsSilent
    <3>4. /\ driving \in BOOLEAN
          /\ ~driver.held => driver.board = Forward
          /\ driving => ~driver.held
      BY DEF Typed, CarTyped, Inv, CarIsHeld
    <3>5. CASE driving' = driving
      BY <3>2, <3>4, <3>5, Zenon
    <3>6. CASE driving' = FALSE
      BY <3>2, <3>4, <3>6
    <3> QED
      BY <3>3, <3>5, <3>6
  <2>4. CASE DriverStarts \/ DriverBackUnnoticed
    <3>1. PICK life \in {"restarted", "unnoticed"} : Restarts(life)
      BY <2>4 DEF DriverStarts, DriverBackUnnoticed
    <3> QED
      BY <3>1 DEF Restarts, Driver
  <2> QED
    BY <2>1, <2>2, <2>3, <2>4
<1>3. /\ pending' \in DriverRequest /\ pending'.do = pending.do
      /\ pending = NoRequest => pending' = NoRequest
      /\ late' \in {"none", "hold", "release"}
  <2>1. CASE DriverServes
    <3>1. driver'.board \in {Forward, View}
      BY <1>2 DEF Driver
    <3>2. PICK word \in {"yes", "no"} :
            pending' = [pending EXCEPT !.answer = word, !.to = driver'.board]
      BY <2>1 DEF DriverServes
    <3>3. pending # NoRequest /\ late' = late
      BY <2>1, RequestLemma DEF DriverServes
    <3>4. /\ [pending EXCEPT !.answer = word, !.to = driver'.board] \in DriverRequest
          /\ [pending EXCEPT !.answer = word, !.to = driver'.board].do = pending.do
      BY <3>1, AnswerLemma DEF Typed, WireTyped
    <3> QED
      BY <3>2, <3>3, <3>4 DEF Typed, WireTyped
  <2>2. CASE DriverServesLate \/ DriverFallsSilent \/ DriverStarts \/ DriverBackUnnoticed
    BY <2>2 DEF DriverServesLate, DriverFallsSilent, DriverStarts, DriverBackUnnoticed, Restarts,
                wire, Typed, WireTyped
  <2> QED
    BY <2>1, <2>2
<1>4. ActionTyped'
  BY <1>1 DEF Typed, ActionTyped
<1>5. WireTyped'
  BY <1>1, <1>3 DEF Typed, WireTyped
<1>6. CarTyped' /\ CarIsHeld'
  BY <1>0, <1>1, <1>2, <1>3 DEF Typed, CarTyped, Inv, CarIsHeld
<1> QED
  BY <1>1, <1>2, <1>3, <1>4, <1>5, <1>6 DEF Outside, Typed, TreeTyped, Inv, RunState, Cancelling

LEMMA OutsideKeeps == ASSUME Typed, Inv, Outside PROVE Typed' /\ Inv'
<1> USE DEF Outside, mission, tree, belief
<1>1. MissionTyped'
  BY DEF Typed, MissionTyped
<1>2. TreeTyped'
  BY DEF Typed, TreeTyped
<1>3. RunState' /\ Cancelling'
  BY DEF Inv, RunState, Cancelling
<1>4. Accounts' /\ OnTheSpot'
  BY DEF Inv, Accounts, OnTheSpot, Parking, Captured, Kind
<1> QED
  BY <1>1, <1>2, <1>3, <1>4, GroupsTyped DEF Inv

-----------------------------------------------------------------------------
LEMMA NextKeeps == ASSUME Typed, Inv, [Next]_vars PROVE Typed' /\ Inv'
<1>1. CASE Start \/ Resume
  BY <1>1, StartKeeps, ResumeKeeps
<1>2. CASE Pause \/ Cancel \/ Throw \/ PollRefused \/ PollTimesOut
  BY <1>2, HaltingSteps, HaltingKeeps
<1>3. CASE StartChild \/ StartNavigate
  BY <1>3, StartChildKeeps, StartNavigateKeeps
<1>4. CASE \/ \E child \in {"restore", "stop", "adjust", "return"} : Acquire(child)
           \/ \E child \in {"restore", "adjust", "return"} : Turn(child)
           \/ \E child \in {"restore", "return"} : Reopen(child)
           \/ SettleHolds \/ OutletLost
  BY <1>4, AskingSteps, AskingKeeps
<1>5. CASE \/ Skip \/ StopStep \/ Adjusted \/ Arrives \/ Capture
           \/ \E child \in {"restore", "return"} : Restored(child)
  BY <1>5, SucceedingSteps, SucceedingKeeps
<1>6. CASE NavigationFails
  BY <1>6, NextSpotKeeps, HaltingSteps, HaltingKeeps DEF NavigationFails
<1>7. CASE PollAnswer
  BY <1>7, PollAnswerKeeps
<1>8. CASE Conclude \/ Lock \/ Forget
  BY <1>8, EndingKeeps
<1>9. CASE Drive \/ Zero \/ Stands \/ Bump \/ TimePasses \/ UNCHANGED vars
  BY <1>9, CarSteps, OutsideKeeps
<1>10. CASE Response \/ Result \/ Nav2
  BY <1>10, NavigationSteps, OutsideKeeps
<1>11. CASE DriverServes \/ DriverServesLate \/ DriverFallsSilent \/ DriverStarts
              \/ DriverBackUnnoticed
  BY <1>11, DriverSteps, OutsideKeeps
<1> QED
  BY <1>1, <1>2, <1>3, <1>4, <1>5, <1>6, <1>7, <1>8, <1>9, <1>10, <1>11
     DEF Next, Tree, StepMustThrow, StepThrows, Poll, Settle

(* The invariant all of the following rests on is inductive.                   *)
THEOREM Inductive == Spec => [](Typed /\ Inv)
  BY InitInv, NextKeeps, PTL DEF Spec

(* The state keeps its type.                                                  *)
THEOREM TypeCorrect == Spec => []TypeOK
<1>1. Typed /\ Inv => TypeOK
  BY TypedIsTypeOK
<1> QED
  BY <1>1, Inductive, PTL

(* A run that is recorded as over has left no goal and no motion behind: it was    *)
(* settled with the car still and the last goal over, and only a new start or a    *)
(* resume leads to another goal.                                               *)
THEOREM EndIsStop == Spec => []EndedIsStopped
<1>1. Typed /\ Inv => EndedIsStopped
  BY DEF Inv, RunState, EndedIsStopped
<1> QED
  BY <1>1, Inductive, PTL

(* No point falls between the photos and the missed ones, however often a run is   *)
(* paused, resumed and turned to another spot.                                 *)
THEOREM PointsAddUp == Spec => []EveryPointAccountedFor
<1>1. Typed /\ Inv => EveryPointAccountedFor
  <2> SUFFICES ASSUME Typed, Inv, status = "SUCCEEDED"
               PROVE  captures \cup missed = Points /\ captures \cap missed = {}
    BY DEF EveryPointAccountedFor
  <2>1. point > PointCount /\ point \in 1..PointCount + 1
    BY DEF Inv, Accounts, Parking, Typed, MissionTyped
  <2>2. 1..(point - 1) = Points
    BY <2>1, Counts DEF Points
  <2> QED
    BY <2>2 DEF Inv, Accounts, Typed, MissionTyped
<1> QED
  BY <1>1, Inductive, PTL

(* The car never drives with the camera turned, or about to be turned, even when   *)
(* the driver restarts or a late request reaches it.                           *)
THEOREM CameraIsForward == Spec => []DrivesLookingForward
<1>1. Typed /\ Inv => DrivesLookingForward
  <2> SUFFICES ASSUME Typed, Inv, driving
               PROVE  driver.board = Forward /\ ~(pending.do = "servo" /\ pending.answer = "waiting")
    BY DEF DrivesLookingForward
  <2> QED
    BY DEF Inv, CarIsHeld
<1> QED
  BY <1>1, Inductive, PTL

(* The cancellation of a goal is not lost when it comes before the goal's handle.  *)
THEOREM CancelIsSent == Spec => []CancelReachesGoal
<1>1. Typed /\ Inv => CancelReachesGoal
  BY DEF Inv, Cancelling, CancelReachesGoal
<1> QED
  BY <1>1, Inductive, PTL

-----------------------------------------------------------------------------
(* What the driver has answered is still so when the answer is looked at, unless   *)
(* the driver has restarted; a run has no answer of a driver that is gone.       *)
Answers ==
  /\ pending.do \in {"hold", "release"} /\ pending.answer \in {"yes", "no"} => late = "none"
  /\ pending.answer = "yes" /\ driver.life = "up" =>
       pending.to = driver.board /\ (pending.do = "hold" => driver.held)
  /\ pending.answer = "yes" /\ driver.life = "restarted" => phase # "RUNNING"

(* The driver has let the car go in this run, and the photo is not taken yet.      *)
Trusted ==
  \/ started /\ stage = "DONE"
  \/ phase = "RUNNING" /\ node \in {"navigate", "stop", "adjust", "capture"} /\ ~Captured

(* From then on nothing that is still on its way can let the car go again, and     *)
(* what the console believes of the driver is true.                             *)
Belief ==
  Trusted =>
    /\ driver.life # "restarted" /\ late = "none" /\ pending.do # "release"
    /\ driver.life = "up" =>
         /\ held => driver.held
         /\ board # driver.board => pending.do = "servo" /\ pending.answer = "yes"

Reliable == Answers /\ Belief

LEMMA InitReliable == Init => Reliable
  BY RequestLemma DEF Init, Reliable, Answers, Belief, Trusted

(* A step that leaves the tree, the driver and what is known of it alone.         *)
LEMMA ReliableKept ==
  ASSUME Reliable,
         UNCHANGED <<phase, node, started, stage, point, captures, late, held, board, driver,
                     pending>>
  PROVE  Reliable'
<1>1. Trusted' = Trusted
  BY DEF Trusted, Captured, Parking
<1> QED
  BY <1>1 DEF Reliable, Answers, Belief

LEMMA BeginningReliable == ASSUME Typed, Inv, Reliable, Start \/ Resume PROVE Reliable'
<1>1. /\ pending' = NoRequest /\ started' = FALSE /\ node' = "restore"
  BY DEF Start, Resume, wire
<1>2. Answers'
  BY <1>1, RequestLemma DEF Answers
<1>3. ~Trusted'
  BY <1>1 DEF Trusted
<1> QED
  BY <1>2, <1>3 DEF Reliable, Belief

LEMMA HaltingReliable == ASSUME Typed, Inv, Reliable, Halting PROVE Reliable'
<1>1. /\ phase' # "RUNNING" /\ ~started' /\ driver' = driver
      /\ pending' \in {pending, Stale(pending), NoRequest}
      /\ pending' = NoRequest \/ late' = late
  BY DEF Halting
<1>2. Answers'
  <2>1. CASE pending' = NoRequest
    BY <2>1, RequestLemma DEF Answers
  <2>2. CASE pending' # NoRequest
    <3>1. late' = late /\ pending'.do = pending.do /\ pending'.answer = pending.answer
          /\ pending'.to = pending.to
      BY <1>1, <2>2, StaleLemma DEF Typed, WireTyped
    <3> QED
      BY <1>1, <3>1 DEF Reliable, Answers
  <2> QED
    BY <2>1, <2>2
<1>3. ~Trusted'
  BY <1>1 DEF Trusted
<1> QED
  BY <1>2, <1>3 DEF Reliable, Belief

LEMMA StartingReliable ==
  ASSUME Typed, Inv, Reliable, StartChild \/ StartNavigate PROVE Reliable'
<1>1. /\ UNCHANGED <<phase, node, point, captures, late, held, board, driver>>
      /\ pending' = Stale(pending) /\ stage' = "" /\ phase = "RUNNING"
  BY DEF StartChild, StartNavigate, mission, belief, car
<1>2. pending'.do = pending.do /\ pending'.answer = pending.answer /\ pending'.to = pending.to
  BY <1>1, StaleLemma DEF Typed, WireTyped
<1>3. Trusted' => Trusted
  BY <1>1 DEF Trusted, Captured, Parking
<1> QED
  BY <1>1, <1>2, <1>3 DEF Reliable, Answers, Belief

LEMMA AskingReliable == ASSUME Typed, Inv, Reliable, Asking PROVE Reliable'
<1>1. /\ UNCHANGED <<phase, node, started, point, captures, late, held, board, driver>>
      /\ stage' = "DONE" => stage = "DONE"
  BY DEF Asking, mission, car
<1>2. Trusted' => Trusted
  BY <1>1 DEF Trusted, Captured, Parking
<1>3. CASE pending' = pending
  BY <1>1, <1>2, <1>3 DEF Reliable, Answers, Belief
<1>4. CASE pending' # pending
  <2>1. /\ pending = NoRequest /\ pending'.answer = "waiting"
        /\ pending'.do = "release" => stage' # "DONE" /\ node \in {"restore", "return"}
    BY <1>4 DEF Asking
  <2>2. Answers'
    BY <2>1 DEF Answers
  <2>3. Trusted' => pending'.do # "release"
    BY <1>1, <2>1 DEF Trusted
  <2>4. pending.do = "none"
    BY <2>1, RequestLemma
  <2> QED
    BY <1>1, <1>2, <2>2, <2>3, <2>4 DEF Reliable, Belief
<1> QED
  BY <1>3, <1>4

LEMMA SucceedingReliable == ASSUME Typed, Inv, Reliable, Succeeding PROVE Reliable'
<1>1. /\ UNCHANGED <<stage, late, held, board, driver, pending>> /\ started' = FALSE
      /\ phase = "RUNNING" /\ captures \subseteq captures'
  BY DEF Succeeding, Succeeds, action, server
<1>2. Trusted' => Trusted
  <2> SUFFICES ASSUME Trusted' PROVE Trusted
    OBVIOUS
  <2>1. node' \in {"navigate", "stop", "adjust", "capture"} /\ ~Captured'
    BY <1>1 DEF Trusted
  <2>2. Following # "end" /\ node' = Following /\ point' = point
    BY <2>1 DEF Succeeding, Succeeds
  <2>3. ~Captured
    BY <1>1, <2>1, <2>2 DEF Captured, Parking
  <2>4. CASE node = "restore"
    BY <2>4 DEF Succeeding, Trusted
  <2>5. CASE node # "restore"
    <3>1. node \in {"navigate", "stop", "adjust"}
      BY <2>1, <2>2, <2>5 DEF Following, Typed, TreeTyped
    <3> QED
      BY <1>1, <2>3, <3>1 DEF Trusted
  <2> QED
    BY <2>4, <2>5
<1> QED
  BY <1>1, <1>2 DEF Reliable, Answers, Belief

LEMMA NextSpotReliable ==
  ASSUME Typed, Inv, Reliable, Running("navigate"), NextSpot PROVE Reliable'
<1>1. /\ UNCHANGED <<phase, stage, late, held, board, driver, pending>>
      /\ started' = FALSE /\ node' = "restore"
  BY DEF NextSpot, wire, belief
<1>2. ~Trusted'
  BY <1>1 DEF Trusted
<1> QED
  BY <1>1, <1>2 DEF Reliable, Answers, Belief

(* The console comes to trust the driver again when its release is answered.      *)
LEMMA PollAnswerReliable == ASSUME Typed, Inv, Reliable, PollAnswer PROVE Reliable'
<1>1. /\ UNCHANGED <<phase, node, started, point, captures, late, driver>>
      /\ pending' = NoRequest /\ pending.answer = "yes" /\ board' = pending.to
  BY DEF PollAnswer, mission, car
<1>2. Answers'
  BY <1>1, RequestLemma DEF Answers
<1>3. Belief'
  <2> SUFFICES ASSUME Trusted'
               PROVE  /\ driver.life # "restarted" /\ late = "none"
                      /\ driver.life = "up" => /\ held' => driver.held
                                               /\ board' = driver.board
    BY <1>1, RequestLemma DEF Belief
  <2>1. driver.life = "up" => board' = driver.board
    BY <1>1 DEF Reliable, Answers
  <2>2. CASE pending.do = "release"
    <3>1. ~Trusted
      BY <2>2 DEF Reliable, Belief
    <3>2. started /\ held' = FALSE
      BY <1>1, <2>2, <3>1 DEF PollAnswer, Released, Trusted, Captured, Parking
    <3>3. phase = "RUNNING"
      BY <3>2 DEF Inv, RunState
    <3> QED
      BY <1>1, <2>1, <2>2, <3>2, <3>3 DEF Reliable, Answers
  <2>3. CASE pending.do # "release"
    <3>1. stage' = stage
      BY <2>3 DEF PollAnswer
    <3>2. Trusted
      BY <1>1, <3>1 DEF Trusted, Captured, Parking
    <3>3. driver.life = "up" /\ held' => driver.held
      <4>1. CASE pending.do = "hold"
        BY <1>1, <4>1 DEF Reliable, Answers
      <4>2. CASE pending.do # "hold"
        <5>1. held' = held
          BY <2>3, <4>2 DEF PollAnswer
        <5> QED
          BY <3>2, <5>1 DEF Reliable, Belief
      <4> QED
        BY <4>1, <4>2
    <3> QED
      BY <2>1, <3>2, <3>3 DEF Reliable, Belief
  <2> QED
    BY <2>2, <2>3
<1> QED
  BY <1>2, <1>3 DEF Reliable

LEMMA AroundReliable ==
  ASSUME Typed, Inv, Reliable,
         \/ Conclude \/ Lock \/ Forget \/ Drive \/ Zero \/ Stands \/ Bump \/ TimePasses
         \/ Response \/ Result \/ Nav2 \/ UNCHANGED vars
  PROVE  Reliable'
<1>1. UNCHANGED <<phase, node, started, stage, point, captures, late, held, board, driver, pending>>
  BY DEF Conclude, Lock, Forget, Ends, Drive, Zero, Stands, Bump, TimePasses, Response, Result,
         Nav2, vars, mission, tree, wire, belief, car
<1> QED
  BY <1>1, ReliableKept

LEMMA ServedReliable == ASSUME Typed, Inv, Reliable, DriverServes PROVE Reliable'
<1>1. /\ UNCHANGED <<phase, node, started, stage, point, captures, late, held, board>>
      /\ pending.answer = "waiting" /\ (late = "none" \/ pending.do = "servo")
  BY DEF DriverServes, mission, tree, belief
<1>2. PICK word \in {"yes", "no"} :
        /\ Obeys(pending.do, pending.to, word)
        /\ pending' = [pending EXCEPT !.answer = word, !.to = driver'.board]
  BY DEF DriverServes
<1>3. pending.do \in {"none", "hold", "release", "servo"} /\ pending.to \in {Forward, View}
  BY DEF Typed, WireTyped, DriverRequest
<1>4. driver'.board \in {Forward, View}
  BY <1>2, <1>3, ObeysLemma DEF Driver
<1>5. pending'.do = pending.do /\ pending'.answer = word /\ pending'.to = driver'.board
  <2>1. PICK b \in {Forward, View} : b = driver'.board
    BY <1>4
  <2>2. pending' = [pending EXCEPT !.answer = word, !.to = b]
    BY <1>2, <2>1
  <2>3. pending \in DriverRequest
    BY DEF Typed, WireTyped
  <2> QED
    BY <2>1, <2>2, <2>3 DEF DriverRequest
<1>6. driver \in Driver
  BY DEF Typed, CarTyped
<1>7. driver'.life = driver.life /\ (word = "yes" => driver.life = "up")
  BY <1>2, <1>6 DEF Obeys, MayRelease, Driver
<1>8. pending.do = "hold" /\ word = "yes" => driver'.held
  BY <1>2, <1>6 DEF Obeys, Driver
<1>9. Answers'
  BY <1>1, <1>5, <1>7, <1>8 DEF Reliable, Answers
<1>10. Trusted' = Trusted
  BY <1>1 DEF Trusted, Captured, Parking
<1>11. ASSUME Trusted, driver.life = "up"
       PROVE  /\ held => driver'.held
              /\ board # driver'.board => pending.do = "servo" /\ word = "yes"
  <2>1. (held => driver.held) /\ board = driver.board /\ pending.do # "release"
    BY <1>1, <1>11 DEF Reliable, Belief
  <2>2. driver.held => driver'.held
    BY <1>2, <1>6, <2>1 DEF Obeys, Driver
  <2>3. driver'.board = driver.board \/ (pending.do = "servo" /\ word = "yes")
    BY <1>2, <1>6, <2>1 DEF Obeys, Driver
  <2> QED
    BY <2>1, <2>2, <2>3
<1>12. Belief'
  BY <1>1, <1>5, <1>7, <1>10, <1>11 DEF Reliable, Belief
<1> QED
  BY <1>9, <1>12 DEF Reliable

LEMMA ServedLateReliable == ASSUME Typed, Inv, Reliable, DriverServesLate PROVE Reliable'
<1>1. /\ UNCHANGED <<phase, node, started, stage, point, captures, pending, held, board>>
      /\ late # "none" /\ late' = "none" /\ late \in {"hold", "release"}
  BY DEF DriverServesLate, mission, tree, belief, Typed, WireTyped
<1>2. PICK word \in {"yes", "no"} : Obeys(late, Forward, word)
  BY DEF DriverServesLate
<1>3. driver \in Driver
  BY DEF Typed, CarTyped
<1>4. driver'.life = driver.life /\ driver'.board = driver.board
  BY <1>1, <1>2, <1>3 DEF Obeys, Driver
<1>5. ~(pending.do \in {"hold", "release"} /\ pending.answer \in {"yes", "no"})
  BY <1>1 DEF Reliable, Answers
<1>6. Answers'
  BY <1>1, <1>4, <1>5 DEF Reliable, Answers
<1>7. ~Trusted'
  BY <1>1 DEF Trusted, Captured, Parking, Reliable, Belief
<1> QED
  BY <1>6, <1>7 DEF Reliable, Belief

(* A driver that is missed is back only after the run has been stopped.           *)
LEMMA RestartReliable ==
  ASSUME Typed, Inv, Reliable, DriverFallsSilent \/ DriverStarts \/ DriverBackUnnoticed
  PROVE  Reliable'
<1>1. UNCHANGED <<phase, node, started, stage, point, captures, late, pending, held, board>>
  BY DEF DriverFallsSilent, DriverStarts, DriverBackUnnoticed, Restarts, mission, tree, belief,
         wire
<1>2. /\ driver'.life # "up"
      /\ driver'.life = "restarted" => phase # "RUNNING"
  <2>1. CASE DriverFallsSilent
    <3>1. PICK life \in {"silent"} : driver' = [driver EXCEPT !.life = life]
      BY <2>1 DEF DriverFallsSilent
    <3> QED
      BY <3>1 DEF Typed, CarTyped, Driver
  <2>2. CASE DriverStarts
    BY <2>2 DEF DriverStarts, Restarts, MustThrow, Healthy
  <2>3. CASE DriverBackUnnoticed
    BY <2>3 DEF DriverBackUnnoticed, Restarts
  <2> QED
    BY <2>1, <2>2, <2>3
<1>3. Answers'
  BY <1>1, <1>2 DEF Reliable, Answers
<1>4. Trusted' => Trusted /\ phase = "RUNNING"
  BY <1>1 DEF Trusted, Captured, Parking, Inv, RunState
<1> QED
  BY <1>1, <1>2, <1>3, <1>4 DEF Reliable, Belief

LEMMA NextReliable == ASSUME Typed, Inv, Reliable, [Next]_vars PROVE Reliable'
<1>1. CASE Start \/ Resume
  BY <1>1, BeginningReliable
<1>2. CASE Pause \/ Cancel \/ Throw \/ PollRefused \/ PollTimesOut
  BY <1>2, HaltingSteps, HaltingReliable
<1>3. CASE StartChild \/ StartNavigate
  BY <1>3, StartingReliable
<1>4. CASE \/ \E child \in {"restore", "stop", "adjust", "return"} : Acquire(child)
           \/ \E child \in {"restore", "adjust", "return"} : Turn(child)
           \/ \E child \in {"restore", "return"} : Reopen(child)
           \/ SettleHolds \/ OutletLost
  BY <1>4, AskingSteps, AskingReliable
<1>5. CASE \/ Skip \/ StopStep \/ Adjusted \/ Arrives \/ Capture
           \/ \E child \in {"restore", "return"} : Restored(child)
  BY <1>5, SucceedingSteps, SucceedingReliable
<1>6. CASE NavigationFails
  BY <1>6, NextSpotReliable, HaltingSteps, HaltingReliable DEF NavigationFails
<1>7. CASE PollAnswer
  BY <1>7, PollAnswerReliable
<1>8. CASE \/ Conclude \/ Lock \/ Forget \/ Drive \/ Zero \/ Stands \/ Bump \/ TimePasses
           \/ Response \/ Result \/ Nav2 \/ UNCHANGED vars
  BY <1>8, AroundReliable
<1>9. CASE DriverServes \/ DriverServesLate
  BY <1>9, ServedReliable, ServedLateReliable
<1>10. CASE DriverFallsSilent \/ DriverStarts \/ DriverBackUnnoticed
  BY <1>10, RestartReliable
<1> QED
  BY <1>1, <1>2, <1>3, <1>4, <1>5, <1>6, <1>7, <1>8, <1>9, <1>10
     DEF Next, Tree, StepMustThrow, StepThrows, Poll, Settle

(* A photo is taken where the run has driven the car, of what it says, with the    *)
(* car held by the driver and the camera turned: no late request has undone it,    *)
(* and a driver that restarted has stopped the run, unless it was not missed.      *)
THEOREM PhotoOfPoint == Spec => PhotoIsOfItsPoint
<1> DEFINE Taken == captures' # captures /\ captures' # {} =>
                      /\ place \in {"there", "pushed"} /\ still /\ ~driving
                      /\ driver.life # "unnoticed" => driver.held /\ driver.board = View
<1>1. ASSUME Typed, Inv, Reliable, [Next]_vars
      PROVE  Taken
  <2> SUFFICES ASSUME captures' # captures, captures' # {}
               PROVE  /\ place \in {"there", "pushed"} /\ still /\ ~driving
                      /\ driver.life # "unnoticed" => driver.held /\ driver.board = View
    OBVIOUS
  <2> USE DEF mission
  <2>1. CASE Capture
    <3>1. node = "capture" /\ started /\ still /\ held /\ phase = "RUNNING" /\ driver.life # "silent"
      BY <2>1 DEF Capture, Running, Healthy
    <3>2. ~Captured
      BY <1>1, <3>1 DEF Inv, Accounts, Kind
    <3>3. place \in {"there", "pushed"} /\ ~driving /\ board = View /\ pending = NoRequest
      BY <1>1, <3>1, <3>2 DEF Inv, OnTheSpot, CarIsHeld
    <3>4. Trusted
      BY <3>1, <3>2 DEF Trusted
    <3>5. /\ driver.life # "restarted"
          /\ driver.life = "up" => driver.held /\ board = driver.board
      BY <1>1, <3>1, <3>3, <3>4, RequestLemma DEF Reliable, Belief
    <3>6. driver.life \in {"up", "silent", "restarted", "unnoticed"}
      BY <1>1 DEF Typed, CarTyped, Driver
    <3> QED
      BY <3>1, <3>3, <3>5, <3>6
  <2>2. CASE Start
    BY <2>2 DEF Start
  <2>3. CASE Resume \/ Pause \/ Cancel \/ Throw \/ PollRefused \/ PollTimesOut \/ PollAnswer
    BY <2>3 DEF Resume, Pause, Cancel, Throw, PollRefused, PollTimesOut, PollAnswer
  <2>4. CASE \/ \E child \in {"restore", "stop", "adjust", "return"} : Acquire(child)
             \/ \E child \in {"restore", "adjust", "return"} : Turn(child)
             \/ \E child \in {"restore", "return"} : Reopen(child)
             \/ SettleHolds \/ OutletLost
    BY <1>1, <2>4, AskingSteps DEF Asking
  <2>5. CASE \/ StartChild \/ StartNavigate \/ Skip \/ StopStep \/ Adjusted \/ Arrives
             \/ NavigationFails \/ \E child \in {"restore", "return"} : Restored(child)
    BY <2>5 DEF StartChild, StartNavigate, Skip, StopStep, Adjusted, Arrives, NavigationFails,
                Throw, NextSpot, Restored
  <2>6. CASE Conclude \/ Lock \/ Forget
    BY <2>6 DEF Conclude, Lock, Forget, Ends
  <2>7. CASE Drive \/ Zero \/ Stands \/ Bump \/ TimePasses \/ UNCHANGED vars
    BY <1>1, <2>7, CarSteps DEF Outside
  <2>8. CASE \/ Response \/ Result \/ Nav2 \/ DriverServes \/ DriverServesLate
             \/ DriverFallsSilent \/ DriverStarts \/ DriverBackUnnoticed
    BY <1>1, <2>8, NavigationSteps, DriverSteps DEF Outside
  <2> QED
    BY <1>1, <2>1, <2>2, <2>3, <2>4, <2>5, <2>6, <2>7, <2>8
       DEF Next, Tree, StepMustThrow, StepThrows, Poll, Settle
<1>2. Typed /\ Inv /\ Reliable /\ [Next]_vars => Reliable'
  BY NextReliable
<1>3. Typed /\ Inv /\ Reliable /\ [Next]_vars => [Taken]_vars
  BY <1>1
<1> QED
  BY <1>2, <1>3, InitReliable, Inductive, PTL DEF Spec, PhotoIsOfItsPoint
=============================================================================
