------------------------------ MODULE TeleopGuard ------------------------------
(***************************************************************************)
(* The teleoperation guard of the mapping console: class Safety and the node *)
(* mapping_teleop_guard around it.  The operator's page sends each drive over *)
(* two channels, a WebSocket and an unordered WebRTC channel that does not    *)
(* retransmit, so it may arrive twice, never, or after a later message.  The  *)
(* gateway stamps it with the operator's session and passes it on.  The guard *)
(* accepts or drops it, watches the inputs it depends on, and publishes       *)
(* /mapping/cmd_vel from a 20 ms timer.                                       *)
(*                                                                           *)
(* Ages stand for the times of the code, in periods of that timer.  The       *)
(* option require_video, off by default, is not modelled.                    *)
(***************************************************************************)
EXTENDS Integers, Functions

CONSTANTS
  Sensors,                    \* the topics /scan and /wheel/odometry
  Gears,                      \* slow, normal, fast
  GatewayLimit, SensorLimit,  \* 0.30 s and 0.50 s
  Lease,                      \* control_lease_seconds
  DelayLimit,                 \* the 300 ms that the transport's comments promise
  MaxSession, MaxMessage, MaxEnable  \* bounds: connections, messages, enables

ASSUME ConstantsAssumption ==
  /\ "gateway" \notin Sensors /\ "slow" \in Gears /\ "zero" \notin Gears
  /\ GatewayLimit \in Nat /\ SensorLimit \in Nat
  /\ Lease \in Nat \ {0} /\ DelayLimit \in Nat
  /\ MaxSession \in Nat \ {0} /\ MaxMessage \in Nat \ {0} /\ MaxEnable \in Nat \ {0}

Inputs == {"gateway"} \cup Sensors
Limit(i) == IF i = "gateway" THEN GatewayLimit ELSE SensorLimit
Zero == "zero"
NoDrive == [session |-> 0, sequence |-> 0, delay |-> 0]

VARIABLES
  session,        \* the operator the guard listens to, 0 for none
  armed, pressed,
  pushed,         \* the stick's position: at rest or not
  gear,
  sequence,
  lease_age,      \* periods since the last accepted drive
  age,            \* per input: periods since its last valid message
  session_ready, topology_ok,
  published,      \* the last command
  served,         \* the timer has fired in this period
  connected,      \* external: the newest session the gateway has opened
  gone,           \* external: the newest session whose end the guard was told
  sent,           \* external: per session, messages sent by its browser
  inflight,       \* external: the messages that may arrive, once, never or again
  epoch,          \* observer: times the guard was enabled
  released,       \* observer: newest release received in this session
  accepted,       \* observer: the drive accepted last: whose, and its delay
  enabled_at      \* observer: messages sent before the guard was last enabled

guard == <<session, armed, pressed, pushed, gear, sequence, lease_age>>
inputs == <<age, session_ready, topology_ok>>
network == <<connected, gone, sent, inflight>>
observer == <<epoch, released, accepted, enabled_at>>
vars == <<guard, inputs, published, served, network, observer>>

Sessions == 1..MaxSession
Message == [session: Sessions, kind: {"drive", "release", "heartbeat"}, rest: BOOLEAN,
            sequence: Nat \ {0}, delay: 0..DelayLimit]

TypeOK ==
  /\ session \in 0..connected /\ connected \in 0..MaxSession /\ gone \in 0..connected
  /\ armed \in BOOLEAN /\ pressed \in BOOLEAN /\ pushed \in BOOLEAN
  /\ gear \in Gears
  /\ lease_age \in 0..Lease + 1
  /\ age \in [Inputs -> Nat] /\ \A i \in Inputs : age[i] <= Limit(i) + 2
  /\ session_ready \in BOOLEAN /\ topology_ok \in BOOLEAN
  /\ published \in Gears \cup {Zero} /\ served \in BOOLEAN
  /\ sent \in [Sessions -> Nat]
  /\ inflight \subseteq Message
  /\ epoch \in 0..MaxEnable
  /\ session # 0 => sequence \in 0..sent[session]

-----------------------------------------------------------------------------
(* Safety *)

Fresh(i) == age[i] <= Limit(i)

Healthy == topology_ok /\ session_ready /\ \A i \in Inputs : Fresh(i)

(* stop(): only enable() ends it. *)
Stop == armed' = FALSE /\ pressed' = FALSE /\ UNCHANGED <<pushed, lease_age>>

(* connect() that carries on with the sequence of the operator before.        *)
ConnectKeepsSequence(s) ==
  /\ s = connected /\ s # gone
  /\ IF s = session THEN UNCHANGED <<guard, observer>>
     ELSE /\ session' = s /\ gear' = "slow" /\ Stop
          /\ released' = 0 /\ accepted' = NoDrive /\ enabled_at' = 0
          /\ UNCHANGED <<sequence, epoch>>
  /\ UNCHANGED <<inputs, published, served, network>>

(* connect(): repeated by the gateway until the guard reports the session,    *)
(* and never once the operator has left.                                     *)
Connect(s) ==
  /\ s = connected /\ s # gone
  /\ IF s = session THEN UNCHANGED <<guard, observer>>
     ELSE /\ session' = s /\ sequence' = 0 /\ gear' = "slow" /\ Stop
          /\ released' = 0 /\ accepted' = NoDrive /\ enabled_at' = 0
          /\ UNCHANGED epoch
  /\ UNCHANGED <<inputs, published, served, network>>

Disconnect ==
  /\ session # 0
  /\ session' = 0 /\ gone' = session /\ Stop
  /\ UNCHANGED <<gear, sequence, inputs, published, served, connected, sent, inflight, observer>>

(* The stop button, the page going to the background, a malformed request.    *)
StopRequest ==
  /\ session # 0 /\ Stop
  /\ UNCHANGED <<session, gear, sequence, inputs, published, served, network, observer>>

ChangeGear(g) ==
  /\ session # 0
  /\ gear' = g /\ Stop
  /\ UNCHANGED <<session, sequence, inputs, published, served, network, observer>>

(* An enable() that keeps a stick pressed since before.                      *)
EnableKeepsPress ==
  /\ session # 0 /\ epoch < MaxEnable
  /\ IF Healthy
     THEN /\ armed' = TRUE /\ epoch' = epoch + 1
          /\ enabled_at' = IF armed THEN enabled_at ELSE sent[session]
          /\ UNCHANGED <<pressed, pushed, lease_age, released, accepted>>
     ELSE Stop /\ UNCHANGED observer
  /\ UNCHANGED <<session, gear, sequence, inputs, published, served, network>>

Enable ==
  /\ session # 0 /\ epoch < MaxEnable
  /\ IF Healthy
     THEN /\ armed' = TRUE /\ pressed' = FALSE
          /\ epoch' = epoch + 1
          /\ enabled_at' = IF armed THEN enabled_at ELSE sent[session]
          /\ UNCHANGED <<pushed, lease_age, released, accepted>>
     ELSE Stop /\ UNCHANGED observer
  /\ UNCHANGED <<session, gear, sequence, inputs, published, served, network>>

Receives(m, kind) ==
  /\ m \in inflight /\ m.kind = kind
  /\ UNCHANGED <<session, gear, inputs, published, served, network>>

(* The guard's reasons to drop a message unread.                             *)
Outdated(m) == m.session # session \/ m.sequence <= sequence

(* A release() that sets no barrier.                                         *)
ReleaseWithoutBarrier(m) ==
  /\ Receives(m, "release")
  /\ IF Outdated(m) THEN UNCHANGED <<guard, observer>>
     ELSE /\ pressed' = FALSE /\ released' = m.sequence
          /\ UNCHANGED <<armed, pushed, sequence, lease_age, epoch, accepted, enabled_at>>

Release(m) ==
  /\ Receives(m, "release")
  /\ IF Outdated(m) THEN UNCHANGED <<guard, observer>>
     ELSE /\ sequence' = m.sequence /\ pressed' = FALSE /\ released' = m.sequence
          /\ UNCHANGED <<armed, pushed, lease_age, epoch, accepted, enabled_at>>

Drive(m) ==
  /\ Receives(m, "drive")
  /\ IF ~armed \/ Outdated(m) THEN UNCHANGED <<guard, observer>>
     ELSE /\ sequence' = m.sequence
          /\ IF ~Healthy THEN Stop /\ UNCHANGED accepted
             ELSE /\ pressed' = TRUE /\ pushed' = ~m.rest /\ lease_age' = 0
                  /\ accepted' = [session |-> m.session, sequence |-> m.sequence, delay |-> m.delay]
                  /\ UNCHANGED armed
          /\ UNCHANGED <<epoch, released, enabled_at>>

(* heartbeat(), of the older pages: its deadline is a diagnostic only.        *)
Heartbeat(m) ==
  /\ Receives(m, "heartbeat")
  /\ IF ~armed \/ Outdated(m) THEN UNCHANGED guard
     ELSE /\ sequence' = m.sequence
          /\ UNCHANGED <<armed, pressed, pushed, lease_age>>
  /\ UNCHANGED observer

(* A timer that leaves the inputs to drive() while the stick is pressed.      *)
TimerTrustsDrive ==
  /\ topology_ok' \in BOOLEAN
  /\ UNCHANGED armed
  /\ pressed' = (pressed /\ (armed => lease_age < Lease))
  /\ pushed' = IF armed /\ pressed /\ ~pressed' THEN FALSE ELSE pushed
  /\ published' = IF armed /\ pressed' /\ pushed' THEN gear ELSE Zero
  /\ served' = TRUE
  /\ UNCHANGED <<session, gear, sequence, lease_age, age, session_ready, network, observer>>

(* The timer: the topology check, which runs every 0.5 s only, tick(), and    *)
(* the command.                                                              *)
Timer ==
  /\ topology_ok' \in BOOLEAN
  /\ LET healthy == topology_ok' /\ session_ready /\ \A i \in Inputs : Fresh(i) IN
     /\ armed' = (armed /\ healthy)
     /\ pressed' = IF armed /\ (~healthy \/ lease_age >= Lease) THEN FALSE ELSE pressed
  /\ pushed' = IF armed' /\ pressed /\ ~pressed' THEN FALSE ELSE pushed
  /\ published' = IF armed' /\ pressed' /\ pushed' THEN gear ELSE Zero
  /\ served' = TRUE
  /\ UNCHANGED <<session, gear, sequence, lease_age, age, session_ready, network, observer>>

-----------------------------------------------------------------------------
(* The inputs *)

GatewayState(ready) ==
  /\ session_ready' = ready /\ age' = [age EXCEPT !["gateway"] = 0]
  /\ UNCHANGED <<guard, topology_ok, published, served, network, observer>>

Sensor(i) ==  \* a message with a recent stamp
  /\ age' = [age EXCEPT ![i] = 0]
  /\ UNCHANGED <<guard, session_ready, topology_ok, published, served, network, observer>>

(* The gateway's connection and the operator's browser, external.             *)

Open ==
  /\ connected < MaxSession
  /\ connected' = connected + 1
  /\ UNCHANGED <<guard, inputs, published, served, gone, sent, inflight, observer>>

(* A page sends drives once it has seen the guard enabled.                   *)
Send(kind, rest) ==
  /\ kind = "drive" => epoch # 0
  /\ connected # 0 /\ SumFunction(sent) < MaxMessage
  /\ sent' = [sent EXCEPT ![connected] = @ + 1]
  /\ inflight' = inflight \cup {[session |-> connected, kind |-> kind, rest |-> rest,
                                 sequence |-> sent[connected] + 1, delay |-> 0]}
  /\ UNCHANGED <<guard, inputs, published, served, connected, gone, observer>>

Older(n, limit) == IF n < limit THEN n + 1 ELSE n

(* A period ends after the timer has fired.                                  *)
Tick ==
  /\ served /\ served' = FALSE
  /\ age' = [i \in Inputs |-> Older(age[i], Limit(i) + 2)]
  /\ lease_age' = Older(lease_age, Lease + 1)
  /\ inflight' = {[m EXCEPT !.delay = Older(@, DelayLimit)] : m \in inflight}
  /\ UNCHANGED <<session, armed, pressed, pushed, gear, sequence, session_ready, topology_ok,
                 published, connected, gone, sent, observer>>

Init ==
  /\ session = 0 /\ armed = FALSE /\ pressed = FALSE /\ pushed = FALSE
  /\ gear = "slow" /\ sequence = 0 /\ lease_age = Lease + 1
  /\ age = [i \in Inputs |-> Limit(i) + 2]
  /\ session_ready = FALSE /\ topology_ok = TRUE
  /\ published = Zero /\ served = FALSE
  /\ connected = 0 /\ gone = 0 /\ sent = [s \in Sessions |-> 0] /\ inflight = {}
  /\ epoch = 0 /\ released = 0 /\ accepted = NoDrive /\ enabled_at = 0

Next ==
  \/ \E s \in Sessions : Connect(s)
  \/ Disconnect \/ StopRequest \/ \E g \in Gears : ChangeGear(g)
  \/ Enable
  \/ \E m \in inflight : Release(m) \/ Drive(m) \/ Heartbeat(m)
  \/ Timer
  \/ \E ready \in BOOLEAN : GatewayState(ready)
  \/ \E i \in Sensors : Sensor(i)
  \/ Open
  \/ \E rest \in BOOLEAN : Send("drive", rest)
  \/ \E kind \in {"release", "heartbeat"} : Send(kind, TRUE)
  \/ Tick

Spec == Init /\ [][Next]_vars

-----------------------------------------------------------------------------
(* Properties *)

Auth == IF armed THEN epoch ELSE 0

Command == IF armed /\ pressed /\ pushed /\ lease_age < Lease THEN gear ELSE Zero

Interlock == INSTANCE VelocityInterlock
               WITH Tokens <- 1..MaxEnable, Velocities <- Gears, Zero <- Zero,
                    auth <- Auth, fresh <- Command, published <- published

(* The guard is an interlock like the one of the navigation: enabling is its   *)
(* authorisation, and whatever stops the guard, in whatever order it comes     *)
(* with late messages, needs a new enable and a new push of the stick.        *)
ImplementsInterlock == Interlock!Spec

Moving == armed /\ pressed

(* Letting go is final, and so is a change of operator: the guard never moves  *)
(* by a drive that is older than a release it has received, nor by one of an   *)
(* earlier operator, however late the drive comes and whatever was pressed.    *)
ReleaseIsFinal == Moving => accepted.session = session /\ accepted.sequence > released

(* The robot moves for one lease after the last accepted drive at most, and    *)
(* for one period after any input has gone stale.                            *)
StopsInTime ==
  published # Zero =>
    /\ lease_age <= Lease
    /\ \A i \in Inputs : age[i] <= Limit(i) + 1

(* "Recovery does not replay an old motion": a guard that was stopped and is   *)
(* enabled again moves only by a drive sent after that.                      *)
RecoveryReplaysNothing == Moving => accepted.sequence > enabled_at

(* "300 ms counted from the time it was issued; a copy that comes late does    *)
(* not renew": the guard moves by no drive that was longer on its way.        *)
LateDrivesDoNotRenew == Moving => accepted.delay < DelayLimit
=============================================================================
