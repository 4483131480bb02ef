----------------------------- MODULE MotionGate -----------------------------
(***************************************************************************)
(* carcar_navigation::MotionGate and the NavigationMotionGate node around   *)
(* it: the last software stage between Nav2's velocity smoother and the     *)
(* chassis.  It keeps a permit (token and the time it was renewed), the     *)
(* last command and its time, and the last perception heartbeat.  The code  *)
(* never runs a timer for expiry: every entry point first calls expire(),   *)
(* so a lapsed lease stays in the fields until somebody calls in.  The      *)
(* operators Live* are the values of the fields after that call.            *)
(*                                                                          *)
(* One tick of `now` stands for the period of the 20 ms output timer.       *)
(***************************************************************************)
EXTENDS Integers

CONSTANTS
  Tokens,             \* action sequence numbers carried by motion_permit
  Velocities,         \* finite non-zero commands
  Zero,               \* Twist{}
  NotFinite,          \* a Twist holding a NaN or an infinity
  Lease,              \* permit_timeout, in ticks
  CommandAge,         \* command_timeout, in ticks
  PerceptionTimeout,  \* perception_timeout, in ticks
  RequirePerception,  \* require_perception_health
  MaxTime             \* bound on the clock, for model checking only

ASSUME ConstantsAssumption ==
  /\ Tokens \subseteq Nat \ {0}
  /\ Zero \notin Velocities
  /\ NotFinite \notin Velocities \cup {Zero}
  /\ Lease \in Nat \ {0} /\ CommandAge \in Nat \ {0}
  /\ PerceptionTimeout \in Nat \ {0}
  /\ RequirePerception \in BOOLEAN
  /\ MaxTime \in Nat

VARIABLES
  now,                \* the steady clock
  token, permit_time,
  have_command, command, command_time,
  perception_allowed, perception_time,
  published,          \* the last Twist on /cmd_vel
  served              \* the output timer has fired in this tick

permitVars == <<token, permit_time>>
commandVars == <<have_command, command, command_time>>
perceptionVars == <<perception_allowed, perception_time>>
vars == <<now, permitVars, commandVars, perceptionVars, published, served>>

Twists == Velocities \cup {Zero}

TypeOK ==
  /\ now \in Nat
  /\ token \in Tokens \cup {0}
  /\ permit_time \in Nat
  /\ have_command \in BOOLEAN
  /\ command \in Twists
  /\ command_time \in Nat
  /\ perception_allowed \in BOOLEAN
  /\ perception_time \in Int
  /\ published \in Twists
  /\ served \in BOOLEAN

-----------------------------------------------------------------------------
(* expire(): the fields as the caller finds them. *)

PerceptionLapsed ==
  /\ RequirePerception
  /\ now - perception_time > PerceptionTimeout \/ now < perception_time

LeaseLapsed == now - permit_time > Lease \/ now < permit_time

LivePerception == perception_allowed /\ ~PerceptionLapsed

LiveToken == IF PerceptionLapsed \/ LeaseLapsed THEN 0 ELSE token

LiveHave == have_command /\ ~PerceptionLapsed /\ ~LeaseLapsed

Blocked == RequirePerception /\ ~LivePerception

(* An output that trusts a command until the permit itself lapses. *)
OutputAgeless ==
  IF LivePerception /\ LiveToken # 0 /\ LiveHave THEN command ELSE Zero

Output ==
  IF LivePerception /\ LiveToken # 0 /\ LiveHave /\ now - command_time <= CommandAge
  THEN command ELSE Zero

-----------------------------------------------------------------------------
(* A renewal that keeps the command whatever generation it belongs to. *)
PermitKeepsCommand(t) ==
  /\ perception_allowed' = LivePerception
  /\ IF Blocked
     THEN /\ token' = 0
          /\ have_command' = LiveHave
          /\ UNCHANGED permit_time
     ELSE /\ have_command' = (LiveHave /\ t # 0)
          /\ token' = t
          /\ permit_time' = now
  /\ UNCHANGED <<command, command_time, perception_time>>

(* permit(), called with 0 by the stop hook and by the permit topic when     *)
(* the behaviour tree withdraws its authorisation.                           *)
PermitTo(t) ==
  /\ perception_allowed' = LivePerception
  /\ IF Blocked
     THEN /\ token' = 0
          /\ have_command' = LiveHave
          /\ UNCHANGED permit_time
     ELSE /\ have_command' = (LiveHave /\ t # 0 /\ t = LiveToken)
          /\ token' = t
          /\ permit_time' = now
  /\ UNCHANGED <<command, command_time, perception_time>>

Permit(t) ==
  /\ PermitTo(t)
  /\ UNCHANGED <<now, published, served>>

(* A command() without the isfinite() loop. *)
CommandUnchecked(v) ==
  /\ perception_allowed' = LivePerception
  /\ token' = LiveToken
  /\ IF Blocked \/ LiveToken = 0
     THEN have_command' = LiveHave /\ UNCHANGED <<command, command_time>>
     ELSE have_command' = TRUE /\ command' = v /\ command_time' = now
  /\ UNCHANGED <<now, permit_time, perception_time, published, served>>

Command(v) ==
  /\ perception_allowed' = LivePerception
  /\ token' = LiveToken
  /\ IF Blocked \/ LiveToken = 0
     THEN have_command' = LiveHave /\ UNCHANGED <<command, command_time>>
     ELSE IF v = NotFinite
          THEN have_command' = FALSE /\ UNCHANGED <<command, command_time>>
          ELSE have_command' = TRUE /\ command' = v /\ command_time' = now
  /\ UNCHANGED <<now, permit_time, perception_time, published, served>>

(* perception_heartbeat() that does not look for a change of the verdict. *)
HeartbeatKeepsToken(allowed) ==
  /\ token' = LiveToken
  /\ have_command' = (LiveHave /\ allowed)
  /\ perception_allowed' = allowed
  /\ perception_time' = now
  /\ UNCHANGED <<now, permit_time, command, command_time, published, served>>

Heartbeat(allowed) ==
  LET changed == RequirePerception /\ allowed # LivePerception IN
  /\ token' = IF changed \/ (RequirePerception /\ ~allowed) THEN 0 ELSE LiveToken
  /\ have_command' = (LiveHave /\ ~changed /\ allowed)
  /\ perception_allowed' = allowed
  /\ perception_time' = now
  /\ UNCHANGED <<now, permit_time, command, command_time, published, served>>

(* The 20 ms timer: output() and then enabled(), which expires again to no    *)
(* effect.                                                                   *)
Timer ==
  /\ published' = Output
  /\ served' = TRUE
  /\ perception_allowed' = LivePerception
  /\ token' = LiveToken
  /\ have_command' = LiveHave
  /\ UNCHANGED <<now, permit_time, command, command_time, perception_time>>

(* The pre-shutdown hook and the end of main(). *)
Stop ==
  /\ PermitTo(0)
  /\ published' = Zero
  /\ UNCHANGED <<now, served>>

(* The executor does not starve the output timer: a period ends only after    *)
(* it has fired.                                                             *)
Tick ==
  /\ now < MaxTime
  /\ served
  /\ now' = now + 1
  /\ served' = FALSE
  /\ UNCHANGED <<permitVars, commandVars, perceptionVars, published>>

Init ==
  /\ now = 0
  /\ token = 0 /\ permit_time = 0
  /\ have_command = FALSE /\ command = Zero /\ command_time = 0
  /\ perception_allowed = ~RequirePerception
  /\ perception_time = -(PerceptionTimeout + 1)   \* -INFINITY: lapsed already
  /\ published = Zero
  /\ served = FALSE

Next ==
  \/ \E t \in Tokens \cup {0} : Permit(t)
  \/ \E v \in Twists \cup {NotFinite} : Command(v)
  \/ \E allowed \in BOOLEAN : Heartbeat(allowed)
  \/ Timer
  \/ Stop
  \/ Tick

Spec == Init /\ [][Next]_vars

-----------------------------------------------------------------------------
(* Properties *)

(* The authorisation in force and the command it covers.                     *)
Auth == IF LivePerception THEN LiveToken ELSE 0

Fresh == IF Auth # 0 /\ LiveHave /\ now - command_time <= CommandAge
         THEN command ELSE Zero

Interlock == INSTANCE VelocityInterlock
               WITH auth <- Auth, fresh <- Fresh, published <- published

(* Lazy expiry is as good as a clock that revokes on time: with perception   *)
(* required, every step of the gate is one the interlock allows, so nothing  *)
(* reaches /cmd_vel that was not received under the authorisation, and the   *)
(* perception verdict, that are live when it is sent.                        *)
ImplementsInterlock == Interlock!Spec

(* Dead man's handle: once the permits, the commands or the heartbeats stop  *)
(* arriving, /cmd_vel is zero one output period after the shortest of the    *)
(* three limits, whatever calls came in between.                             *)
StopDeadline ==
  published # Zero =>
    /\ now - permit_time <= Lease + 1
    /\ now - command_time <= CommandAge + 1
    /\ RequirePerception => now - perception_time <= PerceptionTimeout + 1
=============================================================================
