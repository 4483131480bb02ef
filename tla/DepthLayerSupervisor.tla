------------------------- MODULE DepthLayerSupervisor -------------------------
(***************************************************************************)
(* The legacy_switch mode of DepthLayerSupervisor: it turns the depth layer  *)
(* of both costmaps off when the camera fails and on again when it has been   *)
(* healthy long enough.  A switch sets a parameter on both costmap nodes,     *)
(* clears both costmaps and waits until both have published again; motion is  *)
(* not allowed meanwhile, and never again once a switch has failed.           *)
(*                                                                          *)
(* Time is counted in periods of the 100 ms timer.  Service calls go to other *)
(* processes: each is served, refused or never answered.                      *)
(***************************************************************************)
EXTENDS Naturals

CONSTANTS
  Costmaps,        \* the local and the global costmap node
  RecoveryStableTime,      \* recovery_stable_s
  SwitchTimeout,   \* switch_timeout_s
  RebuildWait      \* rebuild_wait_s

ASSUME SwitchAssumption ==
  RecoveryStableTime \in Nat \ {0} /\ SwitchTimeout \in Nat \ {0} /\ RebuildWait \in Nat

VARIABLES
  phase,
  target_enabled, active_enabled,
  initial_sync_needed,
  pending,           \* costmaps whose answer the current step awaits
  operation_ok,
  motion_allowed,    \* the last value published
  permitted,         \* the last tick published TRUE, whatever it published after it
  healthy,           \* health_fresh() at the last tick
  healthy_for,       \* periods since healthy_since, at most RecoveryStableTime
  elapsed, waited,   \* periods since switch_started and since rebuild_started
  rebuilt,           \* costmaps received since rebuild_started
  calls,             \* per costmap: the service call under way
  enabled            \* per costmap: the depth layer's parameter

switch == <<target_enabled, active_enabled, initial_sync_needed>>
servers == <<calls, enabled>>
permit == <<motion_allowed, permitted>>
switch_vars == <<phase, switch, pending, operation_ok, permit, healthy, healthy_for,
                 elapsed, waited, rebuilt, servers>>

Phases == {"IDLE", "SET_PARAMETERS", "CLEAR_COSTMAPS", "REBUILD", "FAILED"}
Switching == phase \in {"SET_PARAMETERS", "CLEAR_COSTMAPS", "REBUILD"}

SwitchTypeOK ==
  /\ phase \in Phases
  /\ target_enabled \in BOOLEAN /\ active_enabled \in BOOLEAN
  /\ initial_sync_needed \in BOOLEAN
  /\ pending \subseteq Costmaps /\ rebuilt \subseteq Costmaps
  /\ operation_ok \in BOOLEAN /\ motion_allowed \in BOOLEAN /\ permitted \in BOOLEAN
  /\ healthy \in BOOLEAN /\ healthy_for \in 0 .. RecoveryStableTime
  /\ elapsed \in 0 .. SwitchTimeout /\ waited \in 0 .. SwitchTimeout
  /\ calls \in [Costmaps -> {"none", "set", "clear", "served", "refused"}]
  /\ enabled \in [Costmaps -> BOOLEAN]

-----------------------------------------------------------------------------
(* The costmap nodes, and the callbacks of the supervisor.                   *)

Serve(c) ==
  /\ calls[c] \in {"set", "clear"}
  /\ calls' = [calls EXCEPT ![c] = "served"]
  /\ enabled' = [enabled EXCEPT ![c] = IF calls[c] = "set" THEN target_enabled ELSE @]
  /\ UNCHANGED <<phase, switch, pending, operation_ok, permit, healthy, healthy_for,
                 elapsed, waited, rebuilt>>

Refuse(c) ==
  /\ calls[c] \in {"set", "clear"}
  /\ calls' = [calls EXCEPT ![c] = "refused"]
  /\ UNCHANGED <<phase, switch, pending, operation_ok, permit, healthy, healthy_for,
                 elapsed, waited, rebuilt, enabled>>

(* The lambdas of begin_switch() and begin_clear(): one answer less to await. *)
Callback(c) ==
  /\ calls[c] \in {"served", "refused"}
  /\ operation_ok' = (operation_ok /\ calls[c] = "served")
  /\ pending' = pending \ {c}
  /\ calls' = [calls EXCEPT ![c] = "none"]
  /\ UNCHANGED <<phase, switch, permit, healthy, healthy_for, elapsed, waited,
                 rebuilt, enabled>>

(* A costmap counts when it is received after rebuild_started.               *)
Costmap(c) ==
  /\ phase = "REBUILD"
  /\ rebuilt' = rebuilt \cup {c}
  /\ UNCHANGED <<phase, switch, pending, operation_ok, permit, healthy, healthy_for,
                 elapsed, waited, servers>>

-----------------------------------------------------------------------------
(* The timer *)

(* publish_allowed() in a tick that publishes one value only.                *)
Published(allowed) == motion_allowed' = allowed /\ permitted' = allowed

CallBoth(service) == pending' = Costmaps /\ calls' = [c \in Costmaps |-> service]

(* health_fresh() and healthy_since at the start of a tick.                  *)
Health(fresh) ==
  /\ healthy' = fresh
  /\ healthy_for' = IF ~fresh \/ ~healthy THEN 0
                    ELSE IF healthy_for < RecoveryStableTime THEN healthy_for + 1 ELSE healthy_for

fail_switch ==
  /\ phase' = "FAILED" /\ Published(FALSE)
  /\ UNCHANGED <<switch, pending, operation_ok, elapsed, waited, rebuilt, servers>>

(* begin_switch() once its early return is past.                             *)
BeginSwitch(enable) ==
  /\ phase' = "SET_PARAMETERS"
  /\ target_enabled' = enable
  /\ elapsed' = 0
  /\ operation_ok' = TRUE
  /\ motion_allowed' = FALSE
  /\ CallBoth("set")

(* An off-by-one in the comparison with switch_timeout_s.                     *)
TimedOutLate == elapsed > SwitchTimeout

TimedOut == elapsed >= SwitchTimeout

Waits == IF waited < SwitchTimeout THEN waited + 1 ELSE waited
Rebuilt == phase = "REBUILD" /\ ~TimedOut /\ Waits >= RebuildWait /\ rebuilt = Costmaps

FailedTick ==
  /\ phase = "FAILED"
  /\ Published(FALSE)
  /\ UNCHANGED <<phase, switch, pending, operation_ok, elapsed, waited, rebuilt, servers>>

(* A timeout that gives the switch up instead of latching the failure.        *)
TimeoutGivesUp ==
  /\ Switching /\ TimedOut
  /\ phase' = "IDLE" /\ Published(FALSE)
  /\ UNCHANGED <<switch, pending, operation_ok, elapsed, waited, rebuilt, servers>>

TimeoutTick == Switching /\ TimedOut /\ fail_switch

(* Both costmaps have answered: begin_clear(), or start the rebuild.         *)
AnsweredTick ==
  /\ phase \in {"SET_PARAMETERS", "CLEAR_COSTMAPS"} /\ ~TimedOut /\ pending = {}
  /\ IF ~operation_ok THEN fail_switch
     ELSE /\ elapsed' = elapsed + 1
          /\ IF phase = "SET_PARAMETERS"
             THEN phase' = "CLEAR_COSTMAPS" /\ CallBoth("clear") /\ UNCHANGED <<waited, rebuilt>>
             ELSE /\ phase' = "REBUILD" /\ waited' = 0 /\ rebuilt' = {}
                  /\ UNCHANGED <<pending, calls>>
          /\ Published(FALSE)
          /\ UNCHANGED <<switch, operation_ok, enabled>>

(* Waiting that starts the switch's clock again.                             *)
WaitRestartsClock ==
  /\ ~TimedOut
  /\ \/ phase \in {"SET_PARAMETERS", "CLEAR_COSTMAPS"} /\ pending # {} /\ UNCHANGED waited
     \/ phase = "REBUILD" /\ ~Rebuilt /\ waited' = Waits
  /\ elapsed' = 0
  /\ Published(FALSE)
  /\ UNCHANGED <<phase, switch, pending, operation_ok, rebuilt, servers>>

WaitTick ==
  /\ ~TimedOut
  /\ \/ phase \in {"SET_PARAMETERS", "CLEAR_COSTMAPS"} /\ pending # {} /\ UNCHANGED waited
     \/ phase = "REBUILD" /\ ~Rebuilt /\ waited' = Waits
  /\ elapsed' = elapsed + 1
  /\ Published(FALSE)
  /\ UNCHANGED <<phase, switch, pending, operation_ok, rebuilt, servers>>

(* The end of tick(), which goes on after a switch has just been completed.   *)
(* active and sync are active_enabled and initial_sync_needed at that point.  *)
Decide(active, sync, ready) ==
  LET wanted == IF sync \/ (active /\ ~healthy') THEN {FALSE}
                ELSE IF ~active /\ healthy' /\ healthy_for' >= RecoveryStableTime THEN {TRUE}
                ELSE {}
  IN
  /\ active_enabled' = active /\ initial_sync_needed' = sync
  /\ UNCHANGED <<waited, rebuilt, enabled>>
  /\ IF wanted # {} /\ ready
     THEN \E enable \in wanted : BeginSwitch(enable)
     ELSE /\ IF ~sync /\ active /\ ~healthy'
             THEN phase' = "FAILED" /\ motion_allowed' = FALSE
             ELSE phase' = "IDLE" /\ motion_allowed' = TRUE
          /\ UNCHANGED <<target_enabled, pending, operation_ok, elapsed, calls>>

IdleTick(ready) ==
  /\ phase = "IDLE"
  /\ Decide(active_enabled, initial_sync_needed, ready)
  /\ permitted' = motion_allowed'

(* A completed switch ends the tick: the camera is not looked at again.       *)
CompletedReturns(ready) ==
  /\ Rebuilt
  /\ phase' = "IDLE" /\ Published(TRUE)
  /\ active_enabled' = target_enabled /\ initial_sync_needed' = FALSE
  /\ UNCHANGED <<target_enabled, pending, operation_ok, elapsed, waited, rebuilt, servers>>

(* The switch is over and TRUE is published; tick() then goes on and may take  *)
(* the permit back.                                                         *)
CompletedTick(ready) ==
  /\ Rebuilt
  /\ permitted' = TRUE
  /\ Decide(target_enabled, FALSE, ready)

SwitchTick(fresh, ready) ==
  /\ Health(fresh)
  /\ \/ FailedTick
     \/ TimeoutTick
     \/ AnsweredTick
     \/ WaitTick
     \/ IdleTick(ready)
     \/ CompletedTick(ready)

SwitchInit ==
  /\ phase = "IDLE"
  /\ target_enabled = FALSE /\ active_enabled = FALSE
  /\ initial_sync_needed = TRUE
  /\ pending = {} /\ rebuilt = {}
  /\ operation_ok = TRUE /\ motion_allowed = TRUE /\ permitted = TRUE
  /\ healthy = FALSE /\ healthy_for = 0
  /\ elapsed = 0 /\ waited = 0
  /\ calls = [c \in Costmaps |-> "none"]
  /\ enabled \in [Costmaps -> BOOLEAN]

SwitchNext ==
  \/ \E c \in Costmaps : Serve(c) \/ Refuse(c) \/ Callback(c) \/ Costmap(c)
  \/ \E fresh, ready \in BOOLEAN : SwitchTick(fresh, ready)

(* The wall timer fires; nothing obliges the costmap nodes to answer.        *)
SwitchSpec ==
  /\ SwitchInit /\ [][SwitchNext]_switch_vars
  /\ WF_switch_vars(\E fresh, ready \in BOOLEAN : SwitchTick(fresh, ready))

-----------------------------------------------------------------------------
(* Properties *)

(* After the first synchronisation no tick ends with the robot permitted to    *)
(* move while the two costmaps disagree about the depth layer, or with what   *)
(* the supervisor believes, or while a call that could change one is under way. *)
LayersAgree ==
  motion_allowed /\ ~initial_sync_needed =>
    \A c \in Costmaps : calls[c] = "none" /\ enabled[c] = active_enabled

(* With the depth layer in use, a tick that sees no healthy camera permits     *)
(* motion in one case only: it completes the switch that turns the layer on,  *)
(* whose TRUE goes out before the camera is looked at, and it takes the       *)
(* permit back before it ends.                                              *)
MovesWithHealthyCamera ==
  [][permitted' /\ active_enabled' /\ ~healthy' =>
       phase = "REBUILD" /\ target_enabled /\ ~motion_allowed']_<<phase, permit, active_enabled, healthy>>

(* No step of a switch lasts forever, even if no costmap ever answers: it goes *)
(* on, fails, or is followed by the opposite switch at once.                 *)
SwitchEnds ==
  /\ phase = "SET_PARAMETERS" ~> phase # "SET_PARAMETERS"
  /\ phase \in {"CLEAR_COSTMAPS", "REBUILD"} ~> phase \notin {"CLEAR_COSTMAPS", "REBUILD"}
=============================================================================
