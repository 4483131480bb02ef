-------------------------- MODULE RequiredStvlHealth --------------------------
(***************************************************************************)
(* RequiredStvlHealth and the required_stvl mode of DepthLayerSupervisor:   *)
(* whether the depth camera and the two STVL costmap layers are healthy     *)
(* enough for the robot to move.  Subscriptions report the camera filter's  *)
(* verdict, the obstacle clouds and the layers' diagnostics; a 100 ms timer *)
(* asks allowed() and publishes /navigation/perception_motion_allowed.      *)
(* One tick of `now` is the period of that timer.                           *)
(*                                                                          *)
(* A cloud's stamp and a layer's update_seq matter only by comparison with  *)
(* the last one seen, so a message carries the outcome of the comparison.   *)
(***************************************************************************)
EXTENDS Integers

CONSTANTS
  Layers,        \* the local and the global costmap's depth_stvl layer
  InputTimeout,  \* health_timeout_s, in ticks
  LayerTimeout,  \* layer_timeout_s, in ticks
  StableTime,    \* recovery_stable_s, in ticks
  MaxUpdates,    \* bound on the updates of one layer
  MaxTime        \* bound on the clock

ASSUME ConstantsAssumption ==
  /\ InputTimeout \in Nat \ {0} /\ LayerTimeout \in Nat \ {0}
  /\ StableTime \in Nat \ {0}
  /\ MaxUpdates \in Nat /\ MaxTime \in Nat

Never == -1      \* a time of -INFINITY, or a healthy_since of INFINITY

VARIABLES
  now,
  camera_ok, camera_time,
  cloud_ok, cloud_time,
  layers,            \* per layer: seen, current, updates, time
  healthy_since,
  barrier,           \* per layer: its updates when health came back
  allowed,           \* the last verdict published
  served,            \* the timer has fired in this tick
  troubled_at,       \* observer: when a message or a tick last found a fault
  sampled_at,        \* observer: when the last cloud with a new stamp arrived
  renewed            \* observer: per layer, new updates since then, at most 2

inputs == <<camera_ok, camera_time, cloud_ok, cloud_time, layers>>
observer == <<troubled_at, renewed, sampled_at>>
vars == <<now, inputs, healthy_since, barrier, allowed, served, observer>>

Layer == [seen: BOOLEAN, current: BOOLEAN, updates: Nat, time: Nat \cup {Never}]

TypeOK ==
  /\ now \in Nat
  /\ camera_ok \in BOOLEAN /\ camera_time \in Nat \cup {Never}
  /\ cloud_ok \in BOOLEAN /\ cloud_time \in Nat \cup {Never}
  /\ layers \in [Layers -> Layer]
  /\ healthy_since \in Nat \cup {Never}
  /\ barrier \in [Layers -> Nat]
  /\ allowed \in BOOLEAN /\ served \in BOOLEAN
  /\ troubled_at \in Nat /\ sampled_at \in Nat \cup {Never}
  /\ renewed \in [Layers -> 0 .. 2]

-----------------------------------------------------------------------------
(* The observer's half of close(): a fault starts the count again.           *)
Trouble ==
  troubled_at' = now /\ renewed' = [i \in Layers |-> 0] /\ UNCHANGED sampled_at

Close == healthy_since' = Never /\ Trouble

Fresh(t, timeout) == t # Never /\ now >= t /\ now - t <= timeout

(* camera() that only stores the flag: a fault between two timer calls is lost *)
CameraFlagOnly(healthy) ==
  /\ camera_ok' = healthy /\ camera_time' = now
  /\ UNCHANGED healthy_since
  /\ IF healthy THEN UNCHANGED observer ELSE Trouble
  /\ UNCHANGED <<now, cloud_ok, cloud_time, layers, barrier, allowed, served>>

(* camera(): the filter's verdict; a fault is never overwritten unseen.      *)
Camera(healthy) ==
  /\ camera_ok' = healthy /\ camera_time' = now
  /\ IF healthy THEN UNCHANGED <<healthy_since, observer>> ELSE Close
  /\ UNCHANGED <<now, cloud_ok, cloud_time, layers, barrier, allowed, served>>

(* cloud() without the comparison of the stamps.                             *)
CloudRenewedByRepeat(stamp) ==
  /\ IF stamp = "invalid"
     THEN cloud_ok' = FALSE /\ UNCHANGED cloud_time /\ Close
     ELSE /\ cloud_ok' = TRUE /\ cloud_time' = now
          /\ sampled_at' = IF stamp = "advanced" THEN now ELSE sampled_at
          /\ UNCHANGED <<healthy_since, troubled_at, renewed>>
  /\ UNCHANGED <<now, camera_ok, camera_time, layers, barrier, allowed, served>>

(* cloud(): stale, future and absent stamps are invalid; one that does not    *)
(* advance is ignored and does not extend the lease.                         *)
Cloud(stamp) ==
  /\ CASE stamp = "invalid" ->
            cloud_ok' = FALSE /\ UNCHANGED cloud_time /\ Close
       [] stamp = "repeated" ->
            UNCHANGED <<cloud_ok, cloud_time, healthy_since, observer>>
       [] stamp = "advanced" ->
            /\ cloud_ok' = TRUE /\ cloud_time' = now /\ sampled_at' = now
            /\ UNCHANGED <<healthy_since, troubled_at, renewed>>
  /\ UNCHANGED <<now, camera_ok, camera_time, layers, barrier, allowed, served>>

(* layer() that lets a restarted costmap count on from zero without closing.  *)
LayerRestartIgnored(i, current, seq) ==
  LET l == layers[i]
      counted == IF seq = "back" THEN 1 ELSE l.updates + 1
  IN
  /\ seq = "new" => l.updates < MaxUpdates
  /\ seq \in {"same", "back"} => l.seen
  /\ layers' = [layers EXCEPT ![i] =
       IF seq = "same" THEN [l EXCEPT !.current = @ /\ current]
       ELSE [seen |-> TRUE, current |-> current, updates |-> counted, time |-> now]]
  /\ IF ~current THEN Close
     ELSE /\ UNCHANGED <<healthy_since, troubled_at, sampled_at>>
          /\ renewed' = [renewed EXCEPT ![i] = IF seq = "same" \/ @ = 2 THEN @ ELSE @ + 1]
  /\ UNCHANGED <<now, camera_ok, camera_time, cloud_ok, cloud_time, barrier, allowed, served>>

(* layer(): update_seq of a diagnostic against the last one seen; a malformed *)
(* one counts as not current with sequence 0.                                *)
LayerReport(i, current, seq) ==
  LET l == layers[i]
      counted == IF seq = "back" THEN 1 ELSE l.updates + 1
  IN
  /\ seq = "new" => l.updates < MaxUpdates
  /\ seq \in {"same", "back"} => l.seen
  /\ layers' = [layers EXCEPT ![i] =
       IF seq = "same" THEN [l EXCEPT !.current = @ /\ current]
       ELSE [seen |-> TRUE, current |-> current, updates |-> counted, time |-> now]]
  /\ IF ~current \/ seq = "back" THEN Close
     ELSE /\ UNCHANGED <<healthy_since, troubled_at, sampled_at>>
          /\ renewed' = [renewed EXCEPT ![i] = IF seq = "same" \/ @ = 2 THEN @ ELSE @ + 1]
  /\ UNCHANGED <<now, camera_ok, camera_time, cloud_ok, cloud_time, barrier, allowed, served>>

NoFailure ==
  /\ camera_ok /\ Fresh(camera_time, InputTimeout)
  /\ cloud_ok /\ Fresh(cloud_time, InputTimeout)
  /\ \A i \in Layers : layers[i].current /\ Fresh(layers[i].time, LayerTimeout)

Updates == [i \in Layers |-> layers[i].updates]

(* allowed() that folds the two updates it waits for into the barrier.       *)
VerdictEarlyBarrier ==
  LET since == IF healthy_since = Never THEN now ELSE healthy_since
      bar == IF healthy_since = Never
             THEN [i \in Layers |-> layers[i].updates - 2] ELSE barrier
  IN
  IF NoFailure
  THEN /\ healthy_since' = since /\ barrier' = bar
       /\ allowed' = /\ now - since >= StableTime
                     /\ \A i \in Layers : layers[i].updates > bar[i]
       /\ UNCHANGED observer
  ELSE allowed' = FALSE /\ Close /\ UNCHANGED barrier

(* allowed(), called by the timer, which publishes its answer.               *)
Verdict ==
  LET since == IF healthy_since = Never THEN now ELSE healthy_since
      bar == IF healthy_since = Never THEN Updates ELSE barrier
  IN
  IF NoFailure
  THEN /\ healthy_since' = since /\ barrier' = bar
       /\ allowed' = /\ now - since >= StableTime
                     /\ \A i \in Layers : layers[i].updates - bar[i] >= 2
       /\ UNCHANGED observer
  ELSE allowed' = FALSE /\ Close /\ UNCHANGED barrier

Publish ==
  /\ Verdict
  /\ served' = TRUE
  /\ UNCHANGED <<now, inputs>>

(* The timer fires in every period.                                          *)
Tick ==
  /\ now < MaxTime /\ served
  /\ now' = now + 1 /\ served' = FALSE
  /\ UNCHANGED <<inputs, healthy_since, barrier, allowed, observer>>

Init ==
  /\ now = 0
  /\ camera_ok = FALSE /\ camera_time = Never
  /\ cloud_ok = FALSE /\ cloud_time = Never
  /\ layers = [i \in Layers |->
       [seen |-> FALSE, current |-> FALSE, updates |-> 0, time |-> Never]]
  /\ healthy_since = Never
  /\ barrier = [i \in Layers |-> 0]
  /\ allowed = FALSE
  /\ served = FALSE
  /\ troubled_at = 0 /\ sampled_at = Never
  /\ renewed = [i \in Layers |-> 0]

Next ==
  \/ \E healthy \in BOOLEAN : Camera(healthy)
  \/ \E stamp \in {"invalid", "repeated", "advanced"} : Cloud(stamp)
  \/ \E i \in Layers, current \in BOOLEAN, seq \in {"new", "same", "back"} :
       LayerReport(i, current, seq)
  \/ Publish
  \/ Tick

Spec == Init /\ [][Next]_vars

-----------------------------------------------------------------------------
(* Properties *)

(* The unsigned difference updates - barrier never wraps: a costmap node that *)
(* restarts, and counts from zero again, has always closed the barrier first. *)
BarrierNeverAhead ==
  healthy_since # Never => \A i \in Layers : barrier[i] <= layers[i].updates

(* The timer allows motion only after StableTime without one fault, whether   *)
(* a message reported it (and a later message took it back before the timer   *)
(* looked) or the timer found it, and after each costmap has taken at least    *)
(* two new updates since that fault.                                         *)
AllowedIsEarned ==
  [][Publish /\ allowed' =>
       /\ now - troubled_at >= StableTime
       /\ \A i \in Layers : renewed[i] = 2]_vars

(* While motion is allowed no source has been silent for longer than its      *)
(* limit and one period.  Repeated clouds and repeated update_seq count as    *)
(* silence.                                                                  *)
SilenceStops ==
  allowed =>
    /\ now - camera_time <= InputTimeout + 1
    /\ now - sampled_at <= InputTimeout + 1
    /\ \A i \in Layers : now - layers[i].time <= LayerTimeout + 1
=============================================================================
