--------------------------- MODULE DepthHealth_proof ---------------------------
(***************************************************************************)
(* Proofs about DepthLayerSupervisor, the node that decides whether the depth *)
(* camera lets the robot move, in both of its modes: required_stvl, for any    *)
(* number of layers, any time limits and any bound on the updates and on the   *)
(* clock; and legacy_switch, for any set of costmaps, any time limits and any  *)
(* initial setting of their parameters.                                     *)
(***************************************************************************)
EXTENDS RequiredStvlHealth, DepthLayerSupervisor, TLAPS

(* The required_stvl mode. *)

(* Every field keeps its type; the unsigned counters never go below zero.    *)
THEOREM TypeCorrect == Spec => []TypeOK
<1>1. Init => TypeOK
  <2> SUFFICES ASSUME Init PROVE TypeOK
    OBVIOUS
  <2>1. /\ now \in Nat /\ troubled_at \in Nat /\ barrier \in [Layers -> Nat]
        /\ renewed \in [Layers -> 0 .. 2]
    BY DEF Init
  <2>2. layers \in [Layers -> Layer]
    BY DEF Init, Layer
  <2>3. allowed \in BOOLEAN /\ served \in BOOLEAN /\ camera_ok \in BOOLEAN /\ cloud_ok \in BOOLEAN
    BY Zenon DEF Init
  <2> QED
    BY <2>1, <2>2, <2>3, Zenon DEF Init, TypeOK
<1>2. TypeOK /\ [Next]_vars => TypeOK'
  <2> SUFFICES ASSUME TypeOK, [Next]_vars PROVE TypeOK'
    OBVIOUS
  <2> USE ConstantsAssumption DEF TypeOK, observer
  <2>0. ASSUME Close PROVE /\ healthy_since' \in Nat \cup {Never} /\ troubled_at' \in Nat
                           /\ renewed' \in [Layers -> 0 .. 2]
                           /\ sampled_at' \in Nat \cup {Never}
    BY <2>0 DEF Close, Trouble
  <2>1. ASSUME NEW ok \in BOOLEAN, Camera(ok) PROVE TypeOK'
    BY <2>0, <2>1 DEF Camera
  <2>2. ASSUME NEW stamp \in {"invalid", "repeated", "advanced"}, Cloud(stamp) PROVE TypeOK'
    BY <2>0, <2>2 DEF Cloud
  <2>3. ASSUME NEW i \in Layers, NEW current \in BOOLEAN, NEW seq \in {"new", "same", "back"},
               LayerReport(i, current, seq)
        PROVE  TypeOK'
    <3>1. layers' \in [Layers -> Layer]
      BY <2>3 DEF LayerReport, Layer
    <3>2. /\ healthy_since' \in Nat \cup {Never} /\ troubled_at' \in Nat
          /\ renewed' \in [Layers -> 0 .. 2] /\ sampled_at' \in Nat \cup {Never}
      BY <2>0, <2>3 DEF LayerReport
    <3> QED
      BY <2>3, <3>1, <3>2 DEF LayerReport
  <2>4. CASE Publish
    <3>1. allowed' \in BOOLEAN /\ barrier' \in [Layers -> Nat]
      BY <2>4 DEF Publish, Verdict, Updates, Layer
    <3>2. /\ healthy_since' \in Nat \cup {Never} /\ troubled_at' \in Nat
          /\ renewed' \in [Layers -> 0 .. 2] /\ sampled_at' \in Nat \cup {Never}
      BY <2>0, <2>4 DEF Publish, Verdict
    <3> QED
      BY <2>4, <3>1, <3>2 DEF Publish, inputs
  <2>5. CASE Tick
    <3>1. now' \in Nat
      BY <2>5 DEF Tick
    <3>2. served' \in BOOLEAN
      BY <2>5, Zenon DEF Tick
    <3> QED
      BY <2>5, <3>1, <3>2, Zenon DEF Tick, inputs
  <2>6. CASE UNCHANGED vars
    BY <2>6 DEF vars, inputs
  <2> QED
    BY <2>1, <2>2, <2>3, <2>4, <2>5, <2>6 DEF Next
<1> QED
  BY <1>1, <1>2, PTL DEF Spec

-----------------------------------------------------------------------------
(* While healthy_since is set no fault has been reported or found since, and  *)
(* the updates counted from the barrier are new ones.                        *)
Earning ==
  healthy_since # Never =>
    /\ troubled_at <= healthy_since /\ healthy_since <= now
    /\ \A i \in Layers :
         /\ barrier[i] <= layers[i].updates
         /\ renewed[i] = 2 \/ layers[i].updates - barrier[i] <= renewed[i]

(* What the timer has relied on is at most one period older after it fired.  *)
Slack == IF served THEN 0 ELSE 1

Recent ==
  /\ sampled_at = cloud_time
  /\ troubled_at <= now
  /\ allowed =>
       /\ now - camera_time <= InputTimeout + Slack
       /\ now - cloud_time <= InputTimeout + Slack
       /\ \A i \in Layers : now - layers[i].time <= LayerTimeout + Slack

(* The two facts about the barrier and the observer hold throughout.         *)
THEOREM EarningInductive == Spec => [](Earning /\ troubled_at <= now)
<1> DEFINE E == Earning /\ troubled_at <= now
<1>1. Init => E
  BY DEF Init, Earning
<1>2. TypeOK /\ E /\ [Next]_vars => E'
  <2> SUFFICES ASSUME TypeOK, E, [Next]_vars PROVE E'
    OBVIOUS
  <2> USE ConstantsAssumption DEF TypeOK, Earning, observer
  <2>0. ASSUME Close, now' = now PROVE E'
    BY <2>0 DEF Close, Trouble
  <2>1. ASSUME NEW ok \in BOOLEAN, Camera(ok) PROVE E'
    BY <2>0, <2>1 DEF Camera
  <2>2. ASSUME NEW stamp \in {"invalid", "repeated", "advanced"}, Cloud(stamp) PROVE E'
    BY <2>0, <2>2 DEF Cloud
  <2>3. ASSUME NEW i \in Layers, NEW current \in BOOLEAN, NEW seq \in {"new", "same", "back"},
               LayerReport(i, current, seq)
        PROVE  E'
    <3>1. CASE ~current \/ seq = "back"
      BY <2>0, <2>3, <3>1 DEF LayerReport
    <3>2. CASE current /\ seq # "back"
      <4>1. UNCHANGED <<now, barrier, healthy_since, troubled_at>>
        BY <2>3, <3>2 DEF LayerReport
      <4>2. ASSUME NEW j \in Layers
            PROVE  \/ layers'[j].updates = layers[j].updates /\ renewed'[j] = renewed[j]
                   \/ /\ layers'[j].updates = layers[j].updates + 1
                      /\ renewed'[j] = IF renewed[j] = 2 THEN 2 ELSE renewed[j] + 1
        BY <2>3, <3>2 DEF LayerReport, Layer
      <4>3. \A j \in Layers : layers[j].updates \in Nat /\ barrier[j] \in Nat /\ renewed[j] \in 0 .. 2
        BY DEF Layer
      <4> QED
        BY <4>1, <4>2, <4>3
    <3> QED
      BY <3>1, <3>2
  <2>4. CASE Publish
    <3>1. CASE ~NoFailure
      BY <2>0, <2>4, <3>1 DEF Publish, Verdict
    <3>2. CASE NoFailure
      <4>1. UNCHANGED <<now, layers, observer>>
        BY <2>4, <3>2 DEF Publish, Verdict, inputs
      <4>2. CASE healthy_since # Never
        BY <2>4, <3>2, <4>1, <4>2 DEF Publish, Verdict
      <4>3. CASE healthy_since = Never
        <5>1. healthy_since' = now /\ \A i \in Layers : barrier'[i] = layers[i].updates
          BY <2>4, <3>2, <4>3 DEF Publish, Verdict, Updates
        <5>2. \A i \in Layers : layers[i].updates \in Nat /\ renewed[i] \in 0 .. 2
          BY DEF Layer
        <5> QED
          BY <4>1, <5>1, <5>2
      <4> QED
        BY <4>2, <4>3
    <3> QED
      BY <3>1, <3>2
  <2>5. CASE Tick
    BY <2>5 DEF Tick, inputs, Never
  <2>6. CASE UNCHANGED vars
    BY <2>6 DEF vars, inputs
  <2> QED
    BY <2>1, <2>2, <2>3, <2>4, <2>5, <2>6 DEF Next
<1> QED
  BY <1>1, <1>2, TypeCorrect, PTL DEF Spec

(* updates - barrier, on two uint64_t, never wraps.                          *)
THEOREM BarrierBehind == Spec => []BarrierNeverAhead
<1>1. Earning => BarrierNeverAhead
  BY DEF Earning, BarrierNeverAhead
<1> QED
  BY <1>1, EarningInductive, PTL

(* A verdict that allows motion follows StableTime without a fault, and two   *)
(* new updates of every layer since the last one.                            *)
THEOREM MotionIsEarned == Spec => AllowedIsEarned
<1> DEFINE Earned == /\ now - troubled_at >= StableTime
                     /\ \A i \in Layers : renewed[i] = 2
<1>1. TypeOK /\ Earning /\ [Next]_vars => [Publish /\ allowed' => Earned]_vars
  <2> SUFFICES ASSUME TypeOK, Earning, Publish, allowed' PROVE Earned
    OBVIOUS
  <2> USE ConstantsAssumption DEF TypeOK, Earning
  <2>1. NoFailure
    BY DEF Publish, Verdict
  <2>2. healthy_since # Never
    BY <2>1 DEF Publish, Verdict
  <2>3. /\ now - healthy_since >= StableTime
        /\ \A i \in Layers : layers[i].updates - barrier[i] >= 2
    BY <2>1, <2>2 DEF Publish, Verdict
  <2>4. \A i \in Layers : layers[i].updates \in Nat /\ barrier[i] \in Nat /\ renewed[i] \in 0 .. 2
    BY DEF Layer
  <2>5. healthy_since \in Nat
    BY <2>2
  <2> QED
    BY <2>2, <2>3, <2>4, <2>5
<1> QED
  BY <1>1, TypeCorrect, EarningInductive, PTL DEF Spec, AllowedIsEarned

-----------------------------------------------------------------------------
(* The ages of the sources are bounded, by one period less once the timer of  *)
(* this period has fired.                                                    *)
THEOREM RecentInductive == Spec => []Recent
<1>1. Init => Recent
  BY DEF Init, Recent
<1>2. TypeOK /\ Recent /\ [Next]_vars => Recent'
  <2> SUFFICES ASSUME TypeOK, Recent, [Next]_vars PROVE Recent'
    OBVIOUS
  <2> USE ConstantsAssumption DEF TypeOK, Recent, Slack, observer
  <2>0. ASSUME Close PROVE troubled_at' = now /\ sampled_at' = sampled_at
    BY <2>0 DEF Close, Trouble
  <2>1. ASSUME NEW ok \in BOOLEAN, Camera(ok) PROVE Recent'
    <3>1. /\ UNCHANGED <<now, served, allowed, cloud_time, layers>>
          /\ camera_time' = now
      BY <2>1 DEF Camera
    <3>2. sampled_at' = sampled_at /\ (troubled_at' = troubled_at \/ troubled_at' = now)
      BY <2>0, <2>1 DEF Camera
    <3>3. sampled_at' = cloud_time' /\ troubled_at' <= now'
      BY <3>1, <3>2
    <3>4. ASSUME allowed' PROVE now' - camera_time' <= InputTimeout + Slack'
      BY <3>1
    <3>5. ASSUME allowed'
          PROVE  /\ now' - cloud_time' <= InputTimeout + Slack'
                 /\ \A i \in Layers : now' - layers'[i].time <= LayerTimeout + Slack'
      BY <3>1, <3>5
    <3> QED
      BY <3>3, <3>4, <3>5, Zenon DEF Recent
  <2>2. ASSUME NEW stamp \in {"invalid", "repeated", "advanced"}, Cloud(stamp) PROVE Recent'
    <3>1. /\ UNCHANGED <<now, served, allowed, camera_time, layers>>
          /\ \/ cloud_time' = cloud_time /\ sampled_at' = sampled_at
             \/ cloud_time' = now /\ sampled_at' = now
          /\ troubled_at' = troubled_at \/ troubled_at' = now
      BY <2>0, <2>2 DEF Cloud
    <3>2. sampled_at' = cloud_time' /\ troubled_at' <= now'
      BY <3>1
    <3>3. ASSUME allowed' PROVE now' - cloud_time' <= InputTimeout + Slack'
      BY <3>1, <3>3
    <3>4. ASSUME allowed'
          PROVE  /\ now' - camera_time' <= InputTimeout + Slack'
                 /\ \A i \in Layers : now' - layers'[i].time <= LayerTimeout + Slack'
      BY <3>1, <3>4
    <3> QED
      BY <3>2, <3>3, <3>4, Zenon DEF Recent
  <2>3. ASSUME NEW i \in Layers, NEW current \in BOOLEAN, NEW seq \in {"new", "same", "back"},
               LayerReport(i, current, seq)
        PROVE  Recent'
    <3>1. \A j \in Layers : layers'[j].time = layers[j].time \/ layers'[j].time = now
      BY <2>3 DEF LayerReport, Layer
    <3>2. UNCHANGED <<now, served, allowed, camera_time, cloud_time>>
      BY <2>3 DEF LayerReport
    <3>3. sampled_at' = sampled_at /\ troubled_at' \in {troubled_at, now}
      BY <2>0, <2>3 DEF LayerReport
    <3>4. ASSUME allowed'
          PROVE  \A j \in Layers : now' - layers'[j].time <= LayerTimeout + Slack'
      <4>1. \A j \in Layers : now - layers[j].time <= LayerTimeout + Slack
        BY <3>2, <3>4
      <4>2. now - now <= LayerTimeout + Slack
        OBVIOUS
      <4> QED
        BY <3>1, <3>2, <4>1, <4>2
    <3>5. ASSUME allowed'
          PROVE  /\ now' - camera_time' <= InputTimeout + Slack'
                 /\ now' - cloud_time' <= InputTimeout + Slack'
      BY <3>2, <3>5
    <3>6. sampled_at' = cloud_time' /\ troubled_at' <= now'
      BY <3>2, <3>3
    <3> QED
      BY <3>4, <3>5, <3>6, Zenon DEF Recent
  <2>4. CASE Publish
    <3>1. CASE NoFailure
      <4>1. UNCHANGED <<now, inputs, observer>>
        BY <2>4, <3>1, Zenon DEF Publish, Verdict
      <4>2. /\ now - camera_time <= InputTimeout /\ now - cloud_time <= InputTimeout
            /\ \A i \in Layers : now - layers[i].time <= LayerTimeout
        BY <3>1 DEF NoFailure, Fresh
      <4>3. served'
        BY <2>4, Zenon DEF Publish
      <4> QED
        BY <4>1, <4>2, <4>3 DEF inputs
    <3>2. CASE ~NoFailure
      <4>1. ~allowed' /\ Close /\ UNCHANGED <<now, inputs>>
        BY <2>4, <3>2, Zenon DEF Publish, Verdict
      <4> QED
        BY <2>0, <4>1 DEF inputs
    <3> QED
      BY <3>1, <3>2
  <2>5. CASE Tick
    <3>1. \A i \in Layers : layers[i].time \in Int
      BY DEF Layer, Never
    <3>2. camera_time \in Int /\ cloud_time \in Int
      BY DEF Never
    <3> QED
      BY <2>5, <3>1, <3>2 DEF Tick, inputs
  <2>6. CASE UNCHANGED vars
    BY <2>6 DEF vars, inputs
  <2> QED
    BY <2>1, <2>2, <2>3, <2>4, <2>5, <2>6 DEF Next
<1> QED
  BY <1>1, <1>2, TypeCorrect, PTL DEF Spec

(* No source that motion depends on may fall silent for longer than its limit *)
(* and one timer period while motion stays allowed.                          *)
THEOREM SilenceStopsMotion == Spec => []SilenceStops
<1>1. TypeOK /\ Recent => SilenceStops
  <2> SUFFICES ASSUME TypeOK, Recent, allowed
               PROVE  /\ now - camera_time <= InputTimeout + 1
                      /\ now - sampled_at <= InputTimeout + 1
                      /\ \A i \in Layers : now - layers[i].time <= LayerTimeout + 1
    BY DEF SilenceStops
  <2>1. /\ \A i \in Layers : layers[i].time \in Int
        /\ camera_time \in Int /\ cloud_time \in Int /\ now \in Int
    BY DEF TypeOK, Layer, Never
  <2> QED
    BY <2>1, ConstantsAssumption DEF Recent, Slack
<1> QED
  BY <1>1, TypeCorrect, RecentInductive, PTL

-----------------------------------------------------------------------------
(* The legacy_switch mode. *)

LegacyTyped ==
  /\ phase \in Phases
  /\ pending \subseteq Costmaps
  /\ calls \in [Costmaps -> {"none", "set", "clear", "served", "refused"}]
  /\ enabled \in [Costmaps -> BOOLEAN]
  /\ active_enabled \in BOOLEAN /\ initial_sync_needed \in BOOLEAN
  /\ target_enabled \in BOOLEAN

(* Motion is allowed only between switches, and with a healthy camera.       *)
Stopped ==
  /\ motion_allowed => phase = "IDLE"
  /\ motion_allowed /\ active_enabled => healthy
  /\ initial_sync_needed => ~active_enabled

(* What is pending, and what each step has established about the costmaps.   *)
Awaited ==
  /\ Switching => \A c \in Costmaps : calls[c] # "none" => c \in pending
  /\ phase = "REBUILD" => pending = {}

Settled ==
  phase = "IDLE" =>
    /\ \A c \in Costmaps : calls[c] = "none"
    /\ ~initial_sync_needed => \A c \in Costmaps : enabled[c] = active_enabled

Setting ==
  phase = "SET_PARAMETERS" =>
    \A c \in Costmaps :
      /\ calls[c] # "clear"
      /\ calls[c] = "none" /\ operation_ok => enabled[c] = target_enabled
      /\ calls[c] = "served" => enabled[c] = target_enabled

AllSet ==
  phase \in {"CLEAR_COSTMAPS", "REBUILD"} =>
    \A c \in Costmaps : calls[c] # "set" /\ enabled[c] = target_enabled

LegacyInv == Stopped /\ Awaited /\ Settled /\ Setting /\ AllSet

LEMMA LegacyInit == SwitchInit => LegacyTyped /\ LegacyInv
<1> SUFFICES ASSUME SwitchInit PROVE LegacyTyped /\ LegacyInv
  OBVIOUS
<1>1. LegacyTyped
  BY DEF SwitchInit, LegacyTyped, Phases
<1>2. LegacyInv
  BY DEF SwitchInit, LegacyInv, Switching, Stopped, Awaited, Settled, Setting, AllSet
<1> QED
  BY <1>1, <1>2

(* The costmap nodes and the callbacks keep the invariant.                   *)
LEMMA ServerSteps ==
  ASSUME LegacyTyped, LegacyInv, NEW c \in Costmaps,
         Serve(c) \/ Refuse(c) \/ Callback(c) \/ Costmap(c)
  PROVE  LegacyTyped' /\ LegacyInv'
<1> USE DEF LegacyTyped, LegacyInv, Switching, switch, permit, servers
<1>1. CASE Serve(c)
  <2>1. LegacyTyped'
    BY <1>1 DEF Serve
  <2>2. Stopped'
    BY <1>1 DEF Serve, Stopped
  <2>3. Awaited'
    BY <1>1 DEF Serve, Awaited
  <2>4. Settled'
    BY <1>1 DEF Serve, Settled
  <2>5. Setting'
    BY <1>1 DEF Serve, Setting
  <2>6. AllSet'
    BY <1>1 DEF Serve, AllSet
  <2> QED
    BY <2>1, <2>2, <2>3, <2>4, <2>5, <2>6 DEF LegacyInv
<1>2. CASE Refuse(c)
  <2>1. LegacyTyped'
    BY <1>2 DEF Refuse
  <2>2. Stopped'
    BY <1>2 DEF Refuse, Stopped
  <2>3. Awaited'
    BY <1>2 DEF Refuse, Awaited
  <2>4. Settled'
    BY <1>2 DEF Refuse, Settled
  <2>5. Setting'
    BY <1>2 DEF Refuse, Setting
  <2>6. AllSet'
    BY <1>2 DEF Refuse, AllSet
  <2> QED
    BY <2>1, <2>2, <2>3, <2>4, <2>5, <2>6 DEF LegacyInv
<1>3. CASE Callback(c)
  <2>1. LegacyTyped'
    BY <1>3 DEF Callback
  <2>2. Stopped'
    BY <1>3 DEF Callback, Stopped
  <2>3. Awaited'
    BY <1>3 DEF Callback, Awaited
  <2>4. Settled'
    BY <1>3 DEF Callback, Settled
  <2>5. Setting'
    BY <1>3 DEF Callback, Setting
  <2>6. AllSet'
    BY <1>3 DEF Callback, AllSet
  <2> QED
    BY <2>1, <2>2, <2>3, <2>4, <2>5, <2>6 DEF LegacyInv
<1>4. CASE Costmap(c)
  <2>1. LegacyTyped'
    BY <1>4 DEF Costmap
  <2>2. Stopped'
    BY <1>4 DEF Costmap, Stopped
  <2>3. Awaited'
    BY <1>4 DEF Costmap, Awaited
  <2>4. Settled'
    BY <1>4 DEF Costmap, Settled
  <2>5. Setting'
    BY <1>4 DEF Costmap, Setting
  <2>6. AllSet'
    BY <1>4 DEF Costmap, AllSet
  <2> QED
    BY <2>1, <2>2, <2>3, <2>4, <2>5, <2>6 DEF LegacyInv
<1> QED
  BY <1>1, <1>2, <1>3, <1>4

(* So does every tick of the timer.                                          *)
LEMMA TickSteps ==
  ASSUME LegacyTyped, LegacyInv, NEW fresh \in BOOLEAN, NEW ready \in BOOLEAN,
         SwitchTick(fresh, ready)
  PROVE  LegacyTyped' /\ LegacyInv'
<1> USE DEF LegacyTyped, LegacyInv, Switching, Phases, switch, permit, servers, Published
<1>0. healthy' = fresh
  BY DEF SwitchTick, Health
<1>1. CASE FailedTick
  <2>1. LegacyTyped'
    BY <1>1 DEF FailedTick
  <2>2. Stopped'
    BY <1>1 DEF FailedTick, Stopped
  <2>3. Awaited'
    BY <1>1 DEF FailedTick, Awaited
  <2>4. Settled'
    BY <1>1 DEF FailedTick, Settled
  <2>5. Setting'
    BY <1>1 DEF FailedTick, Setting
  <2>6. AllSet'
    BY <1>1 DEF FailedTick, AllSet
  <2> QED
    BY <2>1, <2>2, <2>3, <2>4, <2>5, <2>6 DEF LegacyInv
<1>2. CASE TimeoutTick
  <2>1. LegacyTyped'
    BY <1>2 DEF TimeoutTick, fail_switch
  <2>2. Stopped'
    BY <1>2 DEF TimeoutTick, fail_switch, Stopped
  <2>3. Awaited'
    BY <1>2 DEF TimeoutTick, fail_switch, Awaited
  <2>4. Settled'
    BY <1>2 DEF TimeoutTick, fail_switch, Settled
  <2>5. Setting'
    BY <1>2 DEF TimeoutTick, fail_switch, Setting
  <2>6. AllSet'
    BY <1>2 DEF TimeoutTick, fail_switch, AllSet
  <2> QED
    BY <2>1, <2>2, <2>3, <2>4, <2>5, <2>6 DEF LegacyInv
<1>3. CASE AnsweredTick
  <2>1. LegacyTyped'
    BY <1>3 DEF AnsweredTick, fail_switch, CallBoth
  <2>2. Stopped'
    BY <1>3 DEF AnsweredTick, fail_switch, CallBoth, Stopped
  <2>3. Awaited'
    BY <1>3 DEF AnsweredTick, fail_switch, CallBoth, Awaited
  <2>4. Settled'
    BY <1>3 DEF AnsweredTick, fail_switch, CallBoth, Settled
  <2>5. Setting'
    BY <1>3 DEF AnsweredTick, fail_switch, CallBoth, Setting
  <2>6. AllSet'
    BY <1>3 DEF AnsweredTick, fail_switch, CallBoth, AllSet, Setting, Awaited
  <2> QED
    BY <2>1, <2>2, <2>3, <2>4, <2>5, <2>6 DEF LegacyInv
<1>4. CASE WaitTick
  <2>1. LegacyTyped'
    BY <1>4 DEF WaitTick
  <2>2. Stopped'
    BY <1>4 DEF WaitTick, Stopped
  <2>3. Awaited'
    BY <1>4 DEF WaitTick, Awaited
  <2>4. Settled'
    BY <1>4 DEF WaitTick, Settled
  <2>5. Setting'
    BY <1>4 DEF WaitTick, Setting
  <2>6. AllSet'
    BY <1>4 DEF WaitTick, AllSet
  <2> QED
    BY <2>1, <2>2, <2>3, <2>4, <2>5, <2>6 DEF LegacyInv
<1>5. ASSUME NEW active \in BOOLEAN, NEW sync \in BOOLEAN, Decide(active, sync, ready),
             \A c \in Costmaps : calls[c] = "none",
             sync => ~active,
             ~sync => \A c \in Costmaps : enabled[c] = active
      PROVE  LegacyTyped' /\ LegacyInv'
  <2>1. LegacyTyped'
    BY <1>0, <1>5 DEF Decide, BeginSwitch, CallBoth
  <2>2. Stopped'
    <3>1. CASE phase' # "IDLE"
      BY <1>0, <1>5, <3>1 DEF Decide, BeginSwitch, CallBoth, Stopped
    <3>2. CASE phase' = "IDLE"
      <4>1. ~(~sync /\ active /\ ~healthy')
        BY <1>5, <3>2, Zenon DEF Decide, BeginSwitch
      <4>2. active_enabled' = active /\ initial_sync_needed' = sync
        BY <1>5, Zenon DEF Decide
      <4> QED
        BY <1>5, <3>2, <4>1, <4>2 DEF Stopped
    <3> QED
      BY <3>1, <3>2
  <2>3. Awaited'
    BY <1>0, <1>5 DEF Decide, BeginSwitch, CallBoth, Awaited
  <2>4. Settled'
    BY <1>0, <1>5 DEF Decide, BeginSwitch, CallBoth, Settled
  <2>5. Setting'
    BY <1>0, <1>5 DEF Decide, BeginSwitch, CallBoth, Setting
  <2>6. AllSet'
    BY <1>0, <1>5 DEF Decide, BeginSwitch, CallBoth, AllSet
  <2> QED
    BY <2>1, <2>2, <2>3, <2>4, <2>5, <2>6 DEF LegacyInv
<1>6. CASE IdleTick(ready)
  <2>1. Decide(active_enabled, initial_sync_needed, ready)
    BY <1>6 DEF IdleTick
  <2>2. /\ \A c \in Costmaps : calls[c] = "none"
        /\ initial_sync_needed => ~active_enabled
        /\ ~initial_sync_needed => \A c \in Costmaps : enabled[c] = active_enabled
    BY <1>6 DEF IdleTick, Settled, Stopped
  <2> QED
    BY <1>5, <2>1, <2>2
<1>7. CASE CompletedTick(ready)
  <2>1. Decide(target_enabled, FALSE, ready)
    BY <1>7 DEF CompletedTick
  <2>2. \A c \in Costmaps : calls[c] = "none" /\ enabled[c] = target_enabled
    BY <1>7 DEF CompletedTick, Rebuilt, Awaited, AllSet
  <2> QED
    BY <1>5, <2>1, <2>2
<1> QED
  BY <1>1, <1>2, <1>3, <1>4, <1>6, <1>7 DEF SwitchTick

THEOREM LegacyInductive == SwitchSpec => [](LegacyTyped /\ LegacyInv)
<1>1. LegacyTyped /\ LegacyInv /\ [SwitchNext]_switch_vars => LegacyTyped' /\ LegacyInv'
  <2> SUFFICES ASSUME LegacyTyped, LegacyInv, [SwitchNext]_switch_vars
               PROVE  LegacyTyped' /\ LegacyInv'
    OBVIOUS
  <2>1. CASE UNCHANGED switch_vars
    BY <2>1
    DEF switch_vars, Switching, switch, permit, servers,
        LegacyTyped, LegacyInv, Stopped, Awaited, Settled, Setting, AllSet
  <2> QED
    BY <2>1, ServerSteps, TickSteps DEF SwitchNext
<1> QED
  BY <1>1, LegacyInit, PTL DEF SwitchSpec

(* The robot never moves on costmaps that disagree about the depth layer.     *)
THEOREM CostmapsAgree == SwitchSpec => []LayersAgree
<1>1. LegacyInv => LayersAgree
  BY DEF LegacyInv, Stopped, Settled, LayersAgree
<1> QED
  BY <1>1, LegacyInductive, PTL

(* With the depth layer on, a tick without a healthy camera permits motion only *)
(* on completing the switch that turned the layer on, and takes it back.       *)
THEOREM CameraIsHealthy == SwitchSpec => MovesWithHealthyCamera
<1> DEFINE Shown == <<phase, permit, active_enabled, healthy>>
           Taken == permitted' /\ active_enabled' /\ ~healthy' =>
                      phase = "REBUILD" /\ target_enabled /\ ~motion_allowed'
<1>1. LegacyTyped /\ LegacyInv /\ [SwitchNext]_switch_vars => [Taken]_Shown
  <2> SUFFICES ASSUME LegacyTyped, LegacyInv, SwitchNext, Shown' # Shown
               PROVE  Taken
    BY Zenon DEF switch_vars, switch
  <2>1. PICK fresh \in BOOLEAN, ready \in BOOLEAN : SwitchTick(fresh, ready)
    BY Zenon DEF SwitchNext, Serve, Refuse, Callback, Costmap, switch, permit
  <2>2. motion_allowed' /\ active_enabled' => healthy'
    BY <2>1, TickSteps, Zenon DEF LegacyInv, Stopped
  <2>3. CASE permitted' = motion_allowed'
    BY <2>2, <2>3, Zenon
  <2>4. CASE CompletedTick(ready)
    <3>1. phase = "REBUILD" /\ active_enabled' = target_enabled
      BY <2>4, Zenon DEF CompletedTick, Rebuilt, Decide
    <3> QED
      BY <2>2, <3>1, Zenon
  <2>5. permitted' = motion_allowed' \/ CompletedTick(ready)
    BY <2>1, Zenon
    DEF SwitchTick, FailedTick, TimeoutTick, AnsweredTick, WaitTick, IdleTick, fail_switch,
        Published
  <2> QED
    BY <2>3, <2>4, <2>5, Zenon
<1> QED
  BY <1>1, LegacyInductive, PTL DEF SwitchSpec, MovesWithHealthyCamera
=============================================================================
