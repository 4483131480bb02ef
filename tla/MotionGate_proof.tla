-------------------------- MODULE MotionGate_proof --------------------------
(***************************************************************************)
(* Proofs about the velocity interlock, for every set of generations and    *)
(* velocities, every lease, and both settings of require_perception_health  *)
(* unless the theorem says otherwise.                                       *)
(***************************************************************************)
EXTENDS MotionGate, TLAPS

(* Every field keeps its type: a Twist that is not finite never becomes the  *)
(* stored command, nor reaches /cmd_vel.                                     *)
THEOREM TypeCorrect == Spec => []TypeOK
<1>1. Init => TypeOK
  <2> SUFFICES ASSUME Init PROVE TypeOK
    OBVIOUS
  <2>1. perception_time \in Int /\ now \in Nat /\ permit_time \in Nat /\ command_time \in Nat
    BY ConstantsAssumption, SMT DEF Init
  <2>2. perception_allowed \in BOOLEAN
    BY Zenon DEF Init
  <2> QED
    BY <2>1, <2>2 DEF Init, TypeOK, Twists
<1>2. TypeOK /\ [Next]_vars => TypeOK'
  <2> SUFFICES ASSUME TypeOK, [Next]_vars PROVE TypeOK'
    OBVIOUS
  <2> USE ConstantsAssumption
  <2>1. ASSUME NEW t \in Tokens \cup {0}, Permit(t) PROVE TypeOK'
    BY <2>1 DEF TypeOK, Permit, PermitTo, Twists, LivePerception, LiveHave
  <2>2. ASSUME NEW v \in Twists \cup {NotFinite}, Command(v) PROVE TypeOK'
    BY <2>2 DEF TypeOK, Command, Twists, LivePerception, LiveHave, LiveToken
  <2>3. ASSUME NEW b \in BOOLEAN, Heartbeat(b) PROVE TypeOK'
    BY <2>3 DEF TypeOK, Heartbeat, Twists, LivePerception, LiveHave, LiveToken
  <2>4. CASE Timer
    BY <2>4 DEF TypeOK, Timer, Output, Twists, LivePerception, LiveHave, LiveToken
  <2>5. CASE Stop
    BY <2>5 DEF TypeOK, Stop, PermitTo, Twists, LivePerception, LiveHave
  <2>6. CASE Tick
    <3>1. now' \in Nat
      BY <2>6, SMT DEF TypeOK, Tick
    <3>2. UNCHANGED <<permitVars, commandVars, perceptionVars, published>>
      BY <2>6 DEF Tick
    <3> QED
      BY <2>6, <3>1, <3>2, Zenon DEF TypeOK, Tick, permitVars, commandVars, perceptionVars
  <2>7. CASE UNCHANGED vars
    BY <2>7 DEF TypeOK, vars, permitVars, commandVars, perceptionVars
  <2> QED
    BY <2>1, <2>2, <2>3, <2>4, <2>5, <2>6, <2>7 DEF Next
<1> QED
  BY <1>1, <1>2, PTL DEF Spec

-----------------------------------------------------------------------------
(* StopDeadline is not inductive: it must say how old the three times may be *)
(* before the timer of this period has fired, and how old after.             *)
Slack == IF served THEN 0 ELSE 1

DeadlineInv ==
  /\ permit_time <= now /\ command_time <= now /\ perception_time <= now
  /\ published # Zero =>
       /\ now - permit_time <= Lease + Slack
       /\ now - command_time <= CommandAge + Slack
       /\ RequirePerception => now - perception_time <= PerceptionTimeout + Slack

(* The strengthened bound holds throughout.                                  *)
THEOREM DeadlineInductive == Spec => []DeadlineInv
<1>1. Init => DeadlineInv
  BY ConstantsAssumption DEF Init, DeadlineInv
<1>2. TypeOK /\ DeadlineInv /\ [Next]_vars => DeadlineInv'
  <2> SUFFICES ASSUME TypeOK, DeadlineInv, [Next]_vars PROVE DeadlineInv'
    OBVIOUS
  <2> USE ConstantsAssumption DEF TypeOK, DeadlineInv, Slack
  <2>1. ASSUME NEW t \in Tokens \cup {0}, Permit(t) PROVE DeadlineInv'
    BY <2>1 DEF Permit, PermitTo
  <2>2. ASSUME NEW v \in Twists \cup {NotFinite}, Command(v) PROVE DeadlineInv'
    BY <2>2 DEF Command
  <2>3. ASSUME NEW b \in BOOLEAN, Heartbeat(b) PROVE DeadlineInv'
    BY <2>3 DEF Heartbeat
  <2>4. CASE Timer
    BY <2>4 DEF Timer, Output, LivePerception, LiveHave, PerceptionLapsed, LeaseLapsed
  <2>5. CASE Stop
    BY <2>5 DEF Stop, PermitTo
  <2>6. CASE Tick
    BY <2>6 DEF Tick, permitVars, commandVars, perceptionVars
  <2>7. CASE UNCHANGED vars
    BY <2>7 DEF vars, permitVars, commandVars, perceptionVars
  <2> QED
    BY <2>1, <2>2, <2>3, <2>4, <2>5, <2>6, <2>7 DEF Next
<1> QED
  BY <1>1, <1>2, TypeCorrect, PTL DEF Spec

(* Whatever permits, commands, heartbeats and stops are interleaved with the *)
(* timer, a non-zero /cmd_vel is never older than the three limits plus one  *)
(* output period.                                                            *)
THEOREM StopInTime == Spec => []StopDeadline
<1>1. TypeOK /\ DeadlineInv => StopDeadline
  BY ConstantsAssumption DEF TypeOK, DeadlineInv, StopDeadline, Slack
<1> QED
  BY <1>1, TypeCorrect, DeadlineInductive, PTL

-----------------------------------------------------------------------------
LEMMA InitRefines == Init => Interlock!Init
  BY ConstantsAssumption
  DEF Init, Interlock!Init, Interlock!None, Auth, Fresh, LivePerception, LiveToken

(* A lapsed lease or heartbeat revokes, an aged command drops; otherwise the  *)
(* passage of time shows nothing.                                            *)
LEMMA TickRefines ==
  ASSUME TypeOK, DeadlineInv, Tick, RequirePerception
  PROVE  Interlock!Revoke \/ Interlock!Drop \/ UNCHANGED Interlock!vars
<1> USE ConstantsAssumption DEF TypeOK, Tick, permitVars, commandVars, perceptionVars
<1>1. UNCHANGED published
  OBVIOUS
<1>2. CASE Auth' = 0
  BY <1>1, <1>2 DEF Interlock!Revoke, Interlock!None, Fresh
<1>3. CASE Auth' # 0
  <2>1. LivePerception' /\ token # 0 /\ ~LeaseLapsed'
    BY <1>3 DEF Auth, LivePerception, LiveToken
  <2>2. perception_allowed /\ ~PerceptionLapsed'
    BY <2>1 DEF LivePerception
  <2>3. ~PerceptionLapsed /\ ~LeaseLapsed
    BY <2>1, <2>2, DeadlineInv, SMT DEF PerceptionLapsed, LeaseLapsed, DeadlineInv
  <2>4. Auth' = token /\ Auth = token
    BY <2>1, <2>2, <2>3 DEF Auth, LivePerception, LiveToken
  <2>5. LiveHave' = LiveHave
    BY <2>1, <2>2, <2>3 DEF LiveHave
  <2>6. Fresh' = Fresh \/ Fresh' = Zero
    BY <2>1, <2>4, <2>5 DEF Fresh
  <2>7. UNCHANGED <<Auth, published>>
    BY <1>1, <2>4
  <2> QED
    BY <2>6, <2>7 DEF Interlock!Drop, Interlock!vars
<1> QED
  BY <1>2, <1>3

(* With perception required, every step of the gate is a step of the         *)
(* abstract interlock or changes nothing the interlock shows.                *)
LEMMA StepRefines ==
  ASSUME TypeOK, DeadlineInv, [Next]_vars, RequirePerception
  PROVE  [Interlock!Next]_(Interlock!vars)
<1> USE ConstantsAssumption DEF TypeOK
<1>1. ASSUME NEW t \in Tokens \cup {0}, Permit(t)
      PROVE  [Interlock!Next]_(Interlock!vars)
  <2> USE <1>1 DEF Permit, PermitTo
  <2>1. CASE Blocked \/ t = 0
    <3>1. Auth' = 0 /\ Fresh' = Zero /\ UNCHANGED published
      BY <2>1 DEF Blocked, Auth, Fresh, LivePerception, LiveToken
    <3> QED
      BY <3>1 DEF Interlock!Next, Interlock!Revoke, Interlock!None
  <2>2. CASE ~Blocked /\ t # 0
    <3>1. LivePerception /\ LivePerception'
      BY <2>2 DEF Blocked, LivePerception, PerceptionLapsed
    <3>2. ~LeaseLapsed'
      BY <2>2 DEF LeaseLapsed
    <3>3. Auth' = t
      BY <2>2, <3>1, <3>2 DEF Auth, LiveToken, LivePerception
    <3>4. LiveHave' = (LiveHave /\ t = LiveToken)
      BY <2>2, <3>1, <3>2 DEF LiveHave, LivePerception
    <3>5. Fresh' = IF t = Auth THEN Fresh ELSE Zero
      BY <2>2, <3>1, <3>3, <3>4 DEF Fresh, Auth
    <3> QED
      BY <2>2, <3>3, <3>5 DEF Interlock!Next, Interlock!Authorise
  <2> QED
    BY <2>1, <2>2
<1>2. ASSUME NEW v \in Twists \cup {NotFinite}, Command(v)
      PROVE  [Interlock!Next]_(Interlock!vars)
  <2> USE <1>2 DEF Command
  <2>1. Auth' = Auth /\ UNCHANGED published
    BY DEF Auth, LivePerception, LiveToken, PerceptionLapsed, LeaseLapsed
  <2>2. CASE Auth = 0
    BY <2>1, <2>2 DEF Fresh, Interlock!vars
  <2>3. CASE Auth # 0
    <3>1. ~Blocked /\ LiveToken # 0
      BY <2>3 DEF Blocked, Auth
    <3>2. CASE v = NotFinite
      <4>1. Fresh' = Zero
        BY <3>1, <3>2 DEF Fresh, LiveHave
      <4> QED
        BY <2>1, <4>1 DEF Interlock!Next, Interlock!Drop
    <3>3. CASE v # NotFinite
      <4>1. LiveHave'
        BY <3>1, <3>3 DEF LiveHave, LiveToken, PerceptionLapsed, LeaseLapsed
      <4>2. Fresh' = v
        BY <2>1, <2>3, <3>1, <3>3, <4>1 DEF Fresh
      <4> QED
        BY <2>1, <2>3, <3>3, <4>2
        DEF Interlock!Next, Interlock!Accept, Interlock!None, Twists
    <3> QED
      BY <3>2, <3>3
  <2> QED
    BY <2>2, <2>3
<1>3. ASSUME NEW b \in BOOLEAN, Heartbeat(b)
      PROVE  [Interlock!Next]_(Interlock!vars)
  <2> USE <1>3 DEF Heartbeat
  <2>1. CASE ~b \/ ~LivePerception
    <3>1. token' = 0
      BY <2>1, RequirePerception
    <3>2. Auth' = 0 /\ Fresh' = Zero
      BY <3>1 DEF Auth, Fresh, LiveToken
    <3> QED
      BY <3>2 DEF Interlock!Next, Interlock!Revoke, Interlock!None
  <2>2. CASE b /\ LivePerception
    <3>1. LivePerception' /\ ~PerceptionLapsed'
      BY <2>2 DEF LivePerception, PerceptionLapsed
    <3>2. token' = LiveToken /\ have_command' = LiveHave
      <4>1. LivePerception \in BOOLEAN /\ LiveHave \in BOOLEAN
        BY Zenon DEF LivePerception, LiveHave
      <4>2. b = TRUE /\ LivePerception = TRUE
        BY <2>2, <4>1
      <4> QED
        BY <4>1, <4>2
    <3>3. LeaseLapsed' = LeaseLapsed
      BY DEF LeaseLapsed
    <3>4. Auth' = Auth
      BY <2>2, <3>1, <3>2, <3>3 DEF Auth, LiveToken
    <3>5. LiveHave' = LiveHave
      BY <3>1, <3>2, <3>3 DEF LiveHave
    <3>6. Fresh' = Fresh
      BY <3>4, <3>5 DEF Fresh
    <3> QED
      BY <3>4, <3>6 DEF Interlock!vars
  <2> QED
    BY <2>1, <2>2
<1>4. CASE Timer
  <2> USE <1>4 DEF Timer
  <2>1. PerceptionLapsed' = PerceptionLapsed /\ LeaseLapsed' = LeaseLapsed
    BY DEF PerceptionLapsed, LeaseLapsed
  <2>2. /\ LivePerception' = LivePerception
        /\ LiveToken' = LiveToken
        /\ LiveHave' = LiveHave
    BY <2>1 DEF LivePerception, LiveToken, LiveHave
  <2>3. Auth' = Auth /\ Fresh' = Fresh
    BY <2>2 DEF Auth, Fresh
  <2>4. Output = Fresh
    BY DEF Output, Fresh, Auth
  <2> QED
    BY <2>3, <2>4 DEF Interlock!Next, Interlock!Publish
<1>5. CASE Stop
  <2>1. Auth' = 0 /\ Fresh' = Zero /\ published' = Zero
    BY <1>5 DEF Stop, PermitTo, Auth, Fresh, LiveToken
  <2> QED
    BY <2>1 DEF Interlock!Next, Interlock!Stop, Interlock!None
<1>6. CASE Tick
  BY <1>6, TickRefines DEF Interlock!Next
<1>7. CASE UNCHANGED vars
  BY <1>7 DEF vars, permitVars, commandVars, perceptionVars, Interlock!vars,
    Auth, Fresh, LivePerception, LiveToken, LiveHave, PerceptionLapsed, LeaseLapsed
<1> QED
  BY <1>1, <1>2, <1>3, <1>4, <1>5, <1>6, <1>7 DEF Next

(* The gate configured with require_perception_health implements the clock-  *)
(* free interlock: lazy expiry loses nothing.                                *)
THEOREM GateImplementsInterlock ==
  ASSUME RequirePerception
  PROVE  Spec => ImplementsInterlock
<1>1. TypeOK /\ DeadlineInv /\ [Next]_vars => [Interlock!Next]_(Interlock!vars)
  BY StepRefines, RequirePerception
<1> QED
  BY <1>1, InitRefines, TypeCorrect, DeadlineInductive, PTL
  DEF Spec, ImplementsInterlock, Interlock!Spec
=============================================================================
