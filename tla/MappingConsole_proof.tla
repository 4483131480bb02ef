------------------------- MODULE MappingConsole_proof -------------------------
(***************************************************************************)
(* Proofs about what the operator of the mapping console holds: TeleopGuard,  *)
(* for any sensors, gears, limits and lease, any delay, and any number of     *)
(* operators and messages; and StartExclusion, for any number of requests in  *)
(* any order.                                                               *)
(***************************************************************************)
EXTENDS TeleopGuard, StartExclusion, TLAPS

(* Inductive: whatever is on its way was sent; the sequence is nowhere behind  *)
(* the newest release; a pressed stick was pressed by a drive after it, of    *)
(* this operator.                                                            *)
Sequenced ==
  /\ sequence \in Nat /\ released \in Nat
  /\ accepted \in [session: Nat, sequence: Nat, delay: Nat]
  /\ \A m \in inflight : m.sequence <= sent[m.session]
  /\ released <= sequence
  /\ pressed => accepted.sequence > released /\ accepted.session = session
  /\ armed => epoch > 0

(* The age that a non-zero command may have before and after its timer fires. *)
Timed ==
  published # Zero =>
    /\ lease_age <= Lease - (IF served THEN 1 ELSE 0)
    /\ \A i \in Inputs : age[i] <= Limit(i) + (IF served THEN 0 ELSE 1)

Inv == TypeOK /\ Sequenced /\ Timed

(* TypeOK in two halves: what is counted, and what is not.                    *)
Flags ==
  /\ armed \in BOOLEAN /\ pressed \in BOOLEAN /\ pushed \in BOOLEAN
  /\ session_ready \in BOOLEAN /\ topology_ok \in BOOLEAN /\ served \in BOOLEAN

Figures ==
  /\ session \in 0..connected /\ connected \in 0..MaxSession /\ gone \in 0..connected
  /\ gear \in Gears /\ published \in Gears \cup {Zero}
  /\ lease_age \in 0..Lease + 1
  /\ age \in [Inputs -> Nat] /\ \A i \in Inputs : age[i] <= Limit(i) + 2
  /\ sent \in [Sessions -> Nat]
  /\ inflight \subseteq Message
  /\ epoch \in 0..MaxEnable
  /\ session # 0 => sequence \in 0..sent[session]

LEMMA TypeOKSplit == (TypeOK <=> Flags /\ Figures) /\ (TypeOK' <=> Flags' /\ Figures')
  BY Zenon DEF TypeOK, Flags, Figures

LEMMA LimitIsNat == \A i \in Inputs : Limit(i) \in Nat
  BY ConstantsAssumption DEF Limit

LEMMA InitInv == Init => Inv
<1> SUFFICES ASSUME Init PROVE Inv
  OBVIOUS
<1>1. Flags
  BY Zenon DEF Init, Flags
<1>2. Figures
  BY ConstantsAssumption, LimitIsNat DEF Init, Figures, Sessions, Message, Zero
<1>3. Sequenced /\ Timed
  BY DEF Init, Sequenced, Timed, NoDrive
<1> QED
  BY <1>1, <1>2, <1>3, TypeOKSplit DEF Inv

(* Connections, and requests that stop the guard.                            *)
LEMMA StopSteps ==
  ASSUME Inv, (\E s \in Sessions : Connect(s)) \/ Disconnect \/ StopRequest
              \/ \E g \in Gears : ChangeGear(g)
  PROVE  Inv'
<1> USE ConstantsAssumption DEF inputs, network, observer, guard, Stop
<1>1. TypeOK'
  <2>1. Flags'
    BY TypeOKSplit, Zenon DEF Inv, Flags, Connect, Disconnect, StopRequest, ChangeGear
  <2>2. Figures'
    <3>1. CASE \E s \in Sessions : Connect(s)
      <4>1. PICK s \in Sessions : Connect(s)
        BY <3>1
      <4>2. CASE s = session
        BY <4>1, <4>2, TypeOKSplit DEF Inv, Figures, Connect
      <4>3. CASE s # session
        <5>1. session' = s /\ sequence' = 0 /\ gear' = "slow" /\ lease_age' = lease_age
          BY <4>1, <4>3 DEF Connect
        <5>2. UNCHANGED <<inputs, published, served, network, epoch>> /\ s = connected
          BY <4>1, <4>3 DEF Connect
        <5> QED
          BY <5>1, <5>2, TypeOKSplit DEF Inv, Figures, Sessions
      <4> QED
        BY <4>2, <4>3
    <3>2. CASE Disconnect
      BY <3>2, TypeOKSplit DEF Inv, Figures, Disconnect
    <3>3. CASE StopRequest
      BY <3>3, TypeOKSplit DEF Inv, Figures, StopRequest
    <3>4. CASE \E g \in Gears : ChangeGear(g)
      BY <3>4, TypeOKSplit DEF Inv, Figures, ChangeGear
    <3> QED
      BY <3>1, <3>2, <3>3, <3>4
  <2> QED
    BY <2>1, <2>2, TypeOKSplit
<1>2. Sequenced'
  BY DEF Inv, TypeOK, Sequenced, NoDrive, Connect, Disconnect, StopRequest, ChangeGear
<1>3. Timed'
  BY DEF Inv, TypeOK, Timed, Connect, Disconnect, StopRequest, ChangeGear
<1> QED
  BY <1>1, <1>2, <1>3 DEF Inv

LEMMA EnableSteps == ASSUME Inv, Enable PROVE Inv'
<1> USE ConstantsAssumption DEF inputs, network, observer, guard, Stop
<1>1. TypeOK'
  <2>1. Flags'
    BY TypeOKSplit, Zenon DEF Inv, Flags, Enable
  <2>2. Figures'
    BY TypeOKSplit DEF Inv, Figures, Sequenced, Enable
  <2> QED
    BY <2>1, <2>2, TypeOKSplit
<1>2. Sequenced'
  BY DEF Inv, TypeOK, Sequenced, Enable
<1>3. Timed'
  BY DEF Inv, TypeOK, Timed, Enable
<1> QED
  BY <1>1, <1>2, <1>3 DEF Inv

(* A message that is not outdated moves the sequence on, and no further than   *)
(* what its page has sent.                                                   *)
LEMMA MessageSteps ==
  ASSUME Inv, NEW m \in inflight, Release(m) \/ Drive(m) \/ Heartbeat(m)
  PROVE  Inv'
<1> USE ConstantsAssumption DEF inputs, network, observer, guard, Stop, Receives
<1>1. m \in Message /\ m.sequence <= sent[m.session]
  BY DEF Inv, TypeOK, Sequenced
<1>2. m.session \in Sessions /\ m.sequence \in Nat \ {0} /\ m.delay \in Nat /\ m.rest \in BOOLEAN
  BY <1>1 DEF Message
<1>3. TypeOK'
  <2>1. Flags'
    BY <1>2, TypeOKSplit, Zenon DEF Inv, Flags, Release, Drive, Heartbeat
  <2>2. sequence' = sequence \/ (session = m.session /\ sequence' = m.sequence)
    BY DEF Release, Drive, Heartbeat, Outdated
  <2>3. lease_age' \in {0, lease_age} /\ UNCHANGED epoch
    BY DEF Release, Drive, Heartbeat
  <2>4. UNCHANGED <<session, gear, inputs, published, served, network>>
    BY DEF Release, Drive, Heartbeat
  <2>5. Figures'
    BY <1>1, <1>2, <2>2, <2>3, <2>4, TypeOKSplit DEF Inv, Figures
  <2> QED
    BY <2>1, <2>5, TypeOKSplit
<1>4. Sequenced'
  BY <1>1, <1>2 DEF Inv, TypeOK, Sequenced, Release, Drive, Heartbeat, Outdated
<1>5. Timed'
  BY DEF Inv, TypeOK, Timed, Release, Drive, Heartbeat
<1> QED
  BY <1>3, <1>4, <1>5 DEF Inv

(* The timer publishes a velocity only on fresh inputs and a running lease.    *)
LEMMA TimerSteps == ASSUME Inv, Timer PROVE Inv'
<1> USE ConstantsAssumption DEF inputs, network, observer, guard
<1>1. TypeOK'
  <2>1. Flags'
    BY TypeOKSplit, Zenon DEF Inv, Flags, Timer
  <2>2. Figures'
    BY TypeOKSplit DEF Inv, Figures, Timer
  <2> QED
    BY <2>1, <2>2, TypeOKSplit
<1>2. Sequenced'
  BY DEF Inv, TypeOK, Sequenced, Timer
<1>3. Timed'
  BY LimitIsNat DEF Inv, TypeOK, Timed, Timer, Fresh, Zero
<1> QED
  BY <1>1, <1>2, <1>3 DEF Inv

(* The inputs, the gateway and the page.                                     *)
LEMMA NetworkSteps ==
  ASSUME Inv, (\E ready \in BOOLEAN : GatewayState(ready)) \/ (\E i \in Sensors : Sensor(i))
              \/ Open \/ (\E rest \in BOOLEAN : Send("drive", rest))
              \/ \E sort \in {"release", "heartbeat"} : Send(sort, TRUE)
  PROVE  Inv'
<1> USE ConstantsAssumption DEF inputs, network, observer, guard
<1>1. CASE (\E ready \in BOOLEAN : GatewayState(ready)) \/ \E i \in Sensors : Sensor(i)
  <2>1. /\ age' \in [Inputs -> Nat] /\ \A i \in Inputs : age'[i] <= age[i]
    BY <1>1, TypeOKSplit DEF Inv, Figures, GatewayState, Sensor, Inputs
  <2>2. session_ready' \in BOOLEAN
    BY <1>1, TypeOKSplit, Zenon DEF Inv, Flags, GatewayState, Sensor
  <2>3. UNCHANGED <<guard, topology_ok, published, served, network, observer>>
    BY <1>1 DEF GatewayState, Sensor
  <2>4. TypeOK'
    <3>1. Flags'
      BY <2>3, <2>2, TypeOKSplit, Zenon DEF Inv, Flags
    <3>2. Figures'
      BY <2>1, <2>3, LimitIsNat, TypeOKSplit DEF Inv, Figures
    <3> QED
      BY <3>1, <3>2, TypeOKSplit
  <2>5. Sequenced'
    BY <2>3 DEF Inv, Sequenced
  <2>6. Timed'
    BY <2>1, <2>3, LimitIsNat DEF Inv, TypeOK, Timed
  <2> QED
    BY <2>4, <2>5, <2>6 DEF Inv
<1>2. CASE Open
  <2>1. TypeOK'
    BY <1>2 DEF Inv, TypeOK, Open
  <2>2. Sequenced' /\ Timed'
    BY <1>2 DEF Inv, Sequenced, Timed, Open
  <2> QED
    BY <2>1, <2>2 DEF Inv
<1>3. ASSUME NEW sort \in {"drive", "release", "heartbeat"}, NEW rest \in BOOLEAN, Send(sort, rest)
      PROVE  Inv'
  <2> DEFINE new == [session |-> connected, kind |-> sort, rest |-> rest,
                     sequence |-> sent[connected] + 1, delay |-> 0]
  <2>1. connected \in Sessions /\ sent[connected] \in Nat
    BY <1>3 DEF Inv, TypeOK, Send, Sessions
  <2>2. new \in Message
    BY <2>1 DEF Message
  <2>3. inflight' = inflight \cup {new} /\ sent' = [sent EXCEPT ![connected] = @ + 1]
    BY <1>3 DEF Send
  <2>4. UNCHANGED <<guard, inputs, published, served, connected, gone, observer>>
    BY <1>3 DEF Send
  <2>5. sent' \in [Sessions -> Nat] /\ \A s \in Sessions : sent[s] <= sent'[s]
    BY <2>1, <2>3 DEF Inv, TypeOK
  <2>6. sent'[connected] = sent[connected] + 1
    BY <2>1, <2>3 DEF Inv, TypeOK
  <2>7. TypeOK'
    BY <2>2, <2>3, <2>4, <2>5 DEF Inv, TypeOK, Sessions
  <2>8. \A m \in inflight' : m.sequence <= sent'[m.session]
    <3>1. \A m \in inflight : m \in Message /\ m.session \in Sessions /\ m.sequence \in Nat
      BY DEF Inv, TypeOK, Message
    <3>2. new.sequence <= sent'[new.session]
      BY <2>1, <2>6
    <3> QED
      BY <2>3, <2>5, <3>1, <3>2 DEF Inv, TypeOK, Sequenced
  <2>9. Sequenced'
    BY <2>4, <2>8 DEF Inv, Sequenced
  <2>10. Timed'
    BY <2>4 DEF Inv, Timed
  <2> QED
    BY <2>7, <2>9, <2>10 DEF Inv
<1> QED
  BY <1>1, <1>2, <1>3

(* A period passes: what was published in it has aged by one.                  *)
LEMMA TickSteps == ASSUME Inv, Tick PROVE Inv'
<1> USE ConstantsAssumption DEF inputs, network, observer, guard
<1>1. \A i \in Inputs : age'[i] = Older(age[i], Limit(i) + 2)
  BY DEF Tick
<1>2. \A i \in Inputs : age[i] \in Nat /\ age[i] <= Limit(i) + 2
  BY DEF Inv, TypeOK
<1>3. \A i \in Inputs : age'[i] \in Nat /\ age'[i] <= Limit(i) + 2 /\ age'[i] <= age[i] + 1
  BY <1>1, <1>2, LimitIsNat DEF Older
<1>4. lease_age' \in 0..Lease + 1 /\ lease_age' <= lease_age + 1
  BY DEF Inv, TypeOK, Tick, Older
<1>5. \A m \in inflight' :
        m \in Message /\ \E o \in inflight : m.session = o.session /\ m.sequence = o.sequence
  <2> SUFFICES ASSUME NEW o \in inflight,
                      NEW m, m = [o EXCEPT !.delay = Older(@, DelayLimit)]
               PROVE  m \in Message /\ m.session = o.session /\ m.sequence = o.sequence
    BY DEF Tick
  <2>1. o \in Message
    BY DEF Inv, TypeOK
  <2> QED
    BY <2>1 DEF Message, Older
<1>6. TypeOK'
  <2>1. age' \in [Inputs -> Nat]
    BY <1>3 DEF Tick
  <2> QED
    BY <1>3, <1>4, <1>5, <2>1 DEF Inv, TypeOK, Tick
<1>7. Sequenced'
  BY <1>5 DEF Inv, Sequenced, Tick
<1>8. Timed'
  <2>1. served /\ ~served' /\ published' = published
    BY DEF Tick
  <2>2. published # Zero =>
          lease_age <= Lease - 1 /\ \A i \in Inputs : age[i] <= Limit(i)
    BY <2>1, LimitIsNat, <1>2 DEF Inv, Timed
  <2>3. lease_age \in Nat
    BY DEF Inv, TypeOK
  <2> QED
    BY <1>2, <1>3, <1>4, <2>1, <2>2, <2>3, LimitIsNat DEF Timed
<1> QED
  BY <1>6, <1>7, <1>8 DEF Inv

(* The invariant holds throughout.                                           *)
THEOREM Inductive == Spec => []Inv
<1>1. Inv /\ [Next]_vars => Inv'
  <2> SUFFICES ASSUME Inv, [Next]_vars PROVE Inv'
    OBVIOUS
  <2>1. CASE UNCHANGED vars
    BY <2>1 DEF Inv, TypeOK, Sequenced, Timed, vars, guard, inputs, network, observer,
                Fresh, Message
  <2> QED
    BY <2>1, StopSteps, EnableSteps, MessageSteps, TimerSteps, NetworkSteps, TickSteps DEF Next
<1> QED
  BY <1>1, InitInv, PTL DEF Spec

(* Every field keeps its type; the guard's sequence is never ahead of what the *)
(* page of its session has sent.                                             *)
THEOREM TypeCorrect == Spec => []TypeOK
<1>1. Inv => TypeOK
  BY DEF Inv
<1> QED
  BY <1>1, Inductive, PTL

(* No drive, however late, moves the robot after a newer release or for another *)
(* operator.                                                                 *)
THEOREM LettingGoIsFinal == Spec => []ReleaseIsFinal
<1>1. Inv => ReleaseIsFinal
  BY DEF Inv, Sequenced, ReleaseIsFinal, Moving
<1> QED
  BY <1>1, Inductive, PTL

(* The robot moves no longer than one lease after a drive, nor than one period *)
(* on an input that has gone stale.                                          *)
THEOREM StopInTime == Spec => []StopsInTime
<1>1. Inv => StopsInTime
  BY ConstantsAssumption, LimitIsNat DEF Inv, TypeOK, Timed, StopsInTime
<1> QED
  BY <1>1, Inductive, PTL

-----------------------------------------------------------------------------
(* A step that stops the guard revokes its authorisation, if it had one.      *)
LEMMA StopRevokes ==
  ASSUME Stop, UNCHANGED published, TypeOK
  PROVE  [Interlock!Next]_(Interlock!vars)
  BY DEF Stop, TypeOK, Auth, Command, Interlock!Next, Interlock!Revoke, Interlock!None, Interlock!vars

(* Every step of the guard is one of the interlock, or shows nothing.          *)
LEMMA StepRefines ==
  ASSUME Inv, Inv', [Next]_vars
  PROVE  [Interlock!Next]_(Interlock!vars)
<1> USE ConstantsAssumption
<1> DEFINE Shown == UNCHANGED <<Auth, Command, published>>
<1>1. Shown => [Interlock!Next]_(Interlock!vars)
  BY DEF Interlock!vars
<1>2. CASE (\E s \in Sessions : Connect(s)) \/ Disconnect \/ StopRequest
           \/ \E g \in Gears : ChangeGear(g)
  <2>1. (Stop /\ UNCHANGED published) \/ UNCHANGED <<guard, observer, published>>
    BY <1>2 DEF Connect, Disconnect, StopRequest, ChangeGear
  <2> QED
    BY <1>1, <2>1, StopRevokes DEF Inv, guard, observer, Auth, Command
<1>3. CASE Enable
  <2>1. CASE Healthy
    <3>1. armed' /\ ~pressed' /\ epoch' = epoch + 1 /\ UNCHANGED published
      BY <1>3, <2>1 DEF Enable
    <3>2. epoch \in Nat /\ epoch' \in 1..MaxEnable
      BY <1>3, <3>1 DEF Inv, TypeOK, Enable
    <3>3. Auth' = epoch + 1 /\ Command' = Zero /\ Auth # Auth'
      BY <3>1, <3>2 DEF Auth, Command
    <3>4. Interlock!Authorise(epoch')
      BY <3>1, <3>3 DEF Interlock!Authorise
    <3> QED
      BY <3>2, <3>4 DEF Interlock!Next
  <2>2. CASE ~Healthy
    BY <1>3, <2>2, StopRevokes DEF Enable, Inv
  <2> QED
    BY <2>1, <2>2
<1>4. ASSUME NEW m \in inflight, Release(m) \/ Drive(m) \/ Heartbeat(m)
      PROVE  [Interlock!Next]_(Interlock!vars)
  <2> USE DEF Receives
  <2>1. CASE UNCHANGED <<guard, observer>>
    BY <1>1, <1>4, <2>1 DEF guard, observer, Auth, Command, Release, Drive, Heartbeat
  <2>2. CASE Release(m) /\ ~Outdated(m)
    <3>1. ~pressed' /\ UNCHANGED <<armed, epoch, published>>
      BY <2>2 DEF Release
    <3>2. Interlock!Drop
      BY <3>1 DEF Interlock!Drop, Auth, Command
    <3> QED
      BY <3>2 DEF Interlock!Next
  <2>3. CASE Drive(m) /\ armed /\ ~Outdated(m) /\ ~Healthy
    BY <2>3, StopRevokes DEF Drive, Inv
  <2>4. CASE Drive(m) /\ armed /\ ~Outdated(m) /\ Healthy
    <3>1. UNCHANGED <<armed, epoch, published, gear>>
      BY <2>4 DEF Drive
    <3>2. Auth # 0 /\ Auth' = Auth
      BY <2>4, <3>1 DEF Auth, Inv, Sequenced
    <3>3. Command' \in Gears \cup {Zero}
      BY DEF Inv, TypeOK, Command
    <3>4. Interlock!Accept(Command')
      BY <3>1, <3>2 DEF Interlock!Accept, Interlock!None
    <3> QED
      BY <3>3, <3>4 DEF Interlock!Next
  <2>5. CASE Heartbeat(m) /\ armed /\ ~Outdated(m)
    BY <1>1, <2>5 DEF Heartbeat, observer, Auth, Command
  <2> QED
    BY <1>4, <2>1, <2>2, <2>3, <2>4, <2>5 DEF Release, Drive, Heartbeat
<1>5. CASE Timer
  <2> DEFINE healthy == topology_ok' /\ session_ready /\ \A i \in Inputs : Fresh(i)
  <2>1. /\ armed' = (armed /\ healthy)
        /\ pressed' = IF armed /\ (~healthy \/ lease_age >= Lease) THEN FALSE ELSE pressed
        /\ pushed' = IF armed' /\ pressed /\ ~pressed' THEN FALSE ELSE pushed
        /\ published' = IF armed' /\ pressed' /\ pushed' THEN gear ELSE Zero
        /\ UNCHANGED <<gear, lease_age, epoch>>
    BY <1>5 DEF Timer, observer
  <2>2. lease_age \in Nat /\ armed \in BOOLEAN /\ pressed \in BOOLEAN /\ pushed \in BOOLEAN
    BY DEF Inv, TypeOK
  <2> HIDE DEF healthy
  <2>3. CASE armed /\ ~healthy
    <3>1. ~armed' /\ published' = Zero
      BY <2>1, <2>3
    <3>2. Interlock!Stop
      BY <3>1 DEF Interlock!Stop, Interlock!None, Auth, Command
    <3> QED
      BY <3>2 DEF Interlock!Next
  <2>4. CASE armed /\ healthy /\ lease_age >= Lease
    <3>1. armed' /\ ~pressed' /\ published' = Zero
      BY <2>1, <2>4
    <3>2. Interlock!Publish
      BY <2>1, <2>4, <2>2, <3>1 DEF Interlock!Publish, Auth, Command
    <3> QED
      BY <3>2 DEF Interlock!Next
  <2>5. CASE armed /\ healthy /\ lease_age < Lease
    <3>0. ~(lease_age >= Lease)
      BY <2>5, <2>2
    <3>1. armed' = armed /\ pressed' = pressed /\ pushed' = pushed
      BY <2>1, <2>5, <2>2, <3>0, Zenon
    <3>2. Auth' = Auth
      BY <2>1, <2>5, <3>1 DEF Auth
    <3>3. CASE pressed /\ pushed
      <4>1. armed' /\ pressed' /\ pushed'
        BY <2>5, <3>1, <3>3
      <4>2. published' = gear /\ Command = gear /\ Command' = gear
        BY <2>1, <2>5, <3>3, <4>1 DEF Command
      <4> QED
        BY <3>2, <4>2 DEF Interlock!Publish, Interlock!Next
    <3>4. CASE ~(pressed /\ pushed)
      <4>1. ~(pressed' /\ pushed')
        BY <3>1, <3>4
      <4>2. published' = Zero /\ Command = Zero /\ Command' = Zero
        BY <2>1, <3>4, <4>1 DEF Command
      <4> QED
        BY <3>2, <4>2 DEF Interlock!Publish, Interlock!Next
    <3> QED
      BY <3>3, <3>4
  <2>6. CASE ~armed
    <3>1. ~armed' /\ published' = Zero
      BY <2>1, <2>6
    <3>2. Interlock!Publish
      BY <2>6, <3>1 DEF Interlock!Publish, Auth, Command
    <3> QED
      BY <3>2 DEF Interlock!Next
  <2> QED
    BY <2>3, <2>4, <2>5, <2>6, <2>2
<1>6. CASE \/ \E ready \in BOOLEAN : GatewayState(ready)
           \/ \E i \in Sensors : Sensor(i)
           \/ Open
           \/ \E rest \in BOOLEAN : Send("drive", rest)
           \/ \E sort \in {"release", "heartbeat"} : Send(sort, TRUE)
  <2>1. UNCHANGED <<guard, observer, published>>
    BY <1>6 DEF GatewayState, Sensor, Open, Send
  <2> QED
    BY <1>1, <2>1 DEF guard, observer, Auth, Command
<1>7. CASE Tick
  <2>1. UNCHANGED <<armed, pressed, pushed, gear, epoch, published>> /\ lease_age' >= lease_age
    BY <1>7 DEF Tick, observer, Older, Inv, TypeOK
  <2>2. lease_age \in Nat /\ lease_age' \in Nat
    BY DEF Inv, TypeOK
  <2>3. Command' = Command \/ Command' = Zero
    BY <2>1, <2>2 DEF Command
  <2>4. Shown \/ Interlock!Drop
    BY <2>1, <2>3 DEF Interlock!Drop, Auth
  <2> QED
    BY <1>1, <2>4 DEF Interlock!Next
<1>8. CASE UNCHANGED vars
  BY <1>1, <1>8 DEF vars, guard, observer, Auth, Command
<1> QED
  BY <1>2, <1>3, <1>4, <1>5, <1>6, <1>7, <1>8 DEF Next

(* The guard implements the interlock, whatever the network does to messages.  *)
THEOREM GuardImplementsInterlock == Spec => ImplementsInterlock
<1>1. Init => Interlock!Init
  BY DEF Init, Interlock!Init, Interlock!None, Auth, Command
<1>2. Inv /\ Inv' /\ [Next]_vars => [Interlock!Next]_(Interlock!vars)
  BY StepRefines
<1> QED
  BY <1>1, <1>2, Inductive, PTL DEF Spec, ImplementsInterlock, Interlock!Spec

-----------------------------------------------------------------------------
(* StartExclusion.  Everything that one thread waits for is in one place: a     *)
(* request in one queue or with one worker, the console's answer with the      *)
(* worker that asked, the executor's question in the gateway's queue, with the *)
(* gateway's worker, or in the outbox.                                       *)

(* What is in a queue, and what is in it only once.                           *)
Elems(queue) == {queue[i] : i \in DOMAIN queue}

Single(queue, item) ==
  \A i, j \in DOMAIN queue : queue[i] = item /\ queue[j] = item => i = j

Places == Requests \cup {"nobody", "executor", "mapping", "control"}

Words == {"waiting", "yes", "no", "accepted", "refused", "timeout"}

Working == [do: {"none", "start", "portal", "status", "run", "state", "enable", "drive"}, for: Places,
            answer: Words, seen: {"no", "yes"}]

Items == [do: {"start", "portal", "status", "run", "state"}, for: Places]

Replies == [to: Places, word: Words]

WorkersTyped ==
  /\ mapping_work \in Working /\ inspection_work \in Working
  /\ control_work \in Working /\ executor \in Working

QueuesTyped ==
  /\ mapping_queue \in Seq(Items) /\ inspection_queue \in Seq(Items)
  /\ outbox \in Seq(Replies) /\ jobs \in Seq(Requests)

AskedTyped ==
  /\ kind \in [Requests -> Kinds \cup {"none"}]
  /\ reply \in [Requests -> {"none", "pending"} \cup Words]
  /\ task \in BOOLEAN /\ status \in BOOLEAN /\ run \in BOOLEAN /\ snapshot \in BOOLEAN

ExclusionTyped == WorkersTyped /\ QueuesTyped /\ AskedTyped

ThroughPortal(r) == r \in Requests /\ kind[r] = "portal"

(* What the gateway has before it is what was asked of it, each request once.  *)
Waiting ==
  /\ \A item \in Elems(mapping_queue) :
       /\ item.do \in {"start", "portal", "status"}
       /\ item.do = "start" => item.for \in Requests /\ kind[item.for] = "start"
       /\ item.do = "portal" =>
            /\ ThroughPortal(item.for) /\ Single(mapping_queue, item)
            /\ mapping_work.do = "portal" => mapping_work.for # item.for
  /\ mapping_work.do \in {"none", "start", "portal", "status"}
  /\ mapping_work.do = "none" => mapping_work = Idle
  /\ mapping_work.do = "start" =>
       mapping_work.for \in Requests /\ kind[mapping_work.for] = "start"
  /\ mapping_work.do = "portal" => ThroughPortal(mapping_work.for)

(* What the gateway's worker has asked of the console, alone or for the portal. *)
Ours(item) ==
  \/ item.do = "state" /\ item.for = "mapping"
  \/ item.do = "run" /\ ThroughPortal(item.for)

Awaited(item) ==
  /\ mapping_work.answer = "waiting"
  /\ IF item.do = "run" THEN mapping_work.do = "portal" /\ mapping_work.for = item.for
     ELSE mapping_work.do \in {"start", "status"}

Runs(item) ==
  item.do = "run" => item.for \in Requests /\ kind[item.for] \in {"portal", "direct"}

(* It waits for what it has asked, which is there once.                       *)
Questions ==
  /\ \A item \in Elems(inspection_queue) :
       /\ item.do \in {"run", "state"} /\ Runs(item)
       /\ Ours(item) => /\ Awaited(item) /\ Single(inspection_queue, item)
                        /\ ~Ours(inspection_work)
  /\ inspection_work.do \in {"none", "run", "state"} /\ Runs(inspection_work)
  /\ Ours(inspection_work) => Awaited(inspection_work)

(* A run that has become a job is no longer on its way through a queue.        *)
Gone(r) ==
  /\ kind[r] \in {"portal", "direct"}
  /\ kind[r] = "portal" =>
       /\ \A item \in Elems(mapping_queue) : item.do = "portal" => item.for # r
       /\ \A item \in Elems(inspection_queue) : item.do = "run" => item.for # r

Begun ==
  /\ \A r \in Elems(jobs) : Gone(r)
  /\ executor.do \in {"none", "run"}
  /\ executor.do = "none" => executor = Idle
  /\ executor.do = "run" => executor.for \in Requests /\ Gone(executor.for)

Asking == executor.do = "run" /\ executor.answer = "waiting"

ToExecutor(item) == item.to = "executor"

(* The executor's question is in one place, and only while it waits.           *)
Checks ==
  /\ \A item \in Elems(mapping_queue) :
       item.do = "status" =>
         /\ item.for = "executor" /\ Single(mapping_queue, item) /\ Asking
         /\ mapping_work.do # "status" /\ \A back \in Elems(outbox) : ~ToExecutor(back)
  /\ mapping_work.do = "status" => Asking /\ \A back \in Elems(outbox) : ~ToExecutor(back)
  /\ \A back \in Elems(outbox) :
       ToExecutor(back) =>
         /\ Asking /\ Single(outbox, back)
         /\ \A other \in Elems(outbox) : ToExecutor(other) => other = back

(* While the portal's worker waits for a run, the check of that run has not     *)
(* been answered.                                                            *)
Unanswered ==
  inspection_work.do = "run" /\ ThroughPortal(inspection_work.for) =>
    /\ inspection_work.answer # "accepted"
    /\ executor.do = "run" /\ executor.for = inspection_work.for =>
         Asking /\ \A back \in Elems(outbox) : ~ToExecutor(back)

(* So nothing that goes back through the portal says accepted.                *)
NeverAccepted ==
  /\ mapping_work.do = "portal" => mapping_work.answer # "accepted"
  /\ \A back \in Elems(outbox) :
       back.to \in Requests =>
         /\ kind[back.to] # "none"
         /\ kind[back.to] = "portal" => back.word # "accepted"
  /\ PortalNeverConfirms

ExclusionInv ==
  Waiting /\ Questions /\ Begun /\ Checks /\ Unanswered /\ NeverAccepted

-----------------------------------------------------------------------------
(* Queues *)

LEMMA QueueHolds ==
  ASSUME NEW S, NEW queue \in Seq(S)
  PROVE  Elems(queue) \subseteq S
  BY DEF Elems

LEMMA QueueGrows ==
  ASSUME NEW S, NEW queue \in Seq(S), NEW item \in S
  PROVE  /\ Append(queue, item) \in Seq(S)
         /\ Elems(Append(queue, item)) = Elems(queue) \cup {item}
         /\ \A x : Single(queue, x) /\ (x = item => item \notin Elems(queue))
                     => Single(Append(queue, item), x)
<1> DEFINE longer == Append(queue, item)
<1>1. /\ longer \in Seq(S) /\ Len(longer) = Len(queue) + 1 /\ Len(queue) \in Nat
      /\ DOMAIN longer = 1..(Len(queue) + 1) /\ DOMAIN queue = 1..Len(queue)
      /\ \A i \in 1..Len(queue) : longer[i] = queue[i]
      /\ longer[Len(queue) + 1] = item
  OBVIOUS
<1> HIDE DEF longer
<1>2. \A i \in DOMAIN longer : i \in DOMAIN queue \/ i = Len(queue) + 1
  BY <1>1
<1>3. Elems(longer) = Elems(queue) \cup {item}
  <2>1. Elems(longer) \subseteq Elems(queue) \cup {item}
    BY <1>1, <1>2 DEF Elems
  <2>2. Elems(queue) \subseteq Elems(longer)
    BY <1>1 DEF Elems
  <2>3. item \in Elems(longer)
    BY <1>1 DEF Elems
  <2> QED
    BY <2>1, <2>2, <2>3
<1>4. ASSUME NEW x, Single(queue, x), x = item => item \notin Elems(queue)
      PROVE  Single(longer, x)
  <2> SUFFICES ASSUME NEW i \in DOMAIN longer, NEW j \in DOMAIN longer,
                      longer[i] = x, longer[j] = x
               PROVE  i = j
    BY DEF Single
  <2>1. CASE i \in DOMAIN queue /\ j \in DOMAIN queue
    BY <1>1, <1>4, <2>1 DEF Single
  <2>2. CASE x = item
    BY <1>1, <1>2, <1>4, <2>2 DEF Elems
  <2>3. CASE x # item
    BY <1>1, <1>2, <2>1, <2>3
  <2> QED
    BY <2>2, <2>3
<1> QED
  BY <1>1, <1>3, <1>4 DEF longer

LEMMA QueueShrinks ==
  ASSUME NEW S, NEW queue \in Seq(S), queue # <<>>
  PROVE  /\ Tail(queue) \in Seq(S)
         /\ Head(queue) \in Elems(queue)
         /\ Elems(Tail(queue)) \subseteq Elems(queue)
         /\ \A x : Single(queue, x) => Single(Tail(queue), x)
         /\ Single(queue, Head(queue)) => Head(queue) \notin Elems(Tail(queue))
<1> DEFINE rest == Tail(queue)
<1>1. /\ rest \in Seq(S) /\ Head(queue) = queue[1] /\ 1 \in DOMAIN queue
      /\ \A i \in DOMAIN rest :
           i \in Nat \ {0} /\ i + 1 \in DOMAIN queue /\ rest[i] = queue[i + 1]
  OBVIOUS
<1> HIDE DEF rest
<1>2. Head(queue) \in Elems(queue) /\ Elems(rest) \subseteq Elems(queue)
  BY <1>1 DEF Elems
<1>3. ASSUME NEW x, Single(queue, x) PROVE Single(rest, x)
  BY <1>1, <1>3 DEF Single
<1>4. ASSUME Single(queue, Head(queue)) PROVE Head(queue) \notin Elems(rest)
  <2> SUFFICES ASSUME NEW i \in DOMAIN rest, rest[i] = queue[1] PROVE FALSE
    BY <1>1 DEF Elems
  <2>1. i + 1 = 1
    BY <1>1, <1>4 DEF Single
  <2> QED
    BY <1>1, <2>1
<1> QED
  BY <1>1, <1>2, <1>3, <1>4 DEF rest

(* Two items that say the same are the same.                                 *)
LEMMA SameItem ==
  ASSUME NEW a \in Items, NEW b \in Items, a.do = b.do, a.for = b.for
  PROVE  a = b
  BY DEF Items

LEMMA NewItem ==
  ASSUME NEW what \in {"start", "portal", "status", "run", "state"}, NEW who \in Places
  PROVE  /\ [do |-> what, for |-> who] \in Items
         /\ [do |-> what, for |-> who].do = what /\ [do |-> what, for |-> who].for = who
  BY DEF Items

-----------------------------------------------------------------------------
(* Work *)

LEMMA NewWork ==
  ASSUME NEW what \in {"none", "start", "portal", "status", "run", "state", "enable", "drive"},
         NEW who \in Places
  PROVE  /\ Work(what, who) \in Working
         /\ Work(what, who).do = what /\ Work(what, who).for = who
         /\ Work(what, who).answer = "waiting"
  BY DEF Work, Working, Words

LEMMA IdleWork ==
  Idle \in Working /\ Idle.do = "none" /\ Idle.for = "nobody" /\ Idle.answer = "waiting"
  BY NewWork DEF Idle, Places

LEMMA AnsweredWork ==
  ASSUME NEW work \in Working, NEW word \in Words
  PROVE  LET after == [work EXCEPT !.answer = word] IN
         after \in Working /\ after.do = work.do /\ after.for = work.for /\ after.answer = word
  BY DEF Working

LEMMA SeenWork ==
  ASSUME NEW work \in Working, NEW word \in {"no", "yes"}
  PROVE  LET after == [work EXCEPT !.seen = word] IN
         /\ after \in Working /\ after.do = work.do /\ after.for = work.for
         /\ after.answer = work.answer
  BY DEF Working

LEMMA WordLemma == ASSUME NEW active \in BOOLEAN PROVE Word(active) \in {"no", "yes"}
  BY DEF Word

-----------------------------------------------------------------------------
(* The steps *)

Core == <<asked, mapping_queue, mapping_work, outbox, inspection_queue, inspection_work, jobs,
          executor>>

(* Tasks and runs that end, copies that are refreshed, a drive that goes on.   *)
LEMMA QuietKeeps ==
  ASSUME ExclusionTyped, ExclusionInv, UNCHANGED Core, control_work' \in Working,
         task' \in BOOLEAN, status' \in BOOLEAN, run' \in BOOLEAN, snapshot' \in BOOLEAN
  PROVE  ExclusionTyped' /\ ExclusionInv'
<1> USE DEF Core, asked
<1>1. ExclusionTyped'
  BY DEF ExclusionTyped, WorkersTyped, QueuesTyped, AskedTyped
<1>2. Waiting' /\ Questions' /\ Unanswered'
  BY DEF ExclusionInv, Waiting, Questions, Unanswered, ThroughPortal, Ours, Awaited, Runs,
         Asking, ToExecutor
<1>3. Begun' /\ Checks' /\ NeverAccepted'
  BY DEF ExclusionInv, Begun, Gone, Checks, Asking, ToExecutor, NeverAccepted,
         PortalNeverConfirms
<1> QED
  BY <1>1, <1>2, <1>3 DEF ExclusionInv

LEMMA QueueTypes ==
  ASSUME ExclusionTyped
  PROVE  /\ Elems(mapping_queue) \subseteq Items /\ Elems(inspection_queue) \subseteq Items
         /\ Elems(outbox) \subseteq Replies /\ Elems(jobs) \subseteq Requests
  BY QueueHolds DEF ExclusionTyped, QueuesTyped

(* A request nobody has asked before is nowhere yet.                          *)
LEMMA AskKeeps ==
  ASSUME ExclusionTyped, ExclusionInv, NEW r \in Requests, NEW k \in Kinds, Ask(r, k)
  PROVE  ExclusionTyped' /\ ExclusionInv'
<1> USE DEF ExclusionInv
<1>1. /\ kind[r] = "none" /\ kind' \in [Requests -> Kinds \cup {"none"}]
      /\ kind'[r] = k /\ \A x \in Requests \ {r} : kind'[x] = kind[x]
      /\ reply' \in [Requests -> {"none", "pending"} \cup Words]
      /\ reply'[r] = "pending" /\ \A x \in Requests \ {r} : reply'[x] = reply[x]
      /\ UNCHANGED <<mapping_work, control_work, outbox, task, status, inspection_work, jobs,
                     executor, run, snapshot>>
  BY DEF Ask, ExclusionTyped, AskedTyped
<1>2. r \in Places /\ r # "executor" /\ k \in {"start", "portal", "direct"}
  BY RequestsAssumption DEF Places, Kinds
<1>3. \A x \in Requests : kind[x] # "none" => x # r /\ kind'[x] = kind[x]
  BY <1>1
<1>4. \A x : ThroughPortal(x) => ThroughPortal(x)' /\ x # r
  BY <1>1, <1>3 DEF ThroughPortal
<1>5. \A x : ThroughPortal(x)' => ThroughPortal(x) \/ (x = r /\ k = "portal")
  BY <1>1 DEF ThroughPortal
<1>6. /\ Runs(inspection_work)' /\ (Ours(inspection_work)' <=> Ours(inspection_work))
      /\ inspection_work.do = "run" => inspection_work.for # r
  BY <1>1, <1>3, <1>4, <1>5 DEF Questions, Runs, Ours
<1>7. \A item \in Elems(inspection_queue) :
        /\ item.do = "run" => item.for # r /\ item.for \in Requests
                              /\ kind'[item.for] \in {"portal", "direct"}
        /\ Ours(item)' <=> Ours(item)
        /\ Awaited(item)' <=> Awaited(item)
  BY <1>1, <1>3, <1>4, <1>5 DEF Questions, Runs, Ours, Awaited
<1>8. Unanswered'
  BY <1>1, <1>3, <1>4, <1>5, <1>6 DEF Unanswered, Asking
<1>9. NeverAccepted'
  BY <1>1, <1>3 DEF NeverAccepted, PortalNeverConfirms
<1>10. \A x \in Elems(jobs) \cup {executor.for} : Gone(x) /\ x \in Requests =>
          x # r /\ kind'[x] = kind[x]
  BY <1>3 DEF Gone
<1>11. \A x \in Elems(jobs) : x \in Requests
  BY QueueTypes
<1>12. CASE k = "direct"
  <2> DEFINE new == [do |-> "run", for |-> r]
  <2>1. new \in Items /\ new.do = "run" /\ new.for = r
    BY <1>2, NewItem
  <2>2. inspection_queue' = Append(inspection_queue, new) /\ UNCHANGED mapping_queue
    BY <1>12 DEF Ask
  <2> HIDE DEF new
  <2>3. /\ inspection_queue' \in Seq(Items)
        /\ Elems(inspection_queue)' = Elems(inspection_queue) \cup {new}
        /\ \A x : Single(inspection_queue, x) /\ x # new => Single(inspection_queue, x)'
    BY <2>1, <2>2, QueueGrows DEF ExclusionTyped, QueuesTyped
  <2>4. ExclusionTyped'
    BY <1>1, <2>2, <2>3 DEF ExclusionTyped, WorkersTyped, QueuesTyped, AskedTyped
  <2>5. Waiting'
    BY <1>1, <1>3, <1>4, <2>2 DEF Waiting
  <2>6. Questions'
    <3>1. ~Ours(new)' /\ Runs(new)'
      BY <1>1, <1>12, <2>1 DEF Ours, Runs, ThroughPortal
    <3>2. \A item \in Elems(inspection_queue) : item # new \/ ~Ours(item)
      BY <1>7, <2>1 DEF Ours
    <3> QED
      BY <1>1, <1>6, <1>7, <2>1, <2>3, <3>1, <3>2 DEF Questions, Runs, Awaited
  <2>7. Begun'
    BY <1>1, <1>10, <1>11, <2>1, <2>2, <2>3 DEF Begun, Gone
  <2>8. Checks'
    BY <1>1, <2>2 DEF Checks, Asking, ToExecutor
  <2> QED
    BY <1>8, <1>9, <2>4, <2>5, <2>6, <2>7, <2>8
<1>13. CASE k # "direct"
  <2> DEFINE new == [do |-> k, for |-> r]
  <2>1. new \in Items /\ new.do = k /\ new.for = r
    BY <1>2, <1>13, NewItem
  <2>2. mapping_queue' = Append(mapping_queue, new) /\ UNCHANGED inspection_queue
    BY <1>13 DEF Ask
  <2> HIDE DEF new
  <2>3. new \notin Elems(mapping_queue)
    BY <1>1, <1>2, <1>13, <2>1 DEF Waiting, ThroughPortal
  <2>4. /\ mapping_queue' \in Seq(Items)
        /\ Elems(mapping_queue)' = Elems(mapping_queue) \cup {new}
        /\ \A x : Single(mapping_queue, x) => Single(mapping_queue, x)'
        /\ Single(mapping_queue, new)'
    <3>1. Single(mapping_queue, new)
      BY <2>3 DEF Single, Elems
    <3> QED
      BY <2>1, <2>2, <2>3, <3>1, QueueGrows DEF ExclusionTyped, QueuesTyped
  <2>5. ExclusionTyped'
    BY <1>1, <2>2, <2>4 DEF ExclusionTyped, WorkersTyped, QueuesTyped, AskedTyped
  <2>6. Waiting'
    <3>1. mapping_work.do = "portal" => mapping_work.for # r
      BY <1>4 DEF Waiting
    <3>2. k = "portal" => ThroughPortal(r)'
      BY <1>1 DEF ThroughPortal
    <3> QED
      BY <1>1, <1>2, <1>3, <1>4, <1>13, <2>1, <2>4, <3>1, <3>2 DEF Waiting
  <2>7. Questions'
    BY <1>1, <1>6, <1>7, <2>2 DEF Questions, Runs, Awaited
  <2>8. Begun'
    BY <1>1, <1>10, <1>11, <2>1, <2>2, <2>4 DEF Begun, Gone
  <2>9. Checks'
    BY <1>1, <1>2, <1>13, <2>1, <2>4 DEF Checks, Asking, ToExecutor
  <2> QED
    BY <1>8, <1>9, <2>5, <2>6, <2>7, <2>8, <2>9
<1> QED
  BY <1>12, <1>13

(* A question for the state, from the control thread: it is not the worker's.  *)
LEMMA ControlAsksKeeps ==
  ASSUME ExclusionTyped, ExclusionInv, ControlAsks
  PROVE  ExclusionTyped' /\ ExclusionInv'
<1> USE DEF ExclusionInv, asked
<1> DEFINE new == [do |-> "state", for |-> "control"]
<1>1. new \in Items /\ new.do = "state" /\ new.for = "control"
  BY NewItem DEF Places
<1>2. /\ inspection_queue' = Append(inspection_queue, new) /\ control_work' \in Working
      /\ UNCHANGED <<asked, mapping_queue, mapping_work, outbox, task, status, inspection_work,
                     jobs, executor, run, snapshot>>
  BY NewWork DEF ControlAsks, AskState, Places
<1> HIDE DEF new
<1>3. /\ inspection_queue' \in Seq(Items)
      /\ Elems(inspection_queue)' = Elems(inspection_queue) \cup {new}
      /\ \A x : Single(inspection_queue, x) /\ x # new => Single(inspection_queue, x)'
  BY <1>1, <1>2, QueueGrows DEF ExclusionTyped, QueuesTyped
<1>4. ExclusionTyped'
  BY <1>2, <1>3 DEF ExclusionTyped, WorkersTyped, QueuesTyped, AskedTyped
<1>5. Waiting' /\ Checks' /\ Unanswered' /\ NeverAccepted'
  BY <1>2 DEF Waiting, Checks, Unanswered, NeverAccepted, PortalNeverConfirms, ThroughPortal,
              Asking, ToExecutor
<1>6. Questions'
  BY <1>1, <1>2, <1>3 DEF Questions, Ours, Awaited, Runs, ThroughPortal
<1>7. Begun'
  BY <1>1, <1>2, <1>3 DEF Begun, Gone
<1> QED
  BY <1>4, <1>5, <1>6, <1>7

(* The worker asks the console, and has nothing else outstanding.             *)
LEMMA MappingTakesKeeps ==
  ASSUME ExclusionTyped, ExclusionInv, MappingTakes
  PROVE  ExclusionTyped' /\ ExclusionInv'
<1> USE DEF ExclusionInv, asked
<1>1. PICK item : item = Head(mapping_queue)
  OBVIOUS
<1>2. PICK question : question = IF item.do = "portal" THEN [do |-> "run", for |-> item.for]
                                 ELSE [do |-> "state", for |-> "mapping"]
  OBVIOUS
<1>3. /\ mapping_queue' \in Seq(Items) /\ item \in Elems(mapping_queue)
      /\ Elems(mapping_queue)' \subseteq Elems(mapping_queue)
      /\ \A x : Single(mapping_queue, x) => Single(mapping_queue, x)'
      /\ Single(mapping_queue, item) => item \notin Elems(mapping_queue)'
  BY <1>1, QueueShrinks DEF MappingTakes, ExclusionTyped, QueuesTyped
<1>4. item \in Items /\ item.do \in {"start", "portal", "status"} /\ item.for \in Places
  BY <1>3, QueueTypes DEF Waiting, Items
<1>5. /\ mapping_work = Idle /\ mapping_work.do = "none"
      /\ mapping_work' \in Working /\ mapping_work'.do = item.do /\ mapping_work'.for = item.for
      /\ mapping_work'.answer = "waiting"
  <2>1. Word(status) \in {"no", "yes"}
    BY WordLemma DEF ExclusionTyped, AskedTyped
  <2>2. PICK fresh : fresh = Work(item.do, item.for)
    OBVIOUS
  <2>3. fresh \in Working /\ fresh.do = item.do /\ fresh.for = item.for /\ fresh.answer = "waiting"
    BY <1>4, <2>2, NewWork
  <2>4. mapping_work = Idle /\ mapping_work' = [fresh EXCEPT !.seen = Word(status)]
    BY <1>1, <2>2 DEF MappingTakes
  <2> QED
    BY <2>1, <2>3, <2>4, SeenWork, IdleWork
<1>6. question \in Items
  BY <1>2, <1>4, NewItem DEF Places
<1>7. question.do = (IF item.do = "portal" THEN "run" ELSE "state")
      /\ question.for = (IF item.do = "portal" THEN item.for ELSE "mapping")
  BY <1>2
<1>8. /\ inspection_queue' = Append(inspection_queue, question)
      /\ UNCHANGED <<asked, control_work, outbox, task, status, inspection_work, jobs, executor,
                     run, snapshot>>
  BY <1>1, <1>2 DEF MappingTakes, AskState
<1>9. (~Ours(inspection_work)) /\ \A x \in Elems(inspection_queue) : ~Ours(x)
  BY <1>5 DEF Questions, Awaited, Ours
<1>10. /\ item.do = "portal" => ThroughPortal(item.for) /\ Single(mapping_queue, item)
       /\ item.do = "start" => item.for \in Requests /\ kind[item.for] = "start"
       /\ item.do = "status" => /\ item.for = "executor" /\ Single(mapping_queue, item) /\ Asking
                                /\ \A back \in Elems(outbox) : ~ToExecutor(back)
  BY <1>3 DEF Waiting, Checks
<1>11. /\ Ours(question)' /\ Ours(question) /\ Runs(question) /\ Awaited(question)'
  <2>1. Ours(question) /\ Ours(question)'
    BY <1>7, <1>8, <1>10 DEF Ours, ThroughPortal
  <2>2. Runs(question)
    BY <1>7, <1>10 DEF Runs, ThroughPortal
  <2>3. Awaited(question)'
    BY <1>4, <1>5, <1>7 DEF Awaited
  <2> QED
    BY <2>1, <2>2, <2>3
<1>12. question \notin Elems(inspection_queue)
  BY <1>9, <1>11
<1>13. /\ inspection_queue' \in Seq(Items)
       /\ Elems(inspection_queue)' = Elems(inspection_queue) \cup {question}
       /\ Single(inspection_queue, question)'
  <2>1. Single(inspection_queue, question)
    BY <1>12 DEF Single, Elems
  <2>2. LET longer == Append(inspection_queue, question) IN
        /\ longer \in Seq(Items) /\ Elems(longer) = Elems(inspection_queue) \cup {question}
        /\ Single(longer, question)
    BY <1>6, <1>12, <2>1, QueueGrows DEF ExclusionTyped, QueuesTyped
  <2> QED
    BY <1>8, <2>2 DEF Elems, Single
<1>14. ExclusionTyped'
  BY <1>3, <1>5, <1>8, <1>13 DEF ExclusionTyped, WorkersTyped, QueuesTyped, AskedTyped
<1>15. \A x \in Elems(mapping_queue)' :
         ~(x.do = item.do /\ x.for = item.for /\ Single(mapping_queue, item))
  <2> SUFFICES ASSUME NEW x \in Elems(mapping_queue)', x.do = item.do, x.for = item.for,
                      Single(mapping_queue, item)
               PROVE  FALSE
    OBVIOUS
  <2>1. x \in Items
    BY <1>3, QueueTypes
  <2>2. x = item
    BY <1>4, <2>1, SameItem
  <2> QED
    BY <1>3, <2>2
<1>16. Waiting'
  <2>1. mapping_work'.do \in {"start", "portal", "status"}
    BY <1>4, <1>5
  <2>2. \A x \in Elems(mapping_queue)' : x.do = "portal" /\ item.do = "portal" => x.for # item.for
    BY <1>10, <1>15
  <2> QED
    BY <1>3, <1>5, <1>8, <1>10, <2>1, <2>2 DEF Waiting, ThroughPortal
<1>17. Questions'
  <2>1. \A x \in Elems(inspection_queue) : ~Ours(x)'
    BY <1>8, <1>9 DEF Ours, ThroughPortal
  <2>2. ~Ours(inspection_work)'
    BY <1>8, <1>9 DEF Ours, ThroughPortal
  <2>3. \A x \in Elems(inspection_queue)' :
           /\ x.do \in {"run", "state"} /\ Runs(x)'
           /\ Ours(x)' => Awaited(x)' /\ Single(inspection_queue, x)'
    BY <1>7, <1>8, <1>11, <1>13, <2>1 DEF Questions, Runs
  <2>4. inspection_work'.do \in {"none", "run", "state"} /\ Runs(inspection_work)'
    BY <1>8 DEF Questions, Runs
  <2> QED
    BY <2>2, <2>3, <2>4 DEF Questions
<1>18. Begun'
  <2>1. ASSUME NEW x, Gone(x) PROVE Gone(x)'
    <3>1. item.do = "portal" /\ kind[x] = "portal" => item.for # x
      BY <1>3, <2>1 DEF Gone
    <3> QED
      BY <1>3, <1>7, <1>8, <1>13, <2>1, <3>1 DEF Gone
  <2> QED
    BY <1>8, <2>1 DEF Begun
<1>19. Checks'
  <2>1. \A x \in Elems(mapping_queue)' : x.do = "status" => item.do # "status"
    <3> SUFFICES ASSUME NEW x \in Elems(mapping_queue)', x.do = "status", item.do = "status"
                 PROVE  FALSE
      OBVIOUS
    <3>1. x.for = "executor"
      BY <1>3 DEF Checks
    <3> QED
      BY <1>10, <1>15, <3>1
  <2> QED
    BY <1>3, <1>5, <1>8, <1>10, <2>1 DEF Checks, Asking
<1>20. Unanswered'
  BY <1>8 DEF Unanswered, ThroughPortal, Asking
<1>21. NeverAccepted'
  BY <1>5, <1>8 DEF NeverAccepted, PortalNeverConfirms
<1> QED
  BY <1>14, <1>16, <1>17, <1>18, <1>19, <1>20, <1>21

(* The worker posts its answer and is free: nothing of its own is left at the  *)
(* console, and if it was asked by the executor no other answer is on its way. *)
LEMMA PostKeeps ==
  ASSUME ExclusionTyped, ExclusionInv, NEW back \in Replies,
         outbox' = Append(outbox, back), mapping_work' = Idle, mapping_work.answer # "waiting",
         \/ mapping_work.do = "status" /\ back.to = "executor"
         \/ /\ mapping_work.do \in {"start", "portal"} /\ back.to = mapping_work.for
            /\ mapping_work.do = "portal" => back.word # "accepted",
         task' \in BOOLEAN,
         UNCHANGED <<asked, mapping_queue, control_work, status, inspection>>
  PROVE  ExclusionTyped' /\ ExclusionInv'
<1> USE DEF ExclusionInv, asked, inspection
<1>1. /\ outbox' \in Seq(Replies) /\ Elems(outbox)' = Elems(outbox) \cup {back}
      /\ \A x : Single(outbox, x) /\ (x = back => back \notin Elems(outbox)) => Single(outbox, x)'
  <2>1. LET longer == Append(outbox, back) IN
        /\ longer \in Seq(Replies) /\ Elems(longer) = Elems(outbox) \cup {back}
        /\ \A x : Single(outbox, x) /\ (x = back => back \notin Elems(outbox))
                    => Single(longer, x)
    BY QueueGrows DEF ExclusionTyped, QueuesTyped
  <2> QED
    BY <2>1 DEF Elems, Single
<1>2. mapping_work' \in Working /\ mapping_work'.do = "none"
  BY IdleWork
<1>3. ExclusionTyped'
  BY <1>1, <1>2 DEF ExclusionTyped, WorkersTyped, QueuesTyped, AskedTyped
<1>4. (~Ours(inspection_work)) /\ \A x \in Elems(inspection_queue) : ~Ours(x)
  BY DEF Questions, Awaited
<1>5. Waiting'
  BY <1>2 DEF Waiting, ThroughPortal
<1>6. Questions'
  BY <1>4 DEF Questions, Runs, Ours, ThroughPortal
<1>7. Begun'
  BY DEF Begun, Gone
<1>8. Unanswered'
  BY <1>4 DEF Unanswered, Ours, ThroughPortal
<1>9. Checks'
  <2>1. CASE mapping_work.do = "status"
    <3>1. ToExecutor(back) /\ Asking /\ \A x \in Elems(outbox) : ~ToExecutor(x)
      BY <2>1 DEF Checks, ToExecutor
    <3>2. Single(outbox, back) /\ back \notin Elems(outbox)
      BY <3>1 DEF Single, Elems
    <3>3. Single(outbox, back)'
      BY <1>1, <3>2
    <3>4. \A x \in Elems(mapping_queue) : x.do # "status"
      BY <2>1 DEF Checks
    <3> QED
      BY <1>1, <1>2, <3>1, <3>3, <3>4 DEF Checks, Asking, ToExecutor
  <2>2. CASE mapping_work.do # "status"
    <3>1. ~ToExecutor(back)
      BY <2>2, RequestsAssumption DEF Waiting, ThroughPortal, ToExecutor
    <3> QED
      BY <1>1, <1>2, <3>1 DEF Checks, Asking, ToExecutor
  <2> QED
    BY <2>1, <2>2
<1>10. NeverAccepted'
  <2>1. back.to \in Requests =>
          kind[back.to] # "none" /\ (kind[back.to] = "portal" => back.word # "accepted")
    BY RequestsAssumption DEF Waiting, ThroughPortal
  <2> QED
    BY <1>1, <1>2, <2>1 DEF NeverAccepted, PortalNeverConfirms
<1> QED
  BY <1>3, <1>5, <1>6, <1>7, <1>8, <1>9, <1>10

LEMMA NewReply ==
  ASSUME NEW who \in Places, NEW word \in Words
  PROVE  /\ [to |-> who, word |-> word] \in Replies
         /\ [to |-> who, word |-> word].to = who /\ [to |-> who, word |-> word].word = word
  BY DEF Replies

LEMMA MappingStartsKeeps ==
  ASSUME ExclusionTyped, ExclusionInv, MappingStarts
  PROVE  ExclusionTyped' /\ ExclusionInv'
<1>1. /\ mapping_work.do = "start" /\ mapping_work.answer # "waiting"
      /\ mapping_work' = Idle /\ task' \in BOOLEAN
      /\ UNCHANGED <<asked, mapping_queue, control_work, status, inspection>>
  BY DEF MappingStarts, Answered, ExclusionTyped, AskedTyped
<1>2. PICK word \in {"accepted", "refused"} :
        outbox' = Append(outbox, [to |-> mapping_work.for, word |-> word])
  BY DEF MappingStarts, Post
<1>3. mapping_work.for \in Places /\ word \in Words
  BY <1>1, <1>2 DEF ExclusionInv, Waiting, Places, Words
<1>4. PICK back : back = [to |-> mapping_work.for, word |-> word]
  OBVIOUS
<1>5. back \in Replies /\ back.to = mapping_work.for /\ outbox' = Append(outbox, back)
  BY <1>2, <1>3, <1>4, NewReply
<1> QED
  BY <1>1, <1>5, PostKeeps

LEMMA MappingReportsKeeps ==
  ASSUME ExclusionTyped, ExclusionInv, MappingReports
  PROVE  ExclusionTyped' /\ ExclusionInv'
<1>1. /\ mapping_work.do \in {"status", "portal"} /\ mapping_work.answer # "waiting"
      /\ mapping_work' = Idle /\ task' \in BOOLEAN
      /\ UNCHANGED <<asked, mapping_queue, control_work, status, inspection>>
  BY DEF MappingReports, Answered, ExclusionTyped, AskedTyped
<1>2. /\ mapping_work.for \in Places /\ mapping_work.answer \in Words
      /\ mapping_work.seen \in Words /\ "executor" \in Places
  BY DEF ExclusionTyped, WorkersTyped, Working, Words, Places
<1>3. CASE mapping_work.do = "status"
  <2>1. PICK back : back = [to |-> "executor", word |-> mapping_work.seen]
    OBVIOUS
  <2>2. outbox' = Append(outbox, back)
    BY <1>3, <2>1 DEF MappingReports, Post
  <2>3. back \in Replies /\ back.to = "executor"
    BY <1>2, <2>1, NewReply
  <2> QED
    BY <1>1, <1>3, <2>2, <2>3, PostKeeps
<1>4. CASE mapping_work.do = "portal"
  <2>1. PICK back : back = [to |-> mapping_work.for, word |-> mapping_work.answer]
    OBVIOUS
  <2>2. outbox' = Append(outbox, back)
    BY <1>4, <2>1 DEF MappingReports, Post
  <2>3. back \in Replies /\ back.to = mapping_work.for /\ back.word # "accepted"
    BY <1>2, <1>4, <2>1, NewReply DEF ExclusionInv, NeverAccepted
  <2> QED
    BY <1>1, <1>4, <2>2, <2>3, PostKeeps
<1> QED
  BY <1>1, <1>3, <1>4

(* A reply leaves the outbox.  The one the executor waits for was the only one. *)
LEMMA DeliverKeeps ==
  ASSUME ExclusionTyped, ExclusionInv, Deliver
  PROVE  ExclusionTyped' /\ ExclusionInv'
<1> USE DEF ExclusionInv, asked
<1>1. PICK item : item = Head(outbox)
  OBVIOUS
<1>2. /\ outbox' \in Seq(Replies) /\ item \in Elems(outbox)
      /\ Elems(outbox)' \subseteq Elems(outbox)
      /\ \A x : Single(outbox, x) => Single(outbox, x)'
      /\ Single(outbox, item) => item \notin Elems(outbox)'
  BY <1>1, QueueShrinks DEF Deliver, ExclusionTyped, QueuesTyped
<1>3. UNCHANGED <<mapping_queue, mapping_work, control_work, task, status, inspection_queue,
                  inspection_work, jobs, run, snapshot>>
  BY DEF Deliver
<1>4. item.to \in Places /\ item.word \in Words
  BY <1>2, QueueTypes DEF Replies
<1>5. CASE ToExecutor(item)
  <2>1. executor' = [executor EXCEPT !.answer = item.word] /\ UNCHANGED asked
    BY <1>1, <1>5 DEF Deliver, ToExecutor
  <2>2. /\ executor' \in Working /\ executor'.do = executor.do /\ executor'.for = executor.for
    BY <1>4, <2>1, AnsweredWork DEF ExclusionTyped, WorkersTyped
  <2>3. executor.do = "run" /\ \A x \in Elems(outbox)' : ~ToExecutor(x)
    BY <1>2, <1>5 DEF Checks, Asking
  <2>4. mapping_work.do # "status" /\ \A x \in Elems(mapping_queue) : x.do # "status"
    BY <1>2, <1>5 DEF Checks
  <2>5. ExclusionTyped'
    BY <1>2, <1>3, <2>1, <2>2 DEF ExclusionTyped, WorkersTyped, QueuesTyped, AskedTyped
  <2>6. Waiting' /\ Questions'
    BY <1>3, <2>1 DEF Waiting, Questions, ThroughPortal, Ours, Awaited, Runs
  <2>7. Begun'
    BY <1>3, <2>1, <2>2, <2>3 DEF Begun, Gone
  <2>8. Checks'
    BY <1>3, <2>3, <2>4 DEF Checks
  <2>9. Unanswered'
    <3>1. inspection_work.do = "run" /\ ThroughPortal(inspection_work.for) =>
            executor.for # inspection_work.for
      BY <1>2, <1>5, <2>3 DEF Unanswered
    <3> QED
      BY <1>3, <2>1, <2>2, <3>1 DEF Unanswered, ThroughPortal
  <2>10. NeverAccepted'
    BY <1>2, <1>3, <2>1 DEF NeverAccepted, PortalNeverConfirms
  <2> QED
    BY <2>5, <2>6, <2>7, <2>8, <2>9, <2>10
<1>6. CASE ~ToExecutor(item)
  <2>1. reply' = [reply EXCEPT ![item.to] = item.word] /\ UNCHANGED <<kind, executor>>
    BY <1>1, <1>6 DEF Deliver, ToExecutor, Tell
  <2>2. /\ reply' \in [Requests -> {"none", "pending"} \cup Words]
        /\ \A r \in Requests : reply'[r] = IF r = item.to THEN item.word ELSE reply[r]
    BY <1>4, <2>1 DEF ExclusionTyped, AskedTyped
  <2>3. ExclusionTyped'
    BY <1>2, <1>3, <2>1, <2>2 DEF ExclusionTyped, WorkersTyped, QueuesTyped, AskedTyped
  <2>4. Waiting' /\ Questions' /\ Begun'
    BY <1>3, <2>1 DEF Waiting, Questions, ThroughPortal, Ours, Awaited, Runs, Begun, Gone
  <2>5. Checks'
    BY <1>2, <1>3, <2>1 DEF Checks, Asking, ToExecutor
  <2>6. Unanswered'
    BY <1>2, <1>3, <2>1 DEF Unanswered, ThroughPortal, Asking, ToExecutor
  <2>7. NeverAccepted'
    BY <1>2, <1>3, <2>1, <2>2 DEF NeverAccepted, PortalNeverConfirms
  <2> QED
    BY <2>3, <2>4, <2>5, <2>6, <2>7
<1> QED
  BY <1>5, <1>6

(* A run that the console takes becomes a job, and has left both queues.       *)
LEMMA InspectionTakesKeeps ==
  ASSUME ExclusionTyped, ExclusionInv, InspectionTakes
  PROVE  ExclusionTyped' /\ ExclusionInv'
<1> USE DEF ExclusionInv, asked, mapping
<1>1. PICK item : item = Head(inspection_queue)
  OBVIOUS
<1>2. /\ inspection_queue' \in Seq(Items) /\ item \in Elems(inspection_queue)
      /\ Elems(inspection_queue)' \subseteq Elems(inspection_queue)
      /\ \A x : Single(inspection_queue, x) => Single(inspection_queue, x)'
      /\ Single(inspection_queue, item) => item \notin Elems(inspection_queue)'
  BY <1>1, QueueShrinks DEF InspectionTakes, ExclusionTyped, QueuesTyped
<1>3. item \in Items /\ item.do \in {"run", "state"} /\ Runs(item) /\ item.for \in Places
  BY <1>2, QueueTypes DEF Questions, Items
<1>4. /\ inspection_work' \in Working /\ inspection_work'.do = item.do
      /\ inspection_work'.for = item.for /\ inspection_work'.answer = "waiting"
  <2>1. inspection_work' = Work(item.do, item.for)
    BY <1>1 DEF InspectionTakes
  <2> QED
    BY <1>3, <2>1, NewWork
<1>5. UNCHANGED <<asked, mapping, executor, run, snapshot>>
  BY DEF InspectionTakes
<1>6. /\ jobs' \in Seq(Requests)
      /\ Elems(jobs)' = IF item.do = "run" THEN Elems(jobs) \cup {item.for} ELSE Elems(jobs)
  <2>1. CASE item.do = "run"
    <3>1. jobs' = Append(jobs, item.for) /\ item.for \in Requests
      BY <1>1, <1>3, <2>1 DEF InspectionTakes, Runs
    <3>2. LET longer == Append(jobs, item.for) IN
          longer \in Seq(Requests) /\ Elems(longer) = Elems(jobs) \cup {item.for}
      BY <3>1, QueueGrows DEF ExclusionTyped, QueuesTyped
    <3> QED
      BY <2>1, <3>1, <3>2 DEF Elems
  <2>2. CASE item.do # "run"
    BY <1>1, <2>2 DEF InspectionTakes, ExclusionTyped, QueuesTyped, Elems
  <2> QED
    BY <2>1, <2>2
<1>7. ExclusionTyped'
  BY <1>2, <1>4, <1>5, <1>6 DEF ExclusionTyped, WorkersTyped, QueuesTyped, AskedTyped
<1>8. Waiting' /\ Checks' /\ NeverAccepted'
  BY <1>5 DEF Waiting, Checks, NeverAccepted, PortalNeverConfirms, ThroughPortal, Asking,
              ToExecutor
<1>9. Ours(inspection_work)' <=> Ours(item)
  BY <1>4, <1>5 DEF Ours, ThroughPortal
<1>10. \A x \in Elems(inspection_queue)' : ~(x.do = item.do /\ x.for = item.for /\ Ours(item))
  <2> SUFFICES ASSUME NEW x \in Elems(inspection_queue)', x.do = item.do, x.for = item.for,
                      Ours(item)
               PROVE  FALSE
    OBVIOUS
  <2>1. x = item
    BY <1>2, <1>3, QueueTypes, SameItem
  <2> QED
    BY <1>2, <2>1 DEF Questions
<1>11. \A x \in Elems(inspection_queue)' : ~(Ours(x) /\ Ours(item))
  <2> SUFFICES ASSUME NEW x \in Elems(inspection_queue)', Ours(x), Ours(item) PROVE FALSE
    OBVIOUS
  <2>1. Awaited(x) /\ Awaited(item)
    BY <1>2 DEF Questions
  <2>2. x.do = item.do /\ x.for = item.for
    BY <2>1 DEF Ours, Awaited
  <2> QED
    BY <1>10, <2>2
<1>12. Questions'
  <2>1. \A x \in Elems(inspection_queue)' :
          /\ x.do \in {"run", "state"} /\ Runs(x)'
          /\ Ours(x)' => Ours(x) /\ Awaited(x)' /\ Single(inspection_queue, x)'
    BY <1>2, <1>5 DEF Questions, Runs, Ours, Awaited, ThroughPortal
  <2>2. Runs(inspection_work)' /\ inspection_work'.do \in {"none", "run", "state"}
    BY <1>3, <1>4, <1>5 DEF Runs
  <2>3. Ours(item) => Awaited(inspection_work)'
    BY <1>2, <1>4, <1>5 DEF Questions, Awaited
  <2> QED
    BY <1>9, <1>11, <2>1, <2>2, <2>3 DEF Questions
<1>13. \A r : Gone(r) => Gone(r)'
  BY <1>2, <1>5 DEF Gone
<1>14. item.do = "run" => Gone(item.for)'
  <2> SUFFICES ASSUME item.do = "run" PROVE Gone(item.for)'
    OBVIOUS
  <2>1. kind'[item.for] \in {"portal", "direct"} /\ item.for \in Requests
    BY <1>3, <1>5 DEF Runs
  <2>2. CASE kind[item.for] = "portal"
    <3>1. Ours(item) /\ Awaited(item)
      BY <1>2, <2>1, <2>2 DEF Ours, ThroughPortal, Questions
    <3>2. mapping_work.do = "portal" /\ mapping_work.for = item.for
      BY <3>1 DEF Awaited
    <3>3. \A x \in Elems(mapping_queue)' : x.do = "portal" => x.for # item.for
      BY <1>5, <3>2 DEF Waiting
    <3>4. \A x \in Elems(inspection_queue)' : x.do = "run" => x.for # item.for
      BY <1>10, <3>1
    <3> QED
      BY <1>5, <2>1, <3>3, <3>4 DEF Gone
  <2> QED
    BY <1>5, <2>1, <2>2 DEF Gone
<1>15. Begun'
  BY <1>5, <1>6, <1>13, <1>14 DEF Begun
<1>16. Unanswered'
  <2>1. item.do = "run" /\ ThroughPortal(item.for) =>
          ~(executor.do = "run" /\ executor.for = item.for)
    BY <1>2 DEF Begun, Gone, ThroughPortal
  <2> QED
    BY <1>4, <1>5, <2>1 DEF Unanswered, ThroughPortal
<1> QED
  BY <1>7, <1>8, <1>12, <1>15, <1>16

(* The console has told its state: what the gateway's worker asked is settled. *)
LEMMA InspectionReportsKeeps ==
  ASSUME ExclusionTyped, ExclusionInv, InspectionReports
  PROVE  ExclusionTyped' /\ ExclusionInv'
<1> USE DEF ExclusionInv, asked
<1>1. /\ inspection_work.do = "state" /\ inspection_work' = Idle
      /\ UNCHANGED <<asked, mapping_queue, outbox, task, status, inspection_queue, jobs, executor,
                     run, snapshot>>
  BY DEF InspectionReports
<1>2. inspection_work' \in Working /\ inspection_work'.do = "none"
  BY <1>1, IdleWork
<1>3. PICK word \in Words : word = Word(snapshot)
  BY WordLemma DEF ExclusionTyped, AskedTyped, Words
<1>4. CASE inspection_work.for = "mapping"
  <2>1. /\ mapping_work' \in Working /\ mapping_work'.do = mapping_work.do
        /\ mapping_work'.for = mapping_work.for /\ UNCHANGED control_work
    <3>1. mapping_work' = [mapping_work EXCEPT !.answer = word] /\ UNCHANGED control_work
      BY <1>3, <1>4 DEF InspectionReports
    <3> QED
      BY <3>1, AnsweredWork DEF ExclusionTyped, WorkersTyped
  <2>2. Ours(inspection_work) /\ mapping_work.do \in {"start", "status"}
    BY <1>1, <1>4 DEF Ours, Questions, Awaited
  <2>3. ExclusionTyped'
    BY <1>1, <1>2, <2>1 DEF ExclusionTyped, WorkersTyped, QueuesTyped, AskedTyped
  <2>4. Waiting'
    BY <1>1, <2>1, <2>2 DEF Waiting, ThroughPortal
  <2>5. Questions'
    <3>1. \A x \in Elems(inspection_queue) : ~Ours(x)
      BY <2>2 DEF Questions
    <3> QED
      BY <1>1, <1>2, <3>1 DEF Questions, Runs, Ours, ThroughPortal
  <2>6. Begun'
    BY <1>1 DEF Begun, Gone
  <2>7. Checks'
    BY <1>1, <2>1 DEF Checks, Asking, ToExecutor
  <2>8. Unanswered'
    BY <1>2 DEF Unanswered
  <2>9. NeverAccepted'
    BY <1>1, <2>1, <2>2 DEF NeverAccepted, PortalNeverConfirms
  <2> QED
    BY <2>3, <2>4, <2>5, <2>6, <2>7, <2>8, <2>9
<1>5. CASE inspection_work.for # "mapping"
  <2>1. control_work' \in Working /\ UNCHANGED mapping_work
    <3>1. control_work' = [control_work EXCEPT !.answer = word] /\ UNCHANGED mapping_work
      BY <1>3, <1>5 DEF InspectionReports
    <3> QED
      BY <3>1, AnsweredWork DEF ExclusionTyped, WorkersTyped
  <2>2. ExclusionTyped'
    BY <1>1, <1>2, <2>1 DEF ExclusionTyped, WorkersTyped, QueuesTyped, AskedTyped
  <2>3. Waiting' /\ Begun' /\ Checks' /\ NeverAccepted'
    BY <1>1, <2>1 DEF Waiting, Begun, Gone, Checks, NeverAccepted, PortalNeverConfirms,
                      ThroughPortal, Asking, ToExecutor
  <2>4. Questions'
    BY <1>1, <1>2, <2>1 DEF Questions, Runs, Ours, Awaited, ThroughPortal
  <2>5. Unanswered'
    BY <1>2 DEF Unanswered
  <2> QED
    BY <2>2, <2>3, <2>4, <2>5
<1> QED
  BY <1>4, <1>5

(* The reply of a run start.  Through the portal it is not an acceptance.       *)
LEMMA RunReplyKeeps ==
  ASSUME ExclusionTyped, ExclusionInv, inspection_work.do = "run",
         NEW word \in Words, RunReply(word),
         ThroughPortal(inspection_work.for) => word # "accepted"
  PROVE  ExclusionTyped' /\ ExclusionInv'
<1> USE DEF ExclusionInv, asked
<1>1. /\ inspection_work' = Idle
      /\ UNCHANGED <<mapping_queue, control_work, outbox, task, status, inspection_queue, jobs,
                     executor, run, snapshot>>
  BY DEF RunReply
<1>2. inspection_work' \in Working /\ inspection_work'.do = "none"
  BY <1>1, IdleWork
<1>3. PICK r \in Requests : r = inspection_work.for
  BY DEF Questions, Runs
<1>4. Unanswered'
  BY <1>2 DEF Unanswered
<1>5. CASE kind[r] = "portal"
  <2>1. /\ mapping_work' \in Working /\ mapping_work'.do = mapping_work.do
        /\ mapping_work'.for = mapping_work.for /\ mapping_work'.answer = word
        /\ UNCHANGED asked
    <3>1. mapping_work' = [mapping_work EXCEPT !.answer = word] /\ UNCHANGED asked
      BY <1>3, <1>5 DEF RunReply
    <3> QED
      BY <3>1, AnsweredWork DEF ExclusionTyped, WorkersTyped
  <2>2. Ours(inspection_work) /\ mapping_work.do = "portal" /\ word # "accepted"
    BY <1>3, <1>5 DEF Ours, ThroughPortal, Questions, Awaited
  <2>3. ExclusionTyped'
    BY <1>1, <1>2, <2>1 DEF ExclusionTyped, WorkersTyped, QueuesTyped, AskedTyped
  <2>4. Waiting'
    BY <1>1, <2>1, <2>2 DEF Waiting, ThroughPortal
  <2>5. Questions'
    <3>1. \A x \in Elems(inspection_queue) : ~Ours(x)
      BY <2>2 DEF Questions
    <3> QED
      BY <1>1, <1>2, <2>1, <3>1 DEF Questions, Runs, Ours, ThroughPortal
  <2>6. Begun' /\ Checks'
    BY <1>1, <2>1 DEF Begun, Gone, Checks, Asking, ToExecutor
  <2>7. NeverAccepted'
    BY <1>1, <2>1, <2>2 DEF NeverAccepted, PortalNeverConfirms
  <2> QED
    BY <1>4, <2>3, <2>4, <2>5, <2>6, <2>7
<1>6. CASE kind[r] # "portal"
  <2>1. reply' = [reply EXCEPT ![r] = word] /\ UNCHANGED <<kind, mapping_work>>
    BY <1>3, <1>6 DEF RunReply, Tell
  <2>2. /\ reply' \in [Requests -> {"none", "pending"} \cup Words]
        /\ \A x \in Requests : x # r => reply'[x] = reply[x]
    BY <2>1 DEF ExclusionTyped, AskedTyped
  <2>3. ExclusionTyped'
    BY <1>1, <1>2, <2>1, <2>2 DEF ExclusionTyped, WorkersTyped, QueuesTyped, AskedTyped
  <2>4. Waiting' /\ Begun' /\ Checks'
    BY <1>1, <2>1 DEF Waiting, Begun, Gone, Checks, ThroughPortal, Asking, ToExecutor
  <2>5. Questions'
    BY <1>1, <1>2, <2>1 DEF Questions, Runs, Ours, Awaited, ThroughPortal
  <2>6. NeverAccepted'
    BY <1>1, <1>6, <2>1, <2>2 DEF NeverAccepted, PortalNeverConfirms
  <2> QED
    BY <1>4, <2>3, <2>4, <2>5, <2>6
<1> QED
  BY <1>5, <1>6

LEMMA RunAnsweredKeeps ==
  ASSUME ExclusionTyped, ExclusionInv, RunAnswered \/ RunTimesOut
  PROVE  ExclusionTyped' /\ ExclusionInv'
<1>1. inspection_work.do = "run" /\ inspection_work.answer \in Words
  BY DEF RunAnswered, RunTimesOut, ExclusionTyped, WorkersTyped, Working
<1>2. ThroughPortal(inspection_work.for) => inspection_work.answer # "accepted"
  BY <1>1 DEF ExclusionInv, Unanswered
<1>3. CASE RunAnswered
  BY <1>1, <1>2, <1>3, RunReplyKeeps DEF RunAnswered
<1>4. CASE RunTimesOut
  BY <1>1, <1>4, RunReplyKeeps DEF RunTimesOut, Words
<1> QED
  BY <1>3, <1>4

(* A job is decided or refused, with no question outstanding: its worker hears *)
(* of it if it is still there, and if it is the portal's no acceptance.        *)
LEMMA ResultKeeps ==
  ASSUME ExclusionTyped, ExclusionInv, ~Asking, executor' = Idle,
         NEW word \in {"accepted", "refused"}, NEW r, Result(r, word),
         inspection_work.do = "run" /\ inspection_work.for = r /\ ThroughPortal(r)
           => word # "accepted",
         jobs' \in Seq(Requests), Elems(jobs)' \subseteq Elems(jobs),
         run' \in BOOLEAN, snapshot' \in BOOLEAN,
         UNCHANGED <<asked, mapping, inspection_queue>>
  PROVE  ExclusionTyped' /\ ExclusionInv'
<1> USE DEF ExclusionInv, asked, mapping
<1>1. word \in Words
  BY DEF Words
<1>2. executor' \in Working /\ executor'.do = "none"
  BY IdleWork
<1>3. /\ inspection_work' \in Working /\ inspection_work'.do = inspection_work.do
      /\ inspection_work'.for = inspection_work.for
      /\ inspection_work.do = "run" /\ ThroughPortal(inspection_work.for) =>
           inspection_work'.answer # "accepted"
  <2>1. CASE inspection_work.do = "run" /\ inspection_work.for = r
    <3>1. inspection_work' = [inspection_work EXCEPT !.answer = word]
      BY <2>1 DEF Result
    <3>2. /\ inspection_work' \in Working /\ inspection_work'.do = inspection_work.do
          /\ inspection_work'.for = inspection_work.for /\ inspection_work'.answer = word
      BY <1>1, <3>1, AnsweredWork DEF ExclusionTyped, WorkersTyped
    <3> QED
      BY <2>1, <3>2
  <2>2. CASE ~(inspection_work.do = "run" /\ inspection_work.for = r)
    <3>1. inspection_work' = inspection_work
      BY <2>2 DEF Result
    <3> QED
      BY <3>1 DEF ExclusionTyped, WorkersTyped, Unanswered
  <2> QED
    BY <2>1, <2>2
<1>4. ExclusionTyped'
  BY <1>2, <1>3 DEF ExclusionTyped, WorkersTyped, QueuesTyped, AskedTyped
<1>5. Waiting' /\ NeverAccepted'
  BY DEF Waiting, ThroughPortal, NeverAccepted, PortalNeverConfirms
<1>6. Questions'
  BY <1>3 DEF Questions, Runs, Ours, Awaited, ThroughPortal
<1>7. Begun'
  BY <1>2 DEF Begun, Gone
<1>8. Checks'
  BY DEF Checks, ToExecutor
<1>9. Unanswered'
  BY <1>2, <1>3 DEF Unanswered, ThroughPortal
<1> QED
  BY <1>4, <1>5, <1>6, <1>7, <1>8, <1>9

LEMMA JobRefusedKeeps ==
  ASSUME ExclusionTyped, ExclusionInv, JobRefused
  PROVE  ExclusionTyped' /\ ExclusionInv'
<1>1. /\ executor = Idle /\ executor' = Idle /\ Result(Head(jobs), "refused")
      /\ UNCHANGED <<asked, mapping, inspection_queue, run, snapshot>>
  BY DEF JobRefused
<1>2. ~Asking
  BY <1>1, IdleWork DEF Asking
<1>3. jobs' \in Seq(Requests) /\ Elems(jobs)' \subseteq Elems(jobs)
  BY QueueShrinks DEF JobRefused, ExclusionTyped, QueuesTyped
<1>4. run' \in BOOLEAN /\ snapshot' \in BOOLEAN
  BY <1>1 DEF ExclusionTyped, AskedTyped
<1> QED
  BY <1>1, <1>2, <1>3, <1>4, ResultKeeps

LEMMA JobDecidesKeeps ==
  ASSUME ExclusionTyped, ExclusionInv, JobDecides
  PROVE  ExclusionTyped' /\ ExclusionInv'
<1>1. /\ Answered(executor) /\ executor' = Idle
      /\ UNCHANGED <<asked, mapping, inspection_queue, jobs>>
      /\ run' \in BOOLEAN /\ snapshot' \in BOOLEAN
  BY DEF JobDecides, ExclusionTyped, AskedTyped
<1>2. PICK word \in {"accepted", "refused"} : Result(executor.for, word)
  BY DEF JobDecides
<1>3. (~Asking) /\ executor.do = "run"
  BY <1>1 DEF Answered, Asking, ExclusionInv, Begun
<1>4. ~(inspection_work.do = "run" /\ inspection_work.for = executor.for
        /\ ThroughPortal(executor.for))
  BY <1>3 DEF ExclusionInv, Unanswered
<1>5. jobs' \in Seq(Requests) /\ Elems(jobs)' \subseteq Elems(jobs)
  BY <1>1 DEF ExclusionTyped, QueuesTyped, Elems
<1> QED
  BY <1>1, <1>2, <1>3, <1>4, <1>5, ResultKeeps

(* The executor asks, and no earlier question of its own is left anywhere.     *)
LEMMA JobAsksKeeps ==
  ASSUME ExclusionTyped, ExclusionInv, JobAsks
  PROVE  ExclusionTyped' /\ ExclusionInv'
<1> USE DEF ExclusionInv, asked
<1>1. /\ executor = Idle /\ jobs # <<>>
      /\ UNCHANGED <<asked, mapping_work, control_work, outbox, task, status, inspection_queue,
                     inspection_work, run, snapshot>>
  BY DEF JobAsks
<1>2. PICK new : new = [do |-> "status", for |-> "executor"]
  OBVIOUS
<1>3. new \in Items /\ new.do = "status" /\ new.for = "executor"
  BY <1>2, NewItem DEF Places
<1>4. PICK r : r = Head(jobs)
  OBVIOUS
<1>5. /\ jobs' \in Seq(Requests) /\ Elems(jobs)' \subseteq Elems(jobs) /\ r \in Elems(jobs)
      /\ r \in Requests
  BY <1>1, <1>4, QueueShrinks, QueueTypes DEF JobAsks, ExclusionTyped, QueuesTyped
<1>6. /\ executor' \in Working /\ executor'.do = "run" /\ executor'.for = r
      /\ executor'.answer = "waiting"
  <2>1. executor' = Work("run", r) /\ r \in Places
    BY <1>4, <1>5 DEF JobAsks, Places
  <2> QED
    BY <2>1, NewWork
<1>7. /\ \A x \in Elems(mapping_queue) : x.do # "status"
      /\ mapping_work.do # "status" /\ \A back \in Elems(outbox) : ~ToExecutor(back)
  BY <1>1, IdleWork DEF Checks, Asking
<1>8. Single(mapping_queue, new) /\ new \notin Elems(mapping_queue)
  BY <1>3, <1>7 DEF Single, Elems
<1>9. /\ mapping_queue' \in Seq(Items)
      /\ Elems(mapping_queue)' = Elems(mapping_queue) \cup {new}
      /\ \A x : Single(mapping_queue, x) => Single(mapping_queue, x)'
  <2>1. LET longer == Append(mapping_queue, new) IN
        /\ longer \in Seq(Items) /\ Elems(longer) = Elems(mapping_queue) \cup {new}
        /\ \A x : Single(mapping_queue, x) => Single(longer, x)
    BY <1>3, <1>8, QueueGrows DEF ExclusionTyped, QueuesTyped
  <2>2. mapping_queue' = Append(mapping_queue, new)
    BY <1>2 DEF JobAsks
  <2> QED
    BY <2>1, <2>2 DEF Elems, Single
<1>10. ExclusionTyped'
  BY <1>1, <1>5, <1>6, <1>9 DEF ExclusionTyped, WorkersTyped, QueuesTyped, AskedTyped
<1>11. Waiting'
  BY <1>1, <1>3, <1>9 DEF Waiting, ThroughPortal
<1>12. Questions'
  BY <1>1 DEF Questions, Runs, Ours, Awaited, ThroughPortal
<1>13. Begun'
  <2>1. ASSUME NEW x, Gone(x) PROVE Gone(x)'
    BY <1>1, <1>3, <1>9, <2>1 DEF Gone
  <2> QED
    BY <1>5, <1>6, <2>1 DEF Begun
<1>14. Checks'
  BY <1>1, <1>3, <1>6, <1>7, <1>8, <1>9 DEF Checks, Asking, ToExecutor
<1>15. Unanswered'
  BY <1>1, <1>6, <1>7 DEF Unanswered, ThroughPortal, Asking, ToExecutor
<1>16. NeverAccepted'
  BY <1>1 DEF NeverAccepted, PortalNeverConfirms
<1> QED
  BY <1>10, <1>11, <1>12, <1>13, <1>14, <1>15, <1>16

-----------------------------------------------------------------------------
(* The theorems *)

LEMMA ExclusionBegins == ExclusionInit => ExclusionTyped /\ ExclusionInv
<1> SUFFICES ASSUME ExclusionInit PROVE ExclusionTyped /\ ExclusionInv
  OBVIOUS
<1>1. /\ mapping_work = Idle /\ inspection_work = Idle /\ control_work = Idle
      /\ executor = Idle /\ Idle \in Working /\ Idle.do = "none"
      /\ kind = [r \in Requests |-> "none"] /\ reply = [r \in Requests |-> "none"]
  BY IdleWork DEF ExclusionInit
<1>2. /\ mapping_queue = <<>> /\ inspection_queue = <<>> /\ outbox = <<>> /\ jobs = <<>>
      /\ Elems(<<>>) = {}
  BY DEF ExclusionInit, Elems
<1>3. ExclusionTyped
  <2>1. WorkersTyped
    BY <1>1 DEF WorkersTyped
  <2>2. QueuesTyped
    BY <1>2 DEF QueuesTyped
  <2>3. AskedTyped
    BY <1>1 DEF ExclusionInit, AskedTyped
  <2> QED
    BY <2>1, <2>2, <2>3 DEF ExclusionTyped
<1>4. Waiting /\ Questions /\ Begun /\ Checks /\ Unanswered /\ NeverAccepted
  BY <1>1, <1>2 DEF Waiting, Questions, Runs, Ours, Begun, Checks, Unanswered, NeverAccepted,
                    PortalNeverConfirms
<1> QED
  BY <1>3, <1>4 DEF ExclusionInv

LEMMA ExclusionNextKeeps ==
  ASSUME ExclusionTyped, ExclusionInv, [ExclusionNext]_exclusion_vars
  PROVE  ExclusionTyped' /\ ExclusionInv'
<1> USE DEF asked, mapping, inspection
<1>1. /\ control_work \in Working /\ task \in BOOLEAN /\ status \in BOOLEAN
      /\ run \in BOOLEAN /\ snapshot \in BOOLEAN
  BY DEF ExclusionTyped, WorkersTyped, AskedTyped
<1>2. CASE UNCHANGED exclusion_vars
  BY <1>1, <1>2, QuietKeeps DEF exclusion_vars, Core
<1>3. ASSUME NEW r \in Requests, NEW k \in Kinds, Ask(r, k)
      PROVE  ExclusionTyped' /\ ExclusionInv'
  BY <1>3, AskKeeps
<1>4. CASE MappingTakes
  BY <1>4, MappingTakesKeeps
<1>5. CASE MappingStarts
  BY <1>5, MappingStartsKeeps
<1>6. CASE MappingReports
  BY <1>6, MappingReportsKeeps
<1>7. CASE Deliver
  BY <1>7, DeliverKeeps
<1>8. CASE Refresh
  BY <1>1, <1>8, QuietKeeps DEF Refresh, Core
<1>9. CASE MappingEnds
  BY <1>1, <1>9, QuietKeeps DEF MappingEnds, Core
<1>10. CASE ControlAsks
  BY <1>10, ControlAsksKeeps
<1>11. CASE ControlRelays
  BY <1>1, <1>11, IdleWork, QuietKeeps DEF ControlRelays, Core
<1>12. CASE InspectionTakes
  BY <1>12, InspectionTakesKeeps
<1>13. CASE InspectionReports
  BY <1>13, InspectionReportsKeeps
<1>14. CASE RunAnswered \/ RunTimesOut
  BY <1>14, RunAnsweredKeeps
<1>15. CASE JobRefused
  BY <1>15, JobRefusedKeeps
<1>16. CASE JobAsks
  BY <1>16, JobAsksKeeps
<1>17. CASE JobDecides
  BY <1>17, JobDecidesKeeps
<1>18. CASE RunEnds
  BY <1>1, <1>18, QuietKeeps DEF RunEnds, Core
<1> QED
  BY <1>2, <1>3, <1>4, <1>5, <1>6, <1>7, <1>8, <1>9, <1>10, <1>11, <1>12, <1>13, <1>14, <1>15,
     <1>16, <1>17, <1>18 DEF ExclusionNext, MappingSteps

(* The two processes keep their questions apart: what each waits for is in one  *)
(* place, and a run that has become a job has left both queues.               *)
THEOREM ExclusionInductive == ExclusionSpec => [](ExclusionTyped /\ ExclusionInv)
<1>1. ExclusionInit => ExclusionTyped /\ ExclusionInv
  BY ExclusionBegins
<1>2. ExclusionTyped /\ ExclusionInv /\ [ExclusionNext]_exclusion_vars
        => ExclusionTyped' /\ ExclusionInv'
  BY ExclusionNextKeeps
<1> QED
  BY <1>1, <1>2, PTL DEF ExclusionSpec

(* Whatever the two workers, the executor and the operators do, and in whatever *)
(* order: a run started through the portal is never confirmed to its operator. *)
THEOREM PortalUnheard == ExclusionSpec => []PortalNeverConfirms
<1>1. ExclusionTyped /\ ExclusionInv => PortalNeverConfirms
  BY DEF ExclusionInv, NeverAccepted
<1> QED
  BY <1>1, ExclusionInductive, PTL

-----------------------------------------------------------------------------
(* What a request may be told, and by whom: the types.                        *)
Verdicts == {"accepted", "refused", "timeout"}

Spoken ==
  /\ mapping_work.do = "portal" => mapping_work.answer \in {"waiting"} \cup Verdicts
  /\ inspection_work.do = "run" => inspection_work.answer \in {"waiting"} \cup Verdicts
  /\ inspection_work.do = "none" => inspection_work = Idle
  /\ \A back \in Elems(outbox) : ~ToExecutor(back) => back.word \in Verdicts
  /\ reply \in [Requests -> {"none", "pending"} \cup Verdicts]

(* A reply joins those that are on their way.                                  *)
LEMMA PostSpeaks ==
  ASSUME ExclusionTyped, Spoken, NEW who \in Places, NEW word \in Words, Post(who, word),
         who = "executor" \/ word \in Verdicts,
         mapping_work' = Idle, UNCHANGED <<inspection_work, reply>>
  PROVE  Spoken'
<1>1. PICK back : back = [to |-> who, word |-> word]
  OBVIOUS
<1>2. back \in Replies /\ back.to = who /\ back.word = word /\ outbox' = Append(outbox, back)
  BY <1>1, NewReply DEF Post
<1>3. Elems(outbox)' = Elems(outbox) \cup {back}
  <2>1. Elems(Append(outbox, back)) = Elems(outbox) \cup {back}
    BY <1>2, QueueGrows DEF ExclusionTyped, QueuesTyped
  <2> QED
    BY <1>2, <2>1 DEF Elems
<1> QED
  BY <1>2, <1>3, IdleWork DEF Spoken, ToExecutor

(* A run start is answered, and its worker is free.                           *)
LEMMA RunReplySpeaks ==
  ASSUME ExclusionTyped, Spoken, NEW word \in Verdicts, RunReply(word)
  PROVE  Spoken'
<1>1. inspection_work' = Idle /\ UNCHANGED outbox /\ word \in Words
  BY DEF RunReply, Verdicts, Words
<1>2. \/ UNCHANGED reply /\ mapping_work' = [mapping_work EXCEPT !.answer = word]
      \/ UNCHANGED mapping_work /\ reply' = [reply EXCEPT ![inspection_work.for] = word]
  BY DEF RunReply, Tell, asked
<1>3. reply' \in [Requests -> {"none", "pending"} \cup Verdicts]
  BY <1>2 DEF Spoken
<1>4. mapping_work'.do = "portal" => mapping_work'.answer \in {"waiting"} \cup Verdicts
  <2>1. CASE UNCHANGED mapping_work
    BY <2>1 DEF Spoken
  <2>2. CASE mapping_work' = [mapping_work EXCEPT !.answer = word]
    <3>1. mapping_work'.answer = word
      BY <1>1, <2>2, AnsweredWork DEF ExclusionTyped, WorkersTyped
    <3> QED
      BY <3>1
  <2> QED
    BY <1>2, <2>1, <2>2
<1> QED
  BY <1>1, <1>3, <1>4, IdleWork DEF Spoken, ToExecutor

LEMMA ResultSpeaks ==
  ASSUME ExclusionTyped, Spoken, NEW r, NEW word \in Verdicts, Result(r, word),
         UNCHANGED <<mapping_work, outbox, reply>>
  PROVE  Spoken'
<1>1. word \in Words
  BY DEF Verdicts, Words
<1>2. \/ UNCHANGED inspection_work
      \/ /\ inspection_work.do = "run"
         /\ inspection_work' = [inspection_work EXCEPT !.answer = word]
  BY DEF Result
<1>3. \/ UNCHANGED inspection_work
      \/ inspection_work'.do = "run" /\ inspection_work'.answer \in Verdicts
  <2>1. CASE /\ inspection_work.do = "run"
             /\ inspection_work' = [inspection_work EXCEPT !.answer = word]
    <3>1. inspection_work'.do = inspection_work.do /\ inspection_work'.answer = word
      BY <1>1, <2>1, AnsweredWork DEF ExclusionTyped, WorkersTyped
    <3> QED
      BY <2>1, <3>1
  <2> QED
    BY <1>2, <2>1
<1> QED
  BY <1>3 DEF Spoken, ToExecutor

LEMMA TakesSpeak ==
  ASSUME ExclusionTyped, ExclusionInv, Spoken, MappingTakes \/ InspectionTakes
  PROVE  Spoken'
<1>1. CASE MappingTakes
  <2>1. PICK item : item = Head(mapping_queue)
    OBVIOUS
  <2>2. item \in Elems(mapping_queue)
    BY <1>1, <2>1, QueueShrinks DEF MappingTakes, ExclusionTyped, QueuesTyped
  <2>3. item.do \in {"start", "portal", "status"} /\ item.for \in Places
    BY <2>2, QueueTypes DEF ExclusionInv, Waiting, Items
  <2>4. PICK fresh : fresh = Work(item.do, item.for)
    OBVIOUS
  <2>5. mapping_work' = [fresh EXCEPT !.seen = Word(status)] /\ Word(status) \in {"no", "yes"}
    BY <1>1, <2>1, <2>4, WordLemma DEF MappingTakes, ExclusionTyped, AskedTyped
  <2>6. fresh \in Working /\ fresh.answer = "waiting"
    BY <2>3, <2>4, NewWork
  <2>7. mapping_work'.answer = "waiting"
    BY <2>5, <2>6, SeenWork
  <2> QED
    BY <1>1, <2>7 DEF MappingTakes, asked, Spoken, ToExecutor
<1>2. CASE InspectionTakes
  <2>1. PICK item : item = Head(inspection_queue)
    OBVIOUS
  <2>2. item \in Elems(inspection_queue)
    BY <1>2, <2>1, QueueShrinks DEF InspectionTakes, ExclusionTyped, QueuesTyped
  <2>3. item.do \in {"run", "state"} /\ item.for \in Places
    BY <2>2, QueueTypes DEF ExclusionInv, Questions, Items
  <2>4. inspection_work' = Work(item.do, item.for)
    BY <1>2, <2>1 DEF InspectionTakes
  <2>5. inspection_work'.answer = "waiting" /\ inspection_work'.do = item.do
    BY <2>3, <2>4, NewWork
  <2> QED
    BY <1>2, <2>3, <2>5 DEF InspectionTakes, asked, mapping, Spoken, ToExecutor
<1> QED
  BY <1>1, <1>2

LEMMA RepliesSpeak ==
  ASSUME ExclusionTyped, ExclusionInv, Spoken, MappingStarts \/ MappingReports \/ Deliver
  PROVE  Spoken'
<1>1. CASE MappingStarts
  <2>1. PICK word \in {"accepted", "refused"} : Post(mapping_work.for, word)
    BY <1>1 DEF MappingStarts
  <2>2. mapping_work.for \in Places /\ word \in Words /\ word \in Verdicts
    BY <2>1 DEF ExclusionTyped, WorkersTyped, Working, Words, Verdicts
  <2>3. mapping_work' = Idle /\ UNCHANGED <<inspection_work, reply>>
    BY <1>1 DEF MappingStarts, asked, inspection
  <2> QED
    BY <2>1, <2>2, <2>3, PostSpeaks
<1>2. CASE MappingReports
  <2>1. mapping_work' = Idle /\ UNCHANGED <<inspection_work, reply>>
    BY <1>2 DEF MappingReports, asked, inspection
  <2>2. /\ mapping_work.for \in Places /\ "executor" \in Places
        /\ mapping_work.answer \in Words /\ mapping_work.seen \in Words
    BY DEF ExclusionTyped, WorkersTyped, Working, Words, Places
  <2>3. CASE mapping_work.do = "status"
    <3>1. Post("executor", mapping_work.seen)
      BY <1>2, <2>3 DEF MappingReports
    <3> QED
      BY <2>1, <2>2, <3>1, PostSpeaks
  <2>4. CASE mapping_work.do = "portal"
    <3>1. Post(mapping_work.for, mapping_work.answer) /\ mapping_work.answer \in Verdicts
      BY <1>2, <2>4 DEF MappingReports, Answered, Spoken
    <3> QED
      BY <2>1, <2>2, <3>1, PostSpeaks
  <2> QED
    BY <1>2, <2>3, <2>4 DEF MappingReports
<1>3. CASE Deliver
  <2>1. PICK item : item = Head(outbox)
    OBVIOUS
  <2>2. item \in Elems(outbox) /\ Elems(outbox)' \subseteq Elems(outbox)
    BY <1>3, <2>1, QueueShrinks DEF Deliver, ExclusionTyped, QueuesTyped
  <2>3. \/ UNCHANGED reply
        \/ ~ToExecutor(item) /\ reply' = [reply EXCEPT ![item.to] = item.word]
    BY <1>3, <2>1 DEF Deliver, asked, Tell, ToExecutor
  <2>4. reply' \in [Requests -> {"none", "pending"} \cup Verdicts]
    BY <2>2, <2>3 DEF Spoken
  <2> QED
    BY <1>3, <2>2, <2>4 DEF Deliver, Spoken, ToExecutor
<1> QED
  BY <1>1, <1>2, <1>3

LEMMA ConsoleSpeaks ==
  ASSUME ExclusionTyped, ExclusionInv, Spoken,
         InspectionReports \/ RunAnswered \/ RunTimesOut \/ JobRefused \/ JobDecides
  PROVE  Spoken'
<1>1. CASE InspectionReports
  <2>1. inspection_work' = Idle /\ UNCHANGED <<outbox, reply>>
    BY <1>1 DEF InspectionReports, asked
  <2>2. UNCHANGED mapping_work \/ mapping_work'.do # "portal"
    <3>1. CASE inspection_work.for = "mapping"
      <4>1. Ours(inspection_work) /\ mapping_work.do \in {"start", "status"}
        BY <1>1, <3>1 DEF InspectionReports, Ours, ExclusionInv, Questions, Awaited
      <4>2. PICK word \in Words : word = Word(snapshot)
        BY WordLemma DEF ExclusionTyped, AskedTyped, Words
      <4>3. mapping_work' = [mapping_work EXCEPT !.answer = word]
        BY <1>1, <3>1, <4>2 DEF InspectionReports
      <4>4. mapping_work'.do = mapping_work.do
        BY <4>3, AnsweredWork DEF ExclusionTyped, WorkersTyped
      <4> QED
        BY <4>1, <4>4
    <3>2. CASE inspection_work.for # "mapping"
      BY <1>1, <3>2 DEF InspectionReports
    <3> QED
      BY <3>1, <3>2
  <2> QED
    BY <2>1, <2>2, IdleWork DEF Spoken, ToExecutor
<1>2. CASE RunAnswered
  <2>1. inspection_work.answer \in Verdicts
    BY <1>2 DEF RunAnswered, Answered, Spoken
  <2> QED
    BY <1>2, <2>1, RunReplySpeaks DEF RunAnswered
<1>3. CASE RunTimesOut
  BY <1>3, RunReplySpeaks DEF RunTimesOut, Verdicts
<1>4. CASE JobRefused
  BY <1>4, ResultSpeaks DEF JobRefused, asked, mapping, Verdicts
<1>5. CASE JobDecides
  BY <1>5, ResultSpeaks DEF JobDecides, asked, mapping, Verdicts
<1> QED
  BY <1>1, <1>2, <1>3, <1>4, <1>5

LEMMA SpokenKeeps ==
  ASSUME ExclusionTyped, ExclusionInv, Spoken, [ExclusionNext]_exclusion_vars
  PROVE  Spoken'
<1> USE DEF asked, mapping, inspection
<1>1. CASE UNCHANGED <<mapping_work, inspection_work, outbox, reply>>
  BY <1>1 DEF Spoken, ToExecutor
<1>2. ASSUME NEW r \in Requests, NEW k \in Kinds, Ask(r, k) PROVE Spoken'
  <2>1. reply' = [reply EXCEPT ![r] = "pending"]
        /\ UNCHANGED <<mapping_work, inspection_work, outbox>>
    BY <1>2 DEF Ask
  <2>2. reply' \in [Requests -> {"none", "pending"} \cup Verdicts]
    BY <2>1 DEF Spoken
  <2> QED
    BY <2>1, <2>2 DEF Spoken, ToExecutor
<1>3. CASE UNCHANGED exclusion_vars
  BY <1>1, <1>3 DEF exclusion_vars
<1>4. CASE Refresh \/ MappingEnds \/ ControlAsks \/ ControlRelays \/ JobAsks \/ RunEnds
  BY <1>1, <1>4 DEF Refresh, MappingEnds, ControlAsks, ControlRelays, JobAsks, RunEnds
<1> QED
  BY <1>2, <1>3, <1>4, TakesSpeak, RepliesSpeak, ConsoleSpeaks DEF ExclusionNext, MappingSteps

(* Every field keeps its type; a request is told that it was accepted, refused  *)
(* or not answered in time, and never the answer of somebody else's question.  *)
THEOREM ExclusionTypeCorrect == ExclusionSpec => []ExclusionTypeOK
<1>1. ExclusionInit => Spoken
  BY IdleWork DEF ExclusionInit, Spoken, Elems
<1>2. ExclusionTyped /\ ExclusionInv /\ Spoken /\ [ExclusionNext]_exclusion_vars => Spoken'
  BY SpokenKeeps
<1>3. ExclusionTyped /\ ExclusionInv /\ Spoken => ExclusionTypeOK
  BY DEF ExclusionTyped, AskedTyped, ExclusionInv, Waiting, Questions, Spoken, Verdicts,
         ExclusionTypeOK
<1> QED
  BY <1>1, <1>2, <1>3, ExclusionInductive, PTL DEF ExclusionSpec
=============================================================================
