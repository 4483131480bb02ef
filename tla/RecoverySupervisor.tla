-------------------------- MODULE RecoverySupervisor --------------------------
(***************************************************************************)
(* RecoverySupervisor, the root control node of the recovery behaviour trees, *)
(* with the RecoveryRuntime it shares with its leaves.  Child 0 navigates,    *)
(* child 1 recovers; either may run one motion leaf, whose action session is  *)
(* runtime->motion.  The supervisor publishes the motion permit, and before   *)
(* it changes child, task or goal it halts the children, cancels the session  *)
(* and waits until the session is over and the robot stands still.            *)
(*                                                                          *)
(* tick() is one long function with early returns.  Its fields are those of   *)
(* the record `node`, and the helpers it calls are operators on that record.   *)
(* Health, odometry and stillness may differ at every tick.  Sessions are as   *)
(* BoundedAction specifies them; their server answers between two ticks.      *)
(***************************************************************************)
EXTENDS Naturals

CONSTANTS
  MaxTask,        \* navigation goals (bound)
  MaxSequence,    \* motion actions (bound)
  CancelTimeout,  \* recovery.cancel_timeout, in ticks
  SettleTimeout,  \* recovery.settle_timeout, in ticks
  InputTimeout    \* recovery.input_wait_timeout, in ticks

ASSUME ConstantsAssumption ==
  /\ MaxTask \in Nat \ {0} /\ MaxSequence \in Nat \ {0}
  /\ CancelTimeout \in Nat /\ SettleTimeout \in Nat /\ InputTimeout \in Nat

VARIABLES
  node,      \* the supervisor's and the runtime's fields
  motion,    \* runtime->motion
  permit,    \* the last permit published: an action_sequence, or 0
  serving,   \* bt_navigator is running the tree
  task,      \* number of the goal bt_navigator works on
  observed   \* the goal whose UUID the status topic has brought, 0 for none

env == <<serving, task, observed>>
vars == <<node, motion, permit, env>>

Ready == {"ok", "localization", "missing"}

(* The most ticks that stop confirmation may take by its two limits.         *)
StopLimit == CancelTimeout + SettleTimeout + 1

(* `replaced`: the goal on the blackboard is not the one recorded in goal_;    *)
(* `leaf`: the active child runs its motion leaf; `stop_age` (observer): ticks *)
(* that have found the stop under way unfinished; `stray` (observer): a       *)
(* session was let go of before it was over.                                 *)
Node == [entered: BOOLEAN, starting: BOOLEAN, starting_uuid: 0..MaxTask, uuid: 0..MaxTask,
         switching: BOOLEAN, active: {0, 1}, next: {0, 1},
         cancel_age: 0..CancelTimeout, stop_age: 0..StopLimit + 1, settling: BOOLEAN, settle_age: 0..SettleTimeout,
         input_waiting: BOOLEAN, input_age: 0..InputTimeout, perception_wait: BOOLEAN,
         replan_tried: BOOLEAN, recovery_active: BOOLEAN, fault: BOOLEAN,
         replaced: BOOLEAN, leaf: BOOLEAN, sequence: 0..MaxSequence, stray: BOOLEAN]

Session == [phase: {"none", "sent", "accepted", "over"}, cancel: BOOLEAN, timed_out: BOOLEAN]
NoSession == [phase |-> "none", cancel |-> FALSE, timed_out |-> FALSE]
Live(m) == m.phase \in {"sent", "accepted"}

TypeOK ==
  /\ node \in Node
  /\ motion \in Session
  /\ permit \in 0..MaxSequence
  /\ serving \in BOOLEAN
  /\ task \in 0..MaxTask /\ observed \in 0..task

-----------------------------------------------------------------------------
(* A tick works on the node, the session and the permit together.            *)
State(n, m, p) == [n |-> n, m |-> m, p |-> p]
Here == State(node, motion, permit)
With(s, n) == State(n, s.m, s.p)
Quiet(s) == State(s.n, s.m, 0)

Result(s) == node' = s.n /\ motion' = s.m /\ permit' = s.p

(* ManagedSession::cancel().                                                 *)
Cancelled(m) == IF Live(m) THEN [m EXCEPT !.cancel = TRUE] ELSE m

(* motion.reset(): the node, once the session is let go of.                  *)
Released(n, m) == IF Live(m) THEN [n EXCEPT !.stray = TRUE] ELSE n

(* The deadline of a stop already under way is kept.                         *)
Stopping(n, next) ==
  IF n.switching THEN [n EXCEPT !.leaf = FALSE, !.next = next]
  ELSE [n EXCEPT !.leaf = FALSE, !.next = next, !.switching = TRUE,
                 !.cancel_age = 0, !.stop_age = 0, !.settling = FALSE]

(* stop_then() that leaves the permit to the next finish_stop().               *)
StopThenKeepsPermit(s, next) == State(Stopping(s.n, next), Cancelled(s.m), s.p)

(* stop_then(): no permit, children halted, session cancelled.                *)
StopThen(s, next) == State(Stopping(s.n, next), Cancelled(s.m), 0)

NoInputWait(n) == [n EXCEPT !.input_waiting = FALSE, !.input_age = 0]

(* What halt() clears: all but the runtime.                                  *)
Left(n) ==
  [NoInputWait(n) EXCEPT !.entered = FALSE, !.starting = FALSE, !.starting_uuid = 0,
                         !.perception_wait = FALSE, !.switching = FALSE, !.leaf = FALSE]

(* The tree ends: bt_navigator calls halt().                                 *)
Halted(s) == State(Left(s.n), Cancelled(s.m), 0)

Fail(s) == State([Left(s.n) EXCEPT !.fault = TRUE], Cancelled(s.m), 0)

Goes(s) == [ends |-> FALSE, done |-> FALSE, s |-> s]
Ends(s) == [ends |-> TRUE, done |-> FALSE, s |-> s]
Done(s) == [ends |-> FALSE, done |-> TRUE, s |-> s]

(* finish_stop() has to be called again.                                     *)
Waits(n, m) ==
  Goes(State(IF n.stop_age > StopLimit THEN n ELSE [n EXCEPT !.stop_age = @ + 1], m, 0))

(* The stop is complete.                                                     *)
Stopped(s) ==
  Done(State([Released(s.n, s.m) EXCEPT !.switching = FALSE, !.active = s.n.next], NoSession, 0))

(* The stillness check that starts again whenever the robot is not still.     *)
SettleRestarts(s) ==
  IF ~s.n.settling THEN {Waits([s.n EXCEPT !.settling = TRUE, !.settle_age = 0], s.m)}
  ELSE {Stopped(s), Waits([s.n EXCEPT !.settling = FALSE], s.m)}

(* The part of finish_stop() after the session is over: the robot must be     *)
(* still; in an input wait the odometry that would show it may be missing.    *)
Settle(s) ==
  (IF s.n.input_waiting THEN {Waits([s.n EXCEPT !.settling = FALSE], s.m)} ELSE {}) \cup
  IF ~s.n.settling THEN {Waits([s.n EXCEPT !.settling = TRUE, !.settle_age = 0], s.m)}
  ELSE { Stopped(s),
         IF s.n.settle_age >= SettleTimeout THEN Ends(Fail(s))
         ELSE Waits([s.n EXCEPT !.settle_age = @ + 1], s.m) }

(* A finish_stop() that takes a cancellation request for the end.             *)
FinishStopOnRequest(s) ==
  IF Live(s.m) /\ ~s.m.cancel
  THEN IF s.n.cancel_age >= CancelTimeout THEN {Ends(Fail(s))}
       ELSE {Waits([s.n EXCEPT !.cancel_age = @ + 1], s.m)}
  ELSE Settle(s)

(* A finish_stop() that looks at the deadline one tick late.                  *)
FinishStopLate(s) ==
  IF Live(s.m)
  THEN IF s.n.cancel_age > CancelTimeout THEN {Ends(Fail(s))}
       ELSE {Waits([s.n EXCEPT !.cancel_age = @ + 1], s.m)}
  ELSE Settle(s)

(* finish_stop(): every outcome of one call.                                 *)
FinishStop(s) ==
  IF Live(s.m)
  THEN IF s.n.cancel_age >= CancelTimeout THEN {Ends(Fail(s))}
       ELSE {Waits([s.n EXCEPT !.cancel_age = @ + 1], s.m)}
  ELSE Settle(s)

(* poll() of the session, at the start of every tick and of every leaf.       *)
Polled(s) ==
  {s} \cup IF Live(s.m) THEN {State(s.n, [s.m EXCEPT !.cancel = TRUE, !.timed_out = TRUE], s.p)}
           ELSE {}

(* A tick that returns r.                                                    *)
Returns(r) ==
  /\ Result(r.s)
  /\ serving' = ~r.ends
  /\ UNCHANGED <<task, observed>>

-----------------------------------------------------------------------------
(* start_task(): a new goal waits for its own UUID, for the previous task's    *)
(* motion to be over, for healthy inputs and for the robot to be still.       *)

(* reset_for_new_task() and the supervisor's own fields.                     *)
Renewed(n) ==
  [NoInputWait(n) EXCEPT !.fault = FALSE, !.recovery_active = FALSE, !.replan_tried = FALSE]

Accept(s) ==
  State([Renewed(Released(s.n, s.m)) EXCEPT
           !.uuid = s.n.starting_uuid, !.starting = FALSE, !.starting_uuid = 0,
           !.active = 0, !.replaced = FALSE],
        NoSession, 0)

Entered(s) ==
  IF s.n.entered THEN s
  ELSE With(s, [s.n EXCEPT !.entered = TRUE, !.starting = TRUE, !.starting_uuid = 0])

StartOutcomes(s) ==
  IF s.n.starting_uuid = 0 /\ observed \in {0, s.n.uuid}
  THEN {Goes(Quiet(s)), Ends(Fail(s))}
  ELSE
    LET t == IF s.n.starting_uuid # 0 THEN Quiet(s)
             ELSE StopThen(With(s, [s.n EXCEPT !.starting_uuid = observed]), 0)
        stops == IF t.n.switching THEN FinishStop(t) ELSE {Done(t)}
    IN {r \in stops : ~r.done} \cup
       UNION { {Goes(r.s), Goes(StopThen(r.s, 0)), Goes(Accept(r.s))} :
               r \in {r \in stops : r.done} }

StartTick ==
  \E s \in Polled(Here) :
    /\ Entered(s).n.starting
    /\ \E r \in StartOutcomes(Entered(s)) : Returns(r)
-----------------------------------------------------------------------------
(* The children.  A child's motion leaf sends its action, polls it, and when   *)
(* the session is over waits, with no permit, for the robot to be still.       *)
Statuses == {"RUNNING", "SUCCESS", "FAILURE"}

Child(status, s) == [status |-> status, s |-> s]
LeafFails(s) == Child("FAILURE", State([s.n EXCEPT !.fault = TRUE, !.leaf = FALSE], s.m, 0))

(* SafeActionLeaf::onRunning() of the leaf's first tick.                      *)
LeafStarts(s) ==
  IF Live(s.m) THEN {LeafFails(s)}      \* OVERLAPPING_MOTION_REJECTED
  ELSE IF s.n.sequence = MaxSequence THEN {}
  ELSE {Child("RUNNING",
          State([Released(s.n, s.m) EXCEPT !.sequence = @ + 1, !.leaf = TRUE],
                [NoSession EXCEPT !.phase = "sent"], s.p))}

(* The child goes on without the leaf, in the same tick.                      *)
Continues(s) == LeafStarts(s) \cup {Child(status, s) : status \in Statuses}

(* onRunning() of a leaf whose session runs or has just ended: a cancellation *)
(* may stay unconfirmed, or stillness may not come.  ProgressGuard may end    *)
(* the recovery on the way.                                                  *)
LeafRuns(s) ==
  IF Live(s.m)
  THEN {Child("RUNNING", s), Child("RUNNING", With(s, [s.n EXCEPT !.recovery_active = FALSE]))} \cup
       (IF s.m.cancel THEN {LeafFails(s)} ELSE {})
  ELSE {Child("RUNNING", Quiet(s)), LeafFails(s)} \cup
       Continues(State([Released(s.n, s.m) EXCEPT !.leaf = FALSE], NoSession, 0))

(* onHalted() that leaves the action to the supervisor.                      *)
LeafHaltedUncancelled(s) == State([s.n EXCEPT !.leaf = FALSE], s.m, 0)

(* A control node inside the child halts the leaf: onHalted().               *)
LeafHalted(s) == State([s.n EXCEPT !.leaf = FALSE], Cancelled(s.m), 0)

ChildOutcomes(s) ==
  IF s.n.leaf THEN LeafRuns(s) \cup Continues(LeafHalted(s)) ELSE Continues(s)

(* The rest of tick() after the child has been ticked.                       *)
AfterChild(c, inputs) ==
  LET s == IF inputs # "ok" /\ Live(c.s.m) THEN StopThen(c.s, 1) ELSE c.s
      allow == /\ inputs = "ok" /\ s.m.phase = "accepted" /\ ~s.m.cancel /\ ~s.m.timed_out
               /\ ~s.n.switching /\ ~s.n.fault
      t == IF allow THEN State(s.n, s.m, s.n.sequence) ELSE Quiet(s)
  IN
  CASE t.n.fault -> Ends(Fail(t))
    [] ~t.n.fault /\ (t.n.switching \/ c.status = "RUNNING") -> Goes(t)
    [] ~t.n.fault /\ ~t.n.switching /\ c.status = "SUCCESS" ->
         IF t.n.active = 0 THEN Ends(Halted(t)) ELSE Goes(StopThen(t, 0))
    [] ~t.n.fault /\ ~t.n.switching /\ c.status = "FAILURE" ->
         IF t.n.active = 1 THEN Ends(Fail(t))
         ELSE Goes(StopThen(With(t, [t.n EXCEPT !.recovery_active = TRUE, !.replan_tried = TRUE]),
                            IF t.n.replan_tried THEN 1 ELSE 0))

-----------------------------------------------------------------------------
(* The body of tick() for a task under way.                                  *)

(* A new goal or UUID stops the robot before anything else.                  *)
Recorded(s) ==
  IF s.n.replaced \/ observed # s.n.uuid
  THEN StopThen(With(s, [s.n EXCEPT !.replaced = FALSE, !.uuid = observed,
                                    !.replan_tried = FALSE]), 0)
  ELSE s

(* Perception is not healthy: stop, and wait without any limit.              *)
BlindOutcomes(s) ==
  LET t == IF s.n.perception_wait THEN s
           ELSE StopThen(With(s, [s.n EXCEPT !.perception_wait = TRUE]), 0)
  IN IF ~t.n.switching THEN {Goes(Quiet(t))} ELSE FinishStop(t)

(* Perception is healthy again: the waits it interrupted go on.              *)
Resumed(s) ==
  IF s.n.perception_wait THEN StopThen(With(s, [s.n EXCEPT !.perception_wait = FALSE]), 0)
  ELSE s

InputWait(s) ==
  LET n == IF s.n.input_waiting THEN s.n
           ELSE [s.n EXCEPT !.input_waiting = TRUE, !.input_age = 0]
  IN Goes(StopThen(With(s, [n EXCEPT !.recovery_active = TRUE]), 0))

LocalizationWait(s) ==
  LET n == IF s.n.input_waiting THEN s.n ELSE [s.n EXCEPT !.recovery_active = TRUE]
  IN Goes(StopThen(With(s, [n EXCEPT !.input_waiting = FALSE]), 1))

Ticked(s, inputs) == {AfterChild(c, inputs) : c \in ChildOutcomes(s)}

(* After the stop, if any, is complete.                                      *)
Proceeds(s, inputs) ==
  IF inputs = "missing" THEN {InputWait(s)}
  ELSE IF inputs = "localization" /\ (s.n.input_waiting \/ s.n.active = 0)
  THEN {LocalizationWait(s)}
  ELSE IF s.n.input_waiting
  THEN {Goes(Quiet(s))} \cup
       Ticked(Quiet(With(s, [s.n EXCEPT !.input_waiting = FALSE])), inputs)
  ELSE Ticked(s, inputs)

SightedOutcomes(s) ==
  LET expired == s.n.input_waiting /\ s.n.input_age >= InputTimeout
      t == IF s.n.input_waiting THEN With(s, [s.n EXCEPT !.input_age = @ + 1]) ELSE s
      stops == IF t.n.switching THEN FinishStop(t) ELSE {Done(t)}
  IN (IF s.n.recovery_active \/ expired THEN {Ends(Fail(s))} ELSE {}) \cup
     IF expired THEN {}
     ELSE {r \in stops : ~r.done} \cup
          UNION { Proceeds(r.s, inputs) : r \in {r \in stops : r.done}, inputs \in Ready }

BlindTick ==
  \E s \in Polled(Here) :
    /\ s.n.entered /\ ~s.n.starting /\ ~s.n.fault
    /\ \E r \in BlindOutcomes(Recorded(s)) : Returns(r)

SightedTick ==
  \E s \in Polled(Here) :
    /\ s.n.entered /\ ~s.n.starting /\ ~s.n.fault
    /\ \E r \in SightedOutcomes(Resumed(Recorded(s))) : Returns(r)

Tick == serving /\ (StartTick \/ BlindTick \/ SightedTick)

-----------------------------------------------------------------------------
(* bt_navigator and the action servers (external).                           *)

NewGoal ==
  /\ task < MaxTask
  /\ task' = task + 1 /\ serving' = TRUE
  /\ \E differs \in BOOLEAN : node' = [node EXCEPT !.replaced = @ \/ (serving /\ differs)]
  /\ UNCHANGED <<motion, permit, observed>>

(* The navigation goal is cancelled: the tree is halted.                     *)
CancelGoal ==
  /\ serving
  /\ Result(Halted(Here)) /\ serving' = FALSE
  /\ UNCHANGED <<task, observed>>

(* observe_uuid(): a retired UUID does not come back.                        *)
ObserveUuid ==
  /\ observed < task
  /\ observed' \in (observed + 1) .. task
  /\ UNCHANGED <<node, motion, permit, serving, task>>

SessionAccepted ==
  /\ motion.phase = "sent"
  /\ motion' = [motion EXCEPT !.phase = "accepted"]
  /\ UNCHANGED <<node, permit, env>>

SessionOver ==
  /\ Live(motion)
  /\ motion' = [motion EXCEPT !.phase = "over"]
  /\ UNCHANGED <<node, permit, env>>

Init ==
  /\ node = [entered |-> FALSE, starting |-> FALSE, starting_uuid |-> 0, uuid |-> 0,
             switching |-> FALSE, active |-> 0, next |-> 0,
             cancel_age |-> 0, stop_age |-> 0, settling |-> FALSE, settle_age |-> 0,
             input_waiting |-> FALSE, input_age |-> 0, perception_wait |-> FALSE,
             replan_tried |-> FALSE, recovery_active |-> FALSE, fault |-> FALSE,
             replaced |-> FALSE, leaf |-> FALSE, sequence |-> 0, stray |-> FALSE]
  /\ motion = NoSession /\ permit = 0
  /\ serving = FALSE /\ task = 0 /\ observed = 0

Next == Tick \/ NewGoal \/ CancelGoal \/ ObserveUuid \/ SessionAccepted \/ SessionOver

Spec == Init /\ [][Next]_vars

-----------------------------------------------------------------------------
(* Properties *)

(* Whatever interrupts a motion action, the runtime keeps its session until   *)
(* the action is over: no two motion actions ever overlap.                   *)
NoStrayMotion == ~node.stray

(* An action nobody has asked to cancel is always being ticked by its leaf,    *)
(* in a tree that is being ticked: no goal is left running unattended.        *)
MotionIsAttended ==
  Live(motion) /\ ~motion.cancel => serving /\ node.entered /\ node.leaf

(* The permit names the newest action, one that was accepted, that nobody     *)
(* cancels, of a task that is under way: not starting, stopping, waiting for  *)
(* perception or inputs, nor failed.                                         *)
PermitIsEarned ==
  permit # 0 =>
    /\ permit = node.sequence
    /\ motion.phase \in {"accepted", "over"} /\ ~motion.cancel
    /\ serving /\ ~node.starting /\ ~node.switching /\ ~node.fault
    /\ ~node.perception_wait /\ ~node.input_waiting

(* Outside an input wait, confirming a stop takes no longer than the cancel    *)
(* and settle limits allow; then the robot is still or the task has failed.   *)
StopEnds == node.switching /\ ~node.input_waiting => node.stop_age <= StopLimit

(* The comment of the perception wait: "confirming the stop stays within the   *)
(* cancel and settle limits; if it fails the robot is locked".               *)
StopIsBounded == node.switching /\ node.perception_wait => node.stop_age <= StopLimit
=============================================================================
