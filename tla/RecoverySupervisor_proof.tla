----------------------- MODULE RecoverySupervisor_proof -----------------------
(***************************************************************************)
(* Proofs about RecoverySupervisor, for any time limits and any number of     *)
(* tasks and motion actions.                                                 *)
(*                                                                          *)
(* A tick is a chain of operators on a state [n, m, p]; each lemma says what   *)
(* one of them keeps.                                                        *)
(***************************************************************************)
EXTENDS RecoverySupervisor, TLAPS

Work == [n: Node, m: Session, p: 0..MaxSequence]

(* What the two clocks of a stop have counted.                                *)
Counted(n) == n.cancel_age + IF n.settling THEN n.settle_age + 1 ELSE 0

(* Outside an input wait, every tick of a stop moves one of its clocks.        *)
Timely(n) == n.switching /\ ~n.input_waiting => n.stop_age <= Counted(n)

(* Inductive, and kept by every part of a tick: no session was let go of       *)
(* alive; one that nobody cancels has its leaf; a leaf runs only in a task     *)
(* under way; a start that has stopped the robot finds no session; a stop is   *)
(* no older than its clocks.                                                 *)
Core(s) ==
  /\ ~s.n.stray
  /\ Live(s.m) /\ ~s.m.cancel => s.n.entered /\ s.n.leaf
  /\ s.n.leaf => s.n.entered /\ ~s.n.starting /\ ~s.n.switching
  /\ s.n.starting /\ s.n.starting_uuid # 0 /\ ~s.n.switching => ~Live(s.m)
  /\ Timely(s.n)

(* What a permit stands for, but for the tree being ticked.                   *)
Allowed(s) ==
  /\ s.p = s.n.sequence
  /\ s.m.phase \in {"accepted", "over"} /\ ~s.m.cancel
  /\ ~s.n.starting /\ ~s.n.switching /\ ~s.n.fault
  /\ ~s.n.perception_wait /\ ~s.n.input_waiting

(* A tick that may return r.                                                 *)
Good(r) ==
  /\ r.ends \in BOOLEAN
  /\ r.s \in Work /\ Core(r.s)
  /\ r.ends => ~r.s.n.entered
  /\ r.s.p # 0 => Allowed(r.s) /\ ~r.ends

LEMMA StateLemma ==
  ASSUME NEW n \in Node, NEW m \in Session, NEW p \in 0..MaxSequence
  PROVE  /\ State(n, m, p) \in Work
         /\ State(n, m, p).n = n /\ State(n, m, p).m = m /\ State(n, m, p).p = p
  BY DEF State, Work

LEMMA QuietLemma ==
  ASSUME NEW n \in Node, NEW m \in Session
  PROVE  /\ State(n, m, 0) \in Work
         /\ State(n, m, 0).n = n /\ State(n, m, 0).m = m /\ State(n, m, 0).p = 0
  BY ConstantsAssumption DEF State, Work

LEMMA WorkLemma ==
  ASSUME NEW s \in Work
  PROVE  s.n \in Node /\ s.m \in Session /\ s.p \in 0..MaxSequence
  BY DEF Work

LEMMA ResultLemma ==
  ASSUME NEW s
  PROVE  /\ Goes(s).s = s /\ Goes(s).ends = FALSE /\ Goes(s).done = FALSE
         /\ Ends(s).s = s /\ Ends(s).ends = TRUE /\ Ends(s).done = FALSE
         /\ Done(s).s = s /\ Done(s).ends = FALSE /\ Done(s).done = TRUE
  BY DEF Goes, Ends, Done

LEMMA SessionLemma ==
  ASSUME NEW m \in Session
  PROVE  /\ Cancelled(m) \in Session
         /\ Live(Cancelled(m)) => Cancelled(m).cancel
         /\ NoSession \in Session /\ ~Live(NoSession)
         /\ [NoSession EXCEPT !.phase = "sent"] \in Session
         /\ [m EXCEPT !.cancel = TRUE, !.timed_out = TRUE] \in Session
         /\ [m EXCEPT !.cancel = TRUE, !.timed_out = TRUE].cancel
  BY DEF Cancelled, Session, Live, NoSession

(* What Timely looks at, of a node.                                          *)
SameClocks(k, n) ==
  /\ k.switching = n.switching /\ k.input_waiting = n.input_waiting
  /\ k.cancel_age = n.cancel_age /\ k.stop_age = n.stop_age
  /\ k.settling = n.settling /\ k.settle_age = n.settle_age

LEMMA TimelyLemma ==
  ASSUME NEW k, NEW n
  PROVE  /\ ~k.switching => Timely(k)
         /\ k.input_waiting => Timely(k)
         /\ SameClocks(k, n) /\ Timely(n) => Timely(k)
<1>1. (~k.switching => Timely(k)) /\ (k.input_waiting => Timely(k))
  BY DEF Timely
<1>2. SameClocks(k, n) /\ Timely(n) => Timely(k)
  <2>1. SameClocks(k, n) => Counted(k) = Counted(n)
    BY DEF SameClocks, Counted
  <2> QED
    BY <2>1 DEF SameClocks, Timely
<1> QED
  BY <1>1, <1>2

-----------------------------------------------------------------------------
(* The least values of the counters and numbers of a node.                    *)
LEMMA Zeros ==
  /\ 0 \in 0..MaxTask /\ 0 \in 0..InputTimeout /\ 0 \in 0..SettleTimeout
  /\ 0 \in 0..CancelTimeout /\ 0 \in 0..StopLimit + 1 /\ 0 \in {0, 1} /\ 1 \in {0, 1}
  /\ 0 \in 0..MaxSequence
  BY ConstantsAssumption DEF StopLimit

(* A node with one field changed.                                            *)
LEMMA FlagLemma ==
  ASSUME NEW n \in Node, NEW b \in BOOLEAN
  PROVE  /\ [n EXCEPT !.entered = b] \in Node /\ [n EXCEPT !.starting = b] \in Node
         /\ [n EXCEPT !.switching = b] \in Node /\ [n EXCEPT !.input_waiting = b] \in Node
         /\ [n EXCEPT !.perception_wait = b] \in Node /\ [n EXCEPT !.replan_tried = b] \in Node
         /\ [n EXCEPT !.recovery_active = b] \in Node /\ [n EXCEPT !.fault = b] \in Node
         /\ [n EXCEPT !.replaced = b] \in Node /\ [n EXCEPT !.leaf = b] \in Node
<1>1. [n EXCEPT !.entered = b] \in Node /\ [n EXCEPT !.starting = b] \in Node
  BY DEF Node
<1>2. [n EXCEPT !.switching = b] \in Node /\ [n EXCEPT !.input_waiting = b] \in Node
  BY DEF Node
<1>3. [n EXCEPT !.perception_wait = b] \in Node /\ [n EXCEPT !.replan_tried = b] \in Node
  BY DEF Node
<1>4. [n EXCEPT !.recovery_active = b] \in Node /\ [n EXCEPT !.fault = b] \in Node
  BY DEF Node
<1>5. [n EXCEPT !.replaced = b] \in Node /\ [n EXCEPT !.leaf = b] \in Node
  BY DEF Node
<1> QED
  BY <1>1, <1>2, <1>3, <1>4, <1>5

LEMMA UuidLemma ==
  ASSUME NEW n \in Node, NEW u \in 0..MaxTask
  PROVE  [n EXCEPT !.starting_uuid = u] \in Node /\ [n EXCEPT !.uuid = u] \in Node
  BY DEF Node

LEMMA NextLemma ==
  ASSUME NEW n \in Node, NEW next \in {0, 1} PROVE [n EXCEPT !.next = next] \in Node
  BY DEF Node

LEMMA SwitchLemma ==
  ASSUME NEW n \in Node, NEW c \in 0..CancelTimeout, NEW a \in 0..StopLimit + 1
  PROVE  [n EXCEPT !.switching = TRUE, !.cancel_age = c, !.stop_age = a, !.settling = FALSE]
           \in Node
<1>1. PICK k \in Node : k = [n EXCEPT !.switching = TRUE, !.cancel_age = c]
  BY DEF Node
<1>2. PICK l \in Node : l = [k EXCEPT !.stop_age = a]
  BY DEF Node
<1>3. [l EXCEPT !.settling = FALSE] \in Node
  BY DEF Node
<1> QED
  BY <1>1, <1>2, <1>3

(* Stopping, and leaving the tree.                                           *)
LEMMA StoppingLemma ==
  ASSUME NEW n \in Node, NEW next \in {0, 1}
  PROVE  /\ Stopping(n, next) \in Node
         /\ ~Stopping(n, next).leaf /\ Stopping(n, next).switching
         /\ Stopping(n, next).stray = n.stray /\ Stopping(n, next).entered = n.entered
         /\ Stopping(n, next).starting = n.starting
         /\ Stopping(n, next).perception_wait = n.perception_wait
         /\ Timely(n) => Timely(Stopping(n, next))
<1>1. CASE n.switching
  <2>1. Stopping(n, next) = [n EXCEPT !.leaf = FALSE, !.next = next]
    BY <1>1 DEF Stopping
  <2>2. /\ [n EXCEPT !.leaf = FALSE] \in Node
        /\ \A k \in Node : [k EXCEPT !.next = next] \in Node
    BY FlagLemma, NextLemma, Zenon
  <2>3. [[n EXCEPT !.leaf = FALSE] EXCEPT !.next = next] \in Node
    BY <2>2, Zenon
  <2>4. PICK k : k = Stopping(n, next)
    OBVIOUS
  <2>5. k \in Node
    BY <2>1, <2>3, <2>4
  <2>6. SameClocks(k, n)
    BY <2>1, <2>4 DEF Node, SameClocks
  <2>7. k.switching /\ ~k.leaf
    BY <1>1, <2>1, <2>4 DEF Node
  <2>8. /\ k.stray = n.stray /\ k.entered = n.entered /\ k.starting = n.starting
        /\ k.perception_wait = n.perception_wait
    BY <2>1, <2>4 DEF Node
  <2> QED
    BY <2>4, <2>5, <2>6, <2>7, <2>8, TimelyLemma
<1>2. CASE ~n.switching
  <2>1. \A k \in Node : [k EXCEPT !.next = next] \in Node
    BY NextLemma, Zenon
  <2>2. PICK o \in Node : o = [n EXCEPT !.leaf = FALSE, !.next = next]
    BY FlagLemma, <2>1
  <2>3. Stopping(n, next) \in Node
    <3>1. PICK none : none = 0
      OBVIOUS
    <3>2. [o EXCEPT !.switching = TRUE, !.cancel_age = none, !.stop_age = none, !.settling = FALSE]
            \in Node
      BY <3>1, SwitchLemma, Zeros, Zenon
    <3>3. Stopping(n, next) =
            [o EXCEPT !.switching = TRUE, !.cancel_age = none, !.stop_age = none,
                      !.settling = FALSE]
      BY <1>2, <2>2, <3>1 DEF Stopping
    <3> QED
      BY <3>2, <3>3, Zenon
  <2>4. PICK k : k = Stopping(n, next)
    OBVIOUS
  <2>5. Stopping(n, next) =
           [n EXCEPT !.leaf = FALSE, !.next = next, !.switching = TRUE,
                     !.cancel_age = 0, !.stop_age = 0, !.settling = FALSE]
    BY <1>2 DEF Stopping
  <2>6. k.cancel_age = 0 /\ k.stop_age = 0 /\ k.settling = FALSE
    BY <2>4, <2>5 DEF Node
  <2>7. Timely(k)
    BY <2>6 DEF Timely, Counted
  <2>8. k.switching /\ ~k.leaf
    BY <2>4, <2>5 DEF Node
  <2>9. k.stray = n.stray /\ k.entered = n.entered
    BY <2>4, <2>5 DEF Node
  <2>10. k.starting = n.starting /\ k.perception_wait = n.perception_wait
    BY <2>4, <2>5 DEF Node
  <2> QED
    BY <2>3, <2>4, <2>7, <2>8, <2>9, <2>10
<1> QED
  BY <1>1, <1>2

LEMMA NoInputWaitLemma ==
  ASSUME NEW n \in Node
  PROVE  /\ NoInputWait(n) \in Node
         /\ NoInputWait(n).stray = n.stray /\ NoInputWait(n).leaf = n.leaf
         /\ NoInputWait(n).entered = n.entered /\ NoInputWait(n).switching = n.switching
         /\ NoInputWait(n).starting_uuid = n.starting_uuid
<1>1. \A a \in 0..InputTimeout : [n EXCEPT !.input_waiting = FALSE, !.input_age = a] \in Node
  BY DEF Node
<1>2. NoInputWait(n) \in Node
  BY <1>1, Zeros, Zenon DEF NoInputWait
<1> QED
  BY <1>2 DEF NoInputWait, Node

LEMMA FaultLemma ==
  ASSUME NEW n \in Node
  PROVE  /\ [n EXCEPT !.fault = TRUE] \in Node
         /\ [n EXCEPT !.fault = TRUE].leaf = n.leaf
         /\ [n EXCEPT !.fault = TRUE].switching = n.switching
         /\ [n EXCEPT !.fault = TRUE].starting = n.starting
         /\ [n EXCEPT !.fault = TRUE].entered = n.entered
         /\ [n EXCEPT !.fault = TRUE].stray = n.stray
  BY DEF Node

LEMMA LeftLemma ==
  ASSUME NEW n \in Node
  PROVE  \A k \in {Left(n), [Left(n) EXCEPT !.fault = TRUE]} :
           /\ k \in Node
           /\ ~k.leaf /\ ~k.switching /\ ~k.starting /\ ~k.entered
           /\ k.stray = n.stray
<1>1. PICK w \in Node : w = NoInputWait(n) /\ w.stray = n.stray
  BY NoInputWaitLemma
<1>2. Left(n) = [w EXCEPT !.entered = FALSE, !.starting = FALSE, !.starting_uuid = 0,
                          !.perception_wait = FALSE, !.switching = FALSE, !.leaf = FALSE]
  BY <1>1, Zenon DEF Left
<1>3. PICK k \in Node : k = [w EXCEPT !.entered = FALSE, !.starting = FALSE]
  BY FlagLemma, Zenon
<1>4. Left(n) \in Node
  <2>1. [k EXCEPT !.starting_uuid = 0, !.perception_wait = FALSE] \in Node
    BY FlagLemma, UuidLemma, Zeros, Zenon
  <2>2. PICK j \in Node : j = [k EXCEPT !.starting_uuid = 0, !.perception_wait = FALSE]
    BY <2>1, Zenon
  <2>3. [j EXCEPT !.switching = FALSE, !.leaf = FALSE] \in Node
    BY FlagLemma, Zenon
  <2> QED
    BY <1>2, <1>3, <2>2, <2>3, Zenon
<1>5. /\ ~Left(n).leaf /\ ~Left(n).switching /\ ~Left(n).starting /\ ~Left(n).entered
      /\ Left(n).stray = n.stray
  BY <1>1, <1>2 DEF Node
<1> QED
  BY <1>4, <1>5, FaultLemma

(* Whatever state a tick is in, stop_then() leads to a good one.              *)
LEMMA StopThenLemma ==
  ASSUME NEW s \in Work, NEW next \in {0, 1}, ~s.n.stray, Timely(s.n)
  PROVE  /\ StopThen(s, next) \in Work /\ Core(StopThen(s, next))
         /\ StopThen(s, next).p = 0 /\ StopThen(s, next).n.switching
         /\ StopThen(s, next).n.entered = s.n.entered
         /\ StopThen(s, next).n.starting = s.n.starting
         /\ StopThen(s, next).n.perception_wait = s.n.perception_wait
<1>1. s.n \in Node /\ s.m \in Session
  BY WorkLemma
<1>2. PICK n \in Node : n = Stopping(s.n, next)
  BY <1>1, StoppingLemma
<1>3. PICK m \in Session : m = Cancelled(s.m) /\ (Live(m) => m.cancel)
  BY <1>1, SessionLemma
<1>4. StopThen(s, next) = State(n, m, 0)
  BY <1>2, <1>3, Zenon DEF StopThen
<1>5. /\ StopThen(s, next) \in Work
      /\ StopThen(s, next).n = n /\ StopThen(s, next).m = m /\ StopThen(s, next).p = 0
  BY <1>4, QuietLemma
<1>6. /\ ~n.leaf /\ n.switching /\ n.stray = s.n.stray /\ n.entered = s.n.entered
      /\ n.starting = s.n.starting /\ n.perception_wait = s.n.perception_wait
      /\ Timely(n)
  BY <1>1, <1>2, StoppingLemma
<1> QED
  BY <1>3, <1>5, <1>6 DEF Core

(* So do halt() and fail().                                                  *)
LEMMA LeaveLemma ==
  ASSUME NEW s \in Work, ~s.n.stray
  PROVE  \A t \in {Halted(s), Fail(s)} :
           t \in Work /\ Core(t) /\ t.p = 0 /\ ~t.n.entered
<1>1. s.n \in Node /\ s.m \in Session
  BY WorkLemma
<1>2. PICK m \in Session : m = Cancelled(s.m) /\ (Live(m) => m.cancel)
  BY <1>1, SessionLemma
<1>3. ASSUME NEW k \in {Left(s.n), [Left(s.n) EXCEPT !.fault = TRUE]}
      PROVE  /\ State(k, m, 0) \in Work /\ Core(State(k, m, 0))
             /\ State(k, m, 0).p = 0 /\ ~State(k, m, 0).n.entered
  <2>1. k \in Node /\ ~k.leaf /\ ~k.switching /\ ~k.starting /\ ~k.entered /\ k.stray = s.n.stray
    BY <1>1, LeftLemma
  <2>2. State(k, m, 0) \in Work /\ State(k, m, 0).n = k /\ State(k, m, 0).m = m /\ State(k, m, 0).p = 0
    BY <2>1, QuietLemma
  <2>3. Timely(k)
    BY <2>1, TimelyLemma
  <2> QED
    BY <1>2, <2>1, <2>2, <2>3 DEF Core
<1>4. /\ Halted(s) = State(Left(s.n), m, 0)
      /\ Fail(s) = State([Left(s.n) EXCEPT !.fault = TRUE], m, 0)
  BY <1>2, Zenon DEF Halted, Fail
<1> QED
  BY <1>3, <1>4

-----------------------------------------------------------------------------
(* finish_stop().  What Core and Allowed look at, of a node, but its clocks.   *)
Alike(k, n) ==
  /\ k.stray = n.stray /\ k.leaf = n.leaf /\ k.switching = n.switching
  /\ k.entered = n.entered /\ k.starting = n.starting /\ k.starting_uuid = n.starting_uuid
  /\ k.perception_wait = n.perception_wait /\ k.input_waiting = n.input_waiting

LEMMA AlikeLemma ==
  ASSUME NEW s, NEW t, Core(s), Alike(t.n, s.n), Timely(t.n), t.m = s.m
  PROVE  Core(t)
  BY DEF Core, Alike

(* A tick of a stop has moved one of its clocks, and is yet to be counted.      *)
Moved(n) == n.switching /\ ~n.input_waiting => n.stop_age + 1 <= Counted(n)

LEMMA WaitsLemma ==
  ASSUME NEW n \in Node, NEW m \in Session
  PROVE  /\ Waits(n, m).ends = FALSE /\ Waits(n, m).done = FALSE
         /\ Waits(n, m).s \in Work /\ Waits(n, m).s.p = 0 /\ Waits(n, m).s.m = m
         /\ Alike(Waits(n, m).s.n, n)
         /\ Moved(n) => Timely(Waits(n, m).s.n)
<1>1. StopLimit \in Nat
  BY ConstantsAssumption DEF StopLimit
<1>2. /\ n.stop_age \in Nat /\ n.cancel_age \in Nat /\ n.settle_age \in Nat
      /\ n.settling \in BOOLEAN
  BY <1>1 DEF Node
<1>3. CASE n.stop_age > StopLimit
  <2>1. PICK t \in Work : t = State(n, m, 0) /\ t.n = n /\ t.m = m /\ t.p = 0
    BY QuietLemma
  <2>2. Waits(n, m) = Goes(t)
    BY <1>3, <2>1, Zenon DEF Waits
  <2>3. Moved(n) => Timely(n)
    BY <1>2 DEF Moved, Timely, Counted
  <2> QED
    BY <2>1, <2>2, <2>3 DEF Goes, Alike
<1>4. CASE ~(n.stop_age > StopLimit)
  <2>1. n.stop_age + 1 \in 0..StopLimit + 1
    BY <1>1, <1>4 DEF Node
  <2>2. \A a \in 0..StopLimit + 1 : [n EXCEPT !.stop_age = a] \in Node
    BY DEF Node
  <2>3. PICK k \in Node : k = [n EXCEPT !.stop_age = n.stop_age + 1]
    BY <2>1, <2>2, Zenon
  <2>4. Alike(k, n)
    BY <2>3 DEF Alike, Node
  <2>5. PICK t \in Work : t = State(k, m, 0) /\ t.n = k /\ t.m = m /\ t.p = 0
    BY QuietLemma
  <2>6. Waits(n, m) = Goes(t)
    BY <1>4, <2>3, <2>5, Zenon DEF Waits
  <2>7. /\ k.stop_age = n.stop_age + 1 /\ k.switching = n.switching
        /\ k.input_waiting = n.input_waiting /\ k.cancel_age = n.cancel_age
        /\ k.settling = n.settling /\ k.settle_age = n.settle_age
    BY <2>3 DEF Node
  <2>8. Moved(n) => Timely(k)
    <3>1. Counted(k) = Counted(n)
      BY <2>7 DEF Counted
    <3> QED
      BY <2>7, <3>1 DEF Moved, Timely
  <2> QED
    BY <2>4, <2>5, <2>6, <2>8 DEF Goes
<1> QED
  BY <1>3, <1>4

(* Nodes that differ from n in the clocks of a stop only.                    *)
LEMMA ClockLemma ==
  ASSUME NEW n \in Node, NEW b \in BOOLEAN, NEW a \in 0..SettleTimeout,
         NEW c \in 0..CancelTimeout
  PROVE  \A k \in {[n EXCEPT !.settling = b], [n EXCEPT !.settling = b, !.settle_age = a],
                    [n EXCEPT !.settle_age = a], [n EXCEPT !.cancel_age = c]} :
           k \in Node /\ Alike(k, n)
<1>1. /\ [n EXCEPT !.settling = b] \in Node
      /\ [n EXCEPT !.settling = b, !.settle_age = a] \in Node
      /\ [n EXCEPT !.settle_age = a] \in Node /\ [n EXCEPT !.cancel_age = c] \in Node
  BY DEF Node
<1>2. /\ Alike([n EXCEPT !.settling = b], n)
      /\ Alike([n EXCEPT !.settling = b, !.settle_age = a], n)
      /\ Alike([n EXCEPT !.settle_age = a], n)
      /\ Alike([n EXCEPT !.cancel_age = c], n)
  BY DEF Node, Alike
<1> QED
  BY <1>1, <1>2, Zenon

(* A tick of a stop: it goes on, it fails, or it is complete with no session.  *)
Stops(r, s) ==
  /\ r.ends \in BOOLEAN /\ r.done \in BOOLEAN
  /\ r.s \in Work /\ Core(r.s) /\ r.s.p = 0
  /\ r.ends => ~r.s.n.entered
  /\ ~r.ends => /\ r.s.n.entered = s.n.entered
                /\ r.s.n.starting = s.n.starting /\ r.s.n.starting_uuid = s.n.starting_uuid
                /\ r.s.n.perception_wait = s.n.perception_wait
                /\ r.s.n.input_waiting = s.n.input_waiting
  /\ r.done => ~r.ends /\ ~r.s.n.switching /\ ~Live(r.s.m)

LEMMA WaitsStops ==
  ASSUME NEW s \in Work, Core(s), NEW k \in Node, Alike(k, s.n), Moved(k)
  PROVE  Stops(Waits(k, s.m), s)
<1>1. s.m \in Session
  BY WorkLemma
<1> DEFINE r == Waits(k, s.m)
<1>2. /\ r.ends = FALSE /\ r.done = FALSE
      /\ r.s \in Work /\ r.s.p = 0 /\ r.s.m = s.m /\ Alike(r.s.n, k)
      /\ Timely(r.s.n)
  BY <1>1, WaitsLemma
<1> HIDE DEF r
<1>3. Alike(r.s.n, s.n)
  BY <1>2 DEF Alike
<1>4. Core(r.s)
  BY <1>2, <1>3, AlikeLemma
<1>5. Stops(r, s)
  BY <1>2, <1>3, <1>4 DEF Stops, Alike
<1> QED
  BY <1>5 DEF r

LEMMA FailStops ==
  ASSUME NEW s \in Work, Core(s)
  PROVE  Stops(Ends(Fail(s)), s)
<1>1. PICK t \in Work : t = Fail(s) /\ Core(t) /\ t.p = 0 /\ ~t.n.entered
  BY LeaveLemma DEF Core
<1>2. Ends(Fail(s)) = [ends |-> TRUE, done |-> FALSE, s |-> t]
  BY <1>1 DEF Ends
<1> QED
  BY <1>1, <1>2 DEF Stops

LEMMA StoppedStops ==
  ASSUME NEW s \in Work, Core(s), s.n.switching, ~Live(s.m)
  PROVE  Stops(Stopped(s), s)
<1>1. s.n \in Node
  BY WorkLemma
<1>2. PICK k : k = [s.n EXCEPT !.switching = FALSE, !.active = s.n.next]
  OBVIOUS
<1>3. k \in Node
  BY <1>1, <1>2 DEF Node
<1>4. /\ k.stray = s.n.stray /\ k.leaf = s.n.leaf /\ k.switching = FALSE
      /\ k.entered = s.n.entered /\ k.starting = s.n.starting
      /\ k.starting_uuid = s.n.starting_uuid /\ k.perception_wait = s.n.perception_wait
      /\ k.input_waiting = s.n.input_waiting
  BY <1>1, <1>2 DEF Node
<1>5. NoSession \in Session /\ ~Live(NoSession)
  BY DEF NoSession, Session, Live
<1>6. PICK t \in Work : /\ t = State(k, NoSession, 0)
                        /\ t.n = k /\ t.m = NoSession /\ t.p = 0
  BY <1>3, <1>5, QuietLemma
<1>7. Stopped(s) = [ends |-> FALSE, done |-> TRUE, s |-> t]
  BY <1>2, <1>6 DEF Stopped, Released, Done
<1>8. Core(t)
  <2>1. Timely(t.n)
    BY <1>4, <1>6, TimelyLemma
  <2> QED
    BY <1>4, <1>5, <1>6, <2>1 DEF Core
<1> QED
  BY <1>4, <1>5, <1>6, <1>7, <1>8 DEF Stops

LEMMA FinishStopLemma ==
  ASSUME NEW s \in Work, Core(s), s.n.switching, NEW r \in FinishStop(s)
  PROVE  Stops(r, s)
<1>1. /\ s.n \in Node /\ s.m \in Session
      /\ s.n.cancel_age \in 0..CancelTimeout /\ s.n.settle_age \in 0..SettleTimeout
      /\ s.n.stop_age \in Nat /\ s.n.settling \in BOOLEAN /\ Timely(s.n)
  BY WorkLemma, ConstantsAssumption DEF Core, Node, StopLimit
<1>2. CASE Live(s.m)
  <2>1. CASE s.n.cancel_age >= CancelTimeout
    BY <1>2, <2>1, FailStops DEF FinishStop
  <2>2. CASE ~(s.n.cancel_age >= CancelTimeout)
    <3>1. s.n.cancel_age + 1 \in 0..CancelTimeout
      BY <1>1, <2>2, ConstantsAssumption
    <3>2. PICK k \in Node : k = [s.n EXCEPT !.cancel_age = s.n.cancel_age + 1] /\ Alike(k, s.n)
      BY <1>1, <3>1, Zeros, ClockLemma, Zenon
    <3>3. r = Waits(k, s.m)
      BY <1>2, <2>2, <3>2, Zenon DEF FinishStop
    <3>4. /\ k.cancel_age = s.n.cancel_age + 1 /\ k.stop_age = s.n.stop_age
          /\ k.settling = s.n.settling /\ k.settle_age = s.n.settle_age
          /\ k.switching = s.n.switching /\ k.input_waiting = s.n.input_waiting
      BY <1>1, <3>2 DEF Node
    <3>5. Moved(k)
      BY <1>1, <3>4 DEF Timely, Moved, Counted
    <3> QED
      BY <3>2, <3>3, <3>5, WaitsStops
  <2> QED
    BY <2>1, <2>2
<1>3. CASE ~Live(s.m)
  <2>1. r \in Settle(s)
    BY <1>3 DEF FinishStop
  <2>2. CASE s.n.input_waiting /\ r = Waits([s.n EXCEPT !.settling = FALSE], s.m)
    <3>1. PICK k \in Node : k = [s.n EXCEPT !.settling = FALSE] /\ Alike(k, s.n)
      BY <1>1, Zeros, ClockLemma, Zenon
    <3>2. Moved(k)
      BY <2>2, <3>1 DEF Alike, Moved
    <3> QED
      BY <2>2, <3>1, <3>2, WaitsStops
  <2>3. CASE ~s.n.settling /\ r = Waits([s.n EXCEPT !.settling = TRUE, !.settle_age = 0], s.m)
    <3>1. PICK z \in 0..SettleTimeout : z = 0
      BY Zeros
    <3>2. PICK k \in Node : k = [s.n EXCEPT !.settling = TRUE, !.settle_age = z] /\ Alike(k, s.n)
      BY <1>1, <3>1, ClockLemma, Zenon
    <3>3. r = Waits(k, s.m)
      BY <2>3, <3>1, <3>2
    <3>4. /\ k.cancel_age = s.n.cancel_age /\ k.stop_age = s.n.stop_age
          /\ k.settling = TRUE /\ k.settle_age = z
          /\ k.switching = s.n.switching /\ k.input_waiting = s.n.input_waiting
      BY <1>1, <3>2 DEF Node
    <3>5. Moved(k)
      BY <1>1, <2>3, <3>1, <3>4 DEF Timely, Moved, Counted
    <3> QED
      BY <3>2, <3>3, <3>5, WaitsStops
  <2>4. CASE r = Stopped(s)
    BY <1>3, <2>4, StoppedStops
  <2>5. CASE r = Ends(Fail(s))
    BY <2>5, FailStops
  <2>6. CASE /\ s.n.settling /\ ~(s.n.settle_age >= SettleTimeout)
             /\ r = Waits([s.n EXCEPT !.settle_age = s.n.settle_age + 1], s.m)
    <3>1. s.n.settle_age + 1 \in 0..SettleTimeout
      BY <1>1, <2>6, ConstantsAssumption
    <3>2. PICK k \in Node : k = [s.n EXCEPT !.settle_age = s.n.settle_age + 1] /\ Alike(k, s.n)
      BY <1>1, <3>1, Zeros, ClockLemma, Zenon
    <3>3. r = Waits(k, s.m)
      BY <2>6, <3>2, Zenon
    <3>4. /\ k.cancel_age = s.n.cancel_age /\ k.stop_age = s.n.stop_age
          /\ k.settling = s.n.settling /\ k.settle_age = s.n.settle_age + 1
          /\ k.switching = s.n.switching /\ k.input_waiting = s.n.input_waiting
      BY <1>1, <3>2 DEF Node
    <3>5. Moved(k)
      BY <1>1, <2>6, <3>4 DEF Timely, Moved, Counted
    <3> QED
      BY <3>2, <3>3, <3>5, WaitsStops
  <2> QED
    BY <2>1, <2>2, <2>3, <2>4, <2>5, <2>6, Zenon DEF Settle
<1> QED
  BY <1>2, <1>3

-----------------------------------------------------------------------------
(* The small operators of a tick.                                            *)
LEMMA WithLemma ==
  ASSUME NEW s \in Work, NEW n \in Node
  PROVE  /\ With(s, n) \in Work
         /\ With(s, n).n = n /\ With(s, n).m = s.m /\ With(s, n).p = s.p
  BY WorkLemma, StateLemma DEF With

LEMMA HushLemma ==
  ASSUME NEW s \in Work
  PROVE  /\ Quiet(s) \in Work
         /\ Quiet(s).n = s.n /\ Quiet(s).m = s.m /\ Quiet(s).p = 0
         /\ Core(s) => Core(Quiet(s))
<1>1. /\ Quiet(s) \in Work
      /\ Quiet(s).n = s.n /\ Quiet(s).m = s.m /\ Quiet(s).p = 0
  BY WorkLemma, QuietLemma DEF Quiet
<1> QED
  BY <1>1 DEF Core

LEMMA PolledLemma ==
  ASSUME NEW s \in Work, Core(s), NEW t \in Polled(s)
  PROVE  t \in Work /\ Core(t) /\ t.n = s.n
<1>1. CASE t = s
  BY <1>1
<1>2. CASE /\ Live(s.m)
           /\ t = State(s.n, [s.m EXCEPT !.cancel = TRUE, !.timed_out = TRUE], s.p)
  <2>1. PICK m \in Session : /\ m = [s.m EXCEPT !.cancel = TRUE, !.timed_out = TRUE]
                             /\ m.cancel
    BY WorkLemma, SessionLemma
  <2>2. t \in Work /\ t.n = s.n /\ t.m = m
    BY <1>2, <2>1, WorkLemma, StateLemma
  <2> QED
    BY <1>2, <2>1, <2>2 DEF Core
<1> QED
  BY <1>1, <1>2 DEF Polled

(* A tick that goes on, or ends, with the permit withdrawn.                   *)
LEMMA GoesGood ==
  ASSUME NEW s \in Work, Core(s), s.p = 0
  PROVE  Good(Goes(s))
  BY DEF Good, Goes

LEMMA StopGood ==
  ASSUME NEW s \in Work, ~s.n.stray, Timely(s.n), NEW next \in {0, 1}
  PROVE  Good(Goes(StopThen(s, next)))
  BY StopThenLemma, GoesGood

LEMMA LeaveGood ==
  ASSUME NEW s \in Work, ~s.n.stray
  PROVE  Good(Ends(Fail(s))) /\ Good(Ends(Halted(s)))
<1>1. ASSUME NEW t \in {Halted(s), Fail(s)}
      PROVE  Good(Ends(t))
  <2>1. t \in Work /\ Core(t) /\ t.p = 0 /\ ~t.n.entered
    BY LeaveLemma
  <2> QED
    BY <2>1 DEF Good, Ends
<1> QED
  BY <1>1

LEMMA StopsGood ==
  ASSUME NEW s, NEW r, Stops(r, s)
  PROVE  Good(r)
  BY DEF Stops, Good

-----------------------------------------------------------------------------
(* start_task().                                                             *)
LEMMA EnteredLemma ==
  ASSUME NEW s \in Work, Core(s)
  PROVE  Entered(s) \in Work /\ Core(Entered(s))
<1>1. CASE s.n.entered
  BY <1>1 DEF Entered
<1>2. CASE ~s.n.entered
  <2>1. PICK k \in Node : k = [s.n EXCEPT !.entered = TRUE, !.starting = TRUE]
    BY WorkLemma, FlagLemma, Zenon
  <2>2. PICK n \in Node :
          n = [s.n EXCEPT !.entered = TRUE, !.starting = TRUE, !.starting_uuid = 0]
    <3>1. [k EXCEPT !.starting_uuid = 0] \in Node
      BY FlagLemma, UuidLemma, Zeros, Zenon
    <3> QED
      BY <2>1, <3>1, Zenon
  <2>3. PICK t \in Work : t = With(s, n) /\ t.n = n /\ t.m = s.m
    BY WithLemma
  <2>4. Entered(s) = t
    BY <1>2, <2>2, <2>3, Zenon DEF Entered
  <2>5. /\ n.entered /\ n.starting_uuid = 0 /\ n.leaf = s.n.leaf /\ n.stray = s.n.stray
    BY <2>2, WorkLemma DEF Node
  <2>6. SameClocks(n, s.n)
    BY <2>2, WorkLemma DEF Node, SameClocks
  <2>7. Core(t)
    BY <1>2, <2>3, <2>5, <2>6, TimelyLemma DEF Core
  <2> QED
    BY <2>4, <2>7
<1> QED
  BY <1>1, <1>2

LEMMA RenewedLemma ==
  ASSUME NEW n \in Node
  PROVE  /\ Renewed(n) \in Node
         /\ Renewed(n).stray = n.stray /\ Renewed(n).leaf = n.leaf
         /\ Renewed(n).starting_uuid = n.starting_uuid
         /\ Renewed(n).switching = n.switching
<1>1. PICK w \in Node : /\ w = NoInputWait(n)
                        /\ w.stray = n.stray /\ w.leaf = n.leaf
                        /\ w.starting_uuid = n.starting_uuid /\ w.switching = n.switching
  BY NoInputWaitLemma
<1>2. Renewed(n) =
        [w EXCEPT !.fault = FALSE, !.recovery_active = FALSE, !.replan_tried = FALSE]
  BY <1>1 DEF Renewed
<1>3. Renewed(n) \in Node
  BY <1>2, FlagLemma, Zenon
<1> QED
  BY <1>1, <1>2, <1>3 DEF Node

LEMMA AcceptLemma ==
  ASSUME NEW s \in Work, Core(s), s.n.starting, ~s.n.switching, ~Live(s.m)
  PROVE  Good(Goes(Accept(s)))
<1>1. s.n \in Node /\ s.n.starting_uuid \in 0..MaxTask
  BY WorkLemma DEF Node
<1>2. Released(s.n, s.m) = s.n
  BY DEF Released
<1>3. PICK w \in Node : /\ w = Renewed(s.n) /\ w.stray = s.n.stray /\ w.leaf = s.n.leaf
                        /\ w.switching = s.n.switching
  BY <1>1, RenewedLemma
<1>4. ASSUME NEW u \in 0..MaxTask, NEW z \in 0..MaxTask, NEW a \in {0, 1}
      PROVE  [w EXCEPT !.uuid = u, !.starting = FALSE, !.starting_uuid = z,
                       !.active = a, !.replaced = FALSE] \in Node
  BY DEF Node
<1>5. PICK n \in Node :
        n = [w EXCEPT !.uuid = s.n.starting_uuid, !.starting = FALSE, !.starting_uuid = 0,
                      !.active = 0, !.replaced = FALSE]
  BY <1>1, <1>4, Zeros, Zenon
<1>6. /\ n.stray = w.stray /\ n.leaf = w.leaf /\ n.starting = FALSE
      /\ n.switching = w.switching
  BY <1>5 DEF Node
<1>7. NoSession \in Session /\ ~Live(NoSession)
  BY DEF Live, NoSession, Session
<1>8. PICK t \in Work : t = State(n, NoSession, 0) /\ t.n = n /\ t.m = NoSession /\ t.p = 0
  BY <1>7, QuietLemma
<1>9. Accept(s) = t
  BY <1>2, <1>3, <1>5, <1>8, Zenon DEF Accept
<1>10. Core(t)
  <2>1. Timely(t.n)
    BY <1>3, <1>6, <1>8, TimelyLemma
  <2> QED
    BY <1>3, <1>6, <1>7, <1>8, <2>1 DEF Core
<1> QED
  BY <1>8, <1>9, <1>10, GoesGood

LEMMA StartLemma ==
  ASSUME TypeOK, NEW s \in Work, Core(s), s.n.starting, NEW r \in StartOutcomes(s)
  PROVE  Good(r)
<1>1. CASE s.n.starting_uuid = 0 /\ observed \in {0, s.n.uuid}
  <2>1. r \in {Goes(Quiet(s)), Ends(Fail(s))}
    BY <1>1 DEF StartOutcomes
  <2>2. Good(Goes(Quiet(s)))
    BY HushLemma, GoesGood
  <2>3. Good(Ends(Fail(s)))
    BY LeaveGood DEF Core
  <2> QED
    BY <2>1, <2>2, <2>3
<1>2. CASE ~(s.n.starting_uuid = 0 /\ observed \in {0, s.n.uuid})
  <2> DEFINE t == IF s.n.starting_uuid # 0 THEN Quiet(s)
                  ELSE StopThen(With(s, [s.n EXCEPT !.starting_uuid = observed]), 0)
             stops == IF t.n.switching THEN FinishStop(t) ELSE {Done(t)}
  <2>1. \/ r \in stops /\ ~r.done
        \/ \E q \in stops : q.done /\ r \in {Goes(q.s), Goes(StopThen(q.s, 0)), Goes(Accept(q.s))}
    BY <1>2, Zenon DEF StartOutcomes
  <2>2. /\ t \in Work /\ Core(t) /\ t.n.starting /\ t.p = 0
        /\ ~t.n.switching => ~Live(t.m)
    <3>1. CASE s.n.starting_uuid # 0
      <4>1. t = Quiet(s)
        BY <3>1
      <4> QED
        BY <3>1, <4>1, HushLemma DEF Core
    <3>2. CASE s.n.starting_uuid = 0
      <4>1. observed \in 0..MaxTask
        <5>1. task \in 0..MaxTask /\ observed \in 0..task
          BY DEF TypeOK
        <5> QED
          BY <5>1, ConstantsAssumption
      <4>2. PICK n \in Node : /\ n = [s.n EXCEPT !.starting_uuid = observed]
                              /\ n.stray = s.n.stray /\ n.starting = s.n.starting
                              /\ Timely(n)
        <5>1. PICK k : k = [s.n EXCEPT !.starting_uuid = observed]
          OBVIOUS
        <5>2. k \in Node
          BY <4>1, <5>1, WorkLemma DEF Node
        <5>3. k.stray = s.n.stray /\ k.starting = s.n.starting
          BY <5>1, WorkLemma DEF Node
        <5>4. SameClocks(k, s.n)
          BY <5>1, WorkLemma DEF Node, SameClocks
        <5>5. Timely(k)
          BY <5>4, TimelyLemma DEF Core
        <5> QED
          BY <5>1, <5>2, <5>3, <5>5, Zenon
      <4>3. PICK w \in Work : w = With(s, n) /\ w.n = n
        BY WithLemma
      <4>4. t = StopThen(w, 0)
        BY <3>2, <4>2, <4>3
      <4>5. ~w.n.stray
        BY <4>2, <4>3 DEF Core
      <4>6. w.n.starting /\ Timely(w.n)
        BY <4>2, <4>3
      <4> HIDE DEF t
      <4>7. /\ t \in Work /\ Core(t) /\ t.p = 0 /\ t.n.switching
            /\ t.n.starting = w.n.starting
        BY <4>4, <4>5, <4>6, Zeros, StopThenLemma
      <4> QED
        BY <4>6, <4>7
    <3> QED
      BY <3>1, <3>2
  <2> HIDE DEF t
  <2>3. ASSUME NEW q \in stops
        PROVE  /\ q.s \in Work /\ Core(q.s) /\ q.s.p = 0
               /\ ~q.done => Good(q)
               /\ q.done => q.s.n.starting /\ ~q.s.n.switching /\ ~Live(q.s.m)
    <3>1. CASE t.n.switching
      <4>1. Stops(q, t)
        BY <2>2, <3>1, FinishStopLemma
      <4> QED
        BY <2>2, <4>1, StopsGood DEF Stops
    <3>2. CASE ~t.n.switching
      <4>1. q = Done(t)
        BY <3>2
      <4> QED
        BY <2>2, <3>2, <4>1, ResultLemma
    <3> QED
      BY <3>1, <3>2
  <2> HIDE DEF stops
  <2>4. CASE r \in stops /\ ~r.done
    BY <2>3, <2>4
  <2>5. ASSUME NEW q \in stops, q.done,
               r \in {Goes(q.s), Goes(StopThen(q.s, 0)), Goes(Accept(q.s))}
        PROVE  Good(r)
    <3>1. /\ q.s \in Work /\ Core(q.s) /\ q.s.p = 0 /\ ~q.s.n.stray /\ Timely(q.s.n)
          /\ q.s.n.starting /\ ~q.s.n.switching /\ ~Live(q.s.m)
      BY <2>3, <2>5 DEF Core
    <3>2. Good(Goes(q.s)) /\ Good(Goes(StopThen(q.s, 0))) /\ Good(Goes(Accept(q.s)))
      BY <3>1, GoesGood, StopGood, AcceptLemma
    <3> QED
      BY <2>5, <3>2
  <2> QED
    BY <2>1, <2>4, <2>5
<1> QED
  BY <1>1, <1>2

-----------------------------------------------------------------------------
(* The children.                                                             *)
Underway(n) ==
  n.entered /\ ~n.starting /\ ~n.switching /\ ~n.perception_wait /\ ~n.input_waiting

(* A child's tick: only one that failed may leave its motion unattended.      *)
Tended(c) ==
  /\ c.status \in Statuses
  /\ c.s \in Work /\ ~c.s.n.stray /\ Underway(c.s.n)
  /\ c.s.n.fault \/ Core(c.s)

LEMMA ChildLemma ==
  ASSUME NEW s \in Work, Core(s), Underway(s.n), NEW status \in Statuses
  PROVE  Tended(Child(status, s))
  BY DEF Tended, Child, Core

LEMMA LeafFailsLemma ==
  ASSUME NEW s \in Work, Core(s), Underway(s.n)
  PROVE  Tended(LeafFails(s))
<1>1. PICK n : n = [s.n EXCEPT !.fault = TRUE, !.leaf = FALSE]
  OBVIOUS
<1>2. n \in Node
  BY <1>1, WorkLemma, FlagLemma, Zenon
<1>3. n.fault /\ n.stray = s.n.stray /\ Underway(n)
  BY <1>1, WorkLemma DEF Node, Underway
<1>4. PICK t \in Work : t = State(n, s.m, 0) /\ t.n = n
  BY <1>2, WorkLemma, QuietLemma
<1>5. LeafFails(s) = Child("FAILURE", t)
  BY <1>1, <1>4, Zenon DEF LeafFails
<1> QED
  BY <1>3, <1>4, <1>5 DEF Tended, Child, Core, Statuses

LEMMA LeafStartsLemma ==
  ASSUME NEW s \in Work, Core(s), Underway(s.n), NEW c \in LeafStarts(s)
  PROVE  Tended(c)
<1>1. CASE Live(s.m)
  BY <1>1, LeafFailsLemma DEF LeafStarts
<1>2. CASE ~Live(s.m)
  <2>1. s.n \in Node /\ s.n.sequence \in 0..MaxSequence
    BY WorkLemma DEF Node
  <2>2. s.n.sequence # MaxSequence
    BY <1>2 DEF LeafStarts
  <2>3. s.n.sequence + 1 \in 0..MaxSequence
    BY <2>1, <2>2, ConstantsAssumption
  <2>4. ASSUME NEW q \in 0..MaxSequence
        PROVE  [s.n EXCEPT !.sequence = q, !.leaf = TRUE] \in Node
    BY <2>1 DEF Node
  <2>5. PICK n \in Node : n = [s.n EXCEPT !.sequence = s.n.sequence + 1, !.leaf = TRUE]
    BY <2>3, <2>4, Zenon
  <2>6. /\ n.leaf = TRUE /\ n.stray = s.n.stray /\ Underway(n)
    BY <2>1, <2>5 DEF Node, Underway
  <2>7. PICK m \in Session : m = [NoSession EXCEPT !.phase = "sent"]
    BY WorkLemma, SessionLemma
  <2>8. PICK t \in Work : t = State(n, m, s.p) /\ t.n = n /\ t.m = m
    BY WorkLemma, StateLemma
  <2>9. Released(s.n, s.m) = s.n
    BY <1>2 DEF Released
  <2>10. c = Child("RUNNING", t)
    BY <1>2, <2>2, <2>5, <2>7, <2>8, <2>9, Zenon DEF LeafStarts
  <2>11. Core(t)
    BY <2>6, <2>8, TimelyLemma DEF Core, Underway
  <2> QED
    BY <2>6, <2>8, <2>10, <2>11, ChildLemma DEF Statuses
<1> QED
  BY <1>1, <1>2

LEMMA ContinuesLemma ==
  ASSUME NEW s \in Work, Core(s), Underway(s.n), NEW c \in Continues(s)
  PROVE  Tended(c)
  BY LeafStartsLemma, ChildLemma DEF Continues

(* The leaf gone, and its session over or cancelled.                         *)
LEMMA LeaflessLemma ==
  ASSUME NEW s \in Work, Core(s), Underway(s.n),
         NEW m \in Session, NEW p \in 0..MaxSequence, Live(m) => m.cancel,
         NEW c \in Continues(State([s.n EXCEPT !.leaf = FALSE], m, p))
  PROVE  Tended(c)
<1>1. PICK n : n = [s.n EXCEPT !.leaf = FALSE]
  OBVIOUS
<1>2. n \in Node
  BY <1>1, WorkLemma, FlagLemma, Zenon
<1>3. n.leaf = FALSE /\ n.stray = s.n.stray /\ Underway(n)
  BY <1>1, WorkLemma DEF Node, Underway
<1>4. PICK t \in Work : t = State(n, m, p) /\ t.n = n /\ t.m = m
  BY <1>2, StateLemma
<1>5. Core(t)
  BY <1>3, <1>4, TimelyLemma DEF Core, Underway
<1> QED
  BY <1>1, <1>3, <1>4, <1>5, ContinuesLemma

LEMMA LeafRunsLemma ==
  ASSUME NEW s \in Work, Core(s), Underway(s.n), NEW c \in LeafRuns(s)
  PROVE  Tended(c)
<1>1. CASE Live(s.m)
  <2>1. CASE c = Child("RUNNING", s)
    BY <2>1, ChildLemma DEF Statuses
  <2>2. CASE c = Child("RUNNING", With(s, [s.n EXCEPT !.recovery_active = FALSE]))
    <3>1. PICK n : n = [s.n EXCEPT !.recovery_active = FALSE]
      OBVIOUS
    <3>2. n \in Node
      BY <3>1, WorkLemma, FlagLemma, Zenon
    <3>3. Alike(n, s.n)
      BY <3>1, WorkLemma DEF Node, Alike
    <3>4. PICK t \in Work : t = With(s, n) /\ t.n = n /\ t.m = s.m
      BY <3>2, WithLemma
    <3>5. Underway(t.n) /\ Timely(t.n)
      BY <3>3, <3>4, TimelyLemma DEF Alike, Underway
    <3>6. Core(t)
      BY <3>3, <3>4, <3>5, AlikeLemma
    <3>7. c = Child("RUNNING", t)
      BY <2>2, <3>1, <3>4
    <3> QED
      BY <3>5, <3>6, <3>7, ChildLemma DEF Statuses
  <2>3. CASE c = LeafFails(s)
    BY <2>3, LeafFailsLemma
  <2> QED
    BY <1>1, <2>1, <2>2, <2>3, Zenon DEF LeafRuns
<1>2. CASE ~Live(s.m)
  <2>1. CASE c = Child("RUNNING", Quiet(s))
    BY <2>1, HushLemma, ChildLemma DEF Statuses
  <2>2. CASE c = LeafFails(s)
    BY <2>2, LeafFailsLemma
  <2>3. CASE c \in Continues(State([Released(s.n, s.m) EXCEPT !.leaf = FALSE], NoSession, 0))
    <3>1. Released(s.n, s.m) = s.n
      BY <1>2 DEF Released
    <3>2. NoSession \in Session /\ ~Live(NoSession)
      BY WorkLemma, SessionLemma
    <3> QED
      BY <2>3, <3>1, <3>2, Zeros, LeaflessLemma
  <2> QED
    BY <1>2, <2>1, <2>2, <2>3, Zenon DEF LeafRuns
<1> QED
  BY <1>1, <1>2

LEMMA ChildOutcomesLemma ==
  ASSUME NEW s \in Work, Core(s), Underway(s.n), NEW c \in ChildOutcomes(s)
  PROVE  Tended(c)
<1>1. CASE s.n.leaf /\ c \in LeafRuns(s)
  BY <1>1, LeafRunsLemma
<1>2. CASE s.n.leaf /\ c \in Continues(LeafHalted(s))
  <2>1. PICK m \in Session : m = Cancelled(s.m) /\ (Live(m) => m.cancel)
    BY WorkLemma, SessionLemma
  <2>2. LeafHalted(s) = State([s.n EXCEPT !.leaf = FALSE], m, 0)
    BY <2>1 DEF LeafHalted
  <2> QED
    BY <1>2, <2>1, <2>2, Zeros, LeaflessLemma
<1>3. CASE ~s.n.leaf
  BY <1>3, ContinuesLemma DEF ChildOutcomes
<1> QED
  BY <1>1, <1>2, <1>3 DEF ChildOutcomes

-----------------------------------------------------------------------------
(* The rest of the tick.                                                     *)
LEMMA AfterChildLemma ==
  ASSUME NEW c, Tended(c), NEW inputs \in Ready
  PROVE  Good(AfterChild(c, inputs))
<1> DEFINE s == IF inputs # "ok" /\ Live(c.s.m) THEN StopThen(c.s, 1) ELSE c.s
           allow == /\ inputs = "ok" /\ s.m.phase = "accepted" /\ ~s.m.cancel /\ ~s.m.timed_out
                    /\ ~s.n.switching /\ ~s.n.fault
           t == IF allow THEN State(s.n, s.m, s.n.sequence) ELSE Quiet(s)
<1>1. /\ s \in Work /\ ~s.n.stray /\ (s.n.fault \/ Core(s))
      /\ ~s.n.switching => Underway(s.n)
      /\ Timely(s.n)
  <2>0. Timely(c.s.n)
    BY TimelyLemma DEF Tended, Underway
  <2>1. CASE inputs # "ok" /\ Live(c.s.m)
    <3>1. s = StopThen(c.s, 1)
      BY <2>1
    <3>2. s \in Work /\ Core(s) /\ s.n.switching
      BY <2>0, <3>1, StopThenLemma DEF Tended
    <3> QED
      BY <3>2 DEF Core
  <2>2. CASE ~(inputs # "ok" /\ Live(c.s.m))
    BY <2>0, <2>2 DEF Tended
  <2> QED
    BY <2>1, <2>2
<1> HIDE DEF s
<1>2. /\ t \in Work /\ t.n = s.n /\ t.m = s.m
      /\ t.p # 0 => allow /\ t.p = s.n.sequence
  <2>1. s.n \in Node /\ s.m \in Session /\ s.n.sequence \in 0..MaxSequence
    BY <1>1, WorkLemma DEF Node
  <2>2. CASE allow
    <3>1. t = State(s.n, s.m, s.n.sequence)
      BY <2>2
    <3>2. t \in Work /\ t.n = s.n /\ t.m = s.m /\ t.p = s.n.sequence
      BY <2>1, <3>1, StateLemma
    <3> QED
      BY <2>2, <3>2
  <2>3. CASE ~allow
    <3>1. t = Quiet(s)
      BY <2>3
    <3> QED
      BY <1>1, <3>1, HushLemma
  <2> QED
    BY <2>2, <2>3
<1>3. ~t.n.stray /\ Timely(t.n) /\ (~t.n.fault => Core(t))
  BY <1>1, <1>2 DEF Core
<1>4. t.p # 0 => Allowed(t)
  BY <1>1, <1>2 DEF Allowed, Underway
<1> HIDE DEF t
<1>5. Good(Ends(Fail(t))) /\ Good(Ends(Halted(t))) /\ Good(Goes(StopThen(t, 0)))
  BY <1>2, <1>3, LeaveGood, StopGood
<1>6. ~t.n.fault => Good(Goes(t))
  BY <1>2, <1>3, <1>4 DEF Good, Goes
<1>7. Good(Goes(StopThen(With(t, [t.n EXCEPT !.recovery_active = TRUE, !.replan_tried = TRUE]),
                         IF t.n.replan_tried THEN 1 ELSE 0)))
  <2>1. PICK n : n = [t.n EXCEPT !.recovery_active = TRUE, !.replan_tried = TRUE]
    OBVIOUS
  <2>2. n \in Node
    BY <1>2, <2>1, WorkLemma, FlagLemma, Zenon
  <2>3. n.stray = t.n.stray /\ SameClocks(n, t.n)
    BY <1>2, <2>1, WorkLemma DEF Node, SameClocks
  <2>4. PICK w \in Work : w = With(t, n) /\ w.n = n
    BY <1>2, <2>2, WithLemma
  <2>5. PICK next \in {0, 1} : next = IF t.n.replan_tried THEN 1 ELSE 0
    OBVIOUS
  <2>6. Good(Goes(StopThen(w, next)))
    BY <1>3, <2>3, <2>4, StopGood, TimelyLemma
  <2> QED
    BY <2>1, <2>4, <2>5, <2>6, Zenon
<1>8. c.status \in Statuses
  BY DEF Tended
<1>9. AfterChild(c, inputs) =
        CASE t.n.fault -> Ends(Fail(t))
          [] ~t.n.fault /\ (t.n.switching \/ c.status = "RUNNING") -> Goes(t)
          [] ~t.n.fault /\ ~t.n.switching /\ c.status = "SUCCESS" ->
               IF t.n.active = 0 THEN Ends(Halted(t)) ELSE Goes(StopThen(t, 0))
          [] ~t.n.fault /\ ~t.n.switching /\ c.status = "FAILURE" ->
               IF t.n.active = 1 THEN Ends(Fail(t))
               ELSE Goes(StopThen(With(t, [t.n EXCEPT !.recovery_active = TRUE, !.replan_tried = TRUE]),
                                  IF t.n.replan_tried THEN 1 ELSE 0))
  BY Zenon DEF AfterChild, t, s
<1>10. CASE t.n.fault
  BY <1>5, <1>9, <1>10
<1>11. CASE ~t.n.fault /\ (t.n.switching \/ c.status = "RUNNING")
  BY <1>6, <1>9, <1>11
<1>12. CASE ~t.n.fault /\ ~t.n.switching /\ c.status = "SUCCESS"
  BY <1>5, <1>9, <1>12
<1>13. CASE ~t.n.fault /\ ~t.n.switching /\ c.status = "FAILURE"
  <2> DEFINE w == Goes(StopThen(With(t, [t.n EXCEPT !.recovery_active = TRUE, !.replan_tried = TRUE]),
                                  IF t.n.replan_tried THEN 1 ELSE 0))
  <2>1. AfterChild(c, inputs) = IF t.n.active = 1 THEN Ends(Fail(t)) ELSE w
    BY <1>9, <1>13
  <2>2. Good(w)
    BY <1>7
  <2> HIDE DEF w
  <2> QED
    BY <1>5, <2>1, <2>2
<1> QED
  BY <1>8, <1>10, <1>11, <1>12, <1>13 DEF Statuses

-----------------------------------------------------------------------------
(* The body of the tick.                                                     *)
LEMMA RecordedLemma ==
  ASSUME TypeOK, NEW s \in Work, Core(s)
  PROVE  /\ Recorded(s) \in Work /\ Core(Recorded(s))
         /\ Recorded(s).n.entered = s.n.entered /\ Recorded(s).n.starting = s.n.starting
<1>1. CASE s.n.replaced \/ observed # s.n.uuid
  <2>1. observed \in 0..MaxTask
    <3>1. task \in 0..MaxTask /\ observed \in 0..task
      BY DEF TypeOK
    <3> QED
      BY <3>1, ConstantsAssumption
  <2>2. PICK n : n = [s.n EXCEPT !.replaced = FALSE, !.uuid = observed, !.replan_tried = FALSE]
    OBVIOUS
  <2>3. n \in Node
    <3>1. PICK k \in Node : k = [s.n EXCEPT !.replaced = FALSE, !.uuid = observed]
      BY <2>1, WorkLemma, FlagLemma, UuidLemma, Zenon
    <3>2. [k EXCEPT !.replan_tried = FALSE] \in Node
      BY FlagLemma, Zenon
    <3> QED
      BY <2>2, <3>1, <3>2, Zenon
  <2>4. /\ n.stray = s.n.stray /\ n.entered = s.n.entered /\ n.starting = s.n.starting
        /\ SameClocks(n, s.n)
    BY <2>2, WorkLemma DEF Node, SameClocks
  <2>5. PICK w \in Work : w = With(s, n) /\ w.n = n
    BY <2>3, WithLemma
  <2>6. Recorded(s) = StopThen(w, 0)
    BY <1>1, <2>2, <2>5 DEF Recorded
  <2>7. ~w.n.stray /\ Timely(w.n)
    BY <2>4, <2>5, TimelyLemma DEF Core
  <2> QED
    BY <2>4, <2>5, <2>6, <2>7, StopThenLemma
<1>2. CASE ~(s.n.replaced \/ observed # s.n.uuid)
  BY <1>2 DEF Recorded
<1> QED
  BY <1>1, <1>2

(* A perception wait begins or ends.                                         *)
LEMMA WaitLemma ==
  ASSUME NEW s \in Work, Core(s), NEW b \in BOOLEAN,
         NEW t, t = StopThen(With(s, [s.n EXCEPT !.perception_wait = b]), 0)
  PROVE  /\ t \in Work /\ Core(t)
         /\ t.n.entered = s.n.entered /\ t.n.starting = s.n.starting
         /\ t.n.perception_wait = b
<1>1. PICK n : n = [s.n EXCEPT !.perception_wait = b]
  OBVIOUS
<1>2. n \in Node
  BY <1>1, WorkLemma, FlagLemma, Zenon
<1>3. /\ n.stray = s.n.stray /\ n.entered = s.n.entered /\ n.starting = s.n.starting
      /\ n.perception_wait = b /\ SameClocks(n, s.n)
  BY <1>1, WorkLemma DEF Node, SameClocks
<1>4. PICK w \in Work : w = With(s, n) /\ w.n = n
  BY <1>2, WithLemma
<1>5. ~w.n.stray /\ Timely(w.n)
  BY <1>3, <1>4, TimelyLemma DEF Core
<1>6. t = StopThen(w, 0)
  BY <1>1, <1>4, Zenon
<1>7. /\ t \in Work /\ Core(t)
      /\ t.n.entered = n.entered /\ t.n.starting = n.starting
      /\ t.n.perception_wait = n.perception_wait
  BY <1>4, <1>5, <1>6, Zeros, StopThenLemma
<1> QED
  BY <1>3, <1>7

LEMMA BlindLemma ==
  ASSUME NEW s \in Work, Core(s), NEW r \in BlindOutcomes(s)
  PROVE  Good(r)
<1>1. PICK t : t = IF s.n.perception_wait THEN s
                   ELSE StopThen(With(s, [s.n EXCEPT !.perception_wait = TRUE]), 0)
  OBVIOUS
<1>2. t \in Work /\ Core(t)
  BY <1>1, WaitLemma
<1>3. r \in IF ~t.n.switching THEN {Goes(Quiet(t))} ELSE FinishStop(t)
  BY <1>1, Zenon DEF BlindOutcomes
<1>4. CASE ~t.n.switching
  <2>1. r = Goes(Quiet(t))
    BY <1>3, <1>4
  <2> QED
    BY <1>2, <2>1, HushLemma, GoesGood
<1>5. CASE t.n.switching
  <2>1. r \in FinishStop(t)
    BY <1>3, <1>5
  <2> QED
    BY <1>2, <1>5, <2>1, FinishStopLemma, StopsGood
<1> QED
  BY <1>4, <1>5

LEMMA ResumedLemma ==
  ASSUME NEW s \in Work, Core(s)
  PROVE  /\ Resumed(s) \in Work /\ Core(Resumed(s)) /\ ~Resumed(s).n.perception_wait
         /\ Resumed(s).n.entered = s.n.entered /\ Resumed(s).n.starting = s.n.starting
<1>1. CASE s.n.perception_wait
  BY <1>1, WaitLemma DEF Resumed
<1>2. CASE ~s.n.perception_wait
  BY <1>2 DEF Resumed
<1> QED
  BY <1>1, <1>2

(* An input wait: the robot stops, whichever way it began.                    *)
LEMMA InputWaitLemma ==
  ASSUME NEW s \in Work, Core(s), ~s.n.switching
  PROVE  Good(InputWait(s)) /\ Good(LocalizationWait(s))
<1>1. s.n \in Node
  BY WorkLemma
<1>2. ASSUME NEW n \in Node, n.stray = s.n.stray, n.switching = s.n.switching,
             NEW next \in {0, 1}
      PROVE  Good(Goes(StopThen(With(s, n), next)))
  <2>1. PICK w \in Work : w = With(s, n) /\ w.n = n
    BY WithLemma
  <2> QED
    BY <1>2, <2>1, StopGood, TimelyLemma DEF Core
<1>3. Good(InputWait(s))
  <2>1. PICK n : n = IF s.n.input_waiting THEN s.n
                     ELSE [s.n EXCEPT !.input_waiting = TRUE, !.input_age = 0]
    OBVIOUS
  <2>2. \A a \in 0..InputTimeout : [s.n EXCEPT !.input_waiting = TRUE, !.input_age = a] \in Node
    BY <1>1 DEF Node
  <2>3. n \in Node
    BY <1>1, <2>1, <2>2, Zeros, Zenon
  <2>4. n.stray = s.n.stray /\ n.switching = s.n.switching
    BY <1>1, <2>1 DEF Node
  <2>5. PICK k : k = [n EXCEPT !.recovery_active = TRUE]
    OBVIOUS
  <2>6. k \in Node
    BY <2>3, <2>5 DEF Node
  <2>7. k.stray = s.n.stray /\ k.switching = s.n.switching
    BY <2>3, <2>4, <2>5 DEF Node
  <2>8. InputWait(s) = Goes(StopThen(With(s, k), 0))
    BY <2>1, <2>5, Zenon DEF InputWait
  <2> QED
    BY <1>2, <2>6, <2>7, <2>8, Zeros
<1>4. Good(LocalizationWait(s))
  <2>1. PICK n : n = IF s.n.input_waiting THEN s.n ELSE [s.n EXCEPT !.recovery_active = TRUE]
    OBVIOUS
  <2>2. n \in Node
    BY <1>1, <2>1 DEF Node
  <2>3. n.stray = s.n.stray /\ n.switching = s.n.switching
    BY <1>1, <2>1 DEF Node
  <2>4. PICK k : k = [n EXCEPT !.input_waiting = FALSE]
    OBVIOUS
  <2>5. k \in Node
    BY <2>2, <2>4 DEF Node
  <2>6. k.stray = s.n.stray /\ k.switching = s.n.switching
    BY <2>2, <2>3, <2>4 DEF Node
  <2>7. LocalizationWait(s) = Goes(StopThen(With(s, k), 1))
    BY <2>1, <2>4, Zenon DEF LocalizationWait
  <2> QED
    BY <1>2, <2>5, <2>6, <2>7, Zeros
<1> QED
  BY <1>3, <1>4

LEMMA TickedLemma ==
  ASSUME NEW s \in Work, Core(s), Underway(s.n), NEW inputs \in Ready,
         NEW r \in Ticked(s, inputs)
  PROVE  Good(r)
<1>1. PICK c \in ChildOutcomes(s) : r = AfterChild(c, inputs)
  BY DEF Ticked
<1> QED
  BY <1>1, ChildOutcomesLemma, AfterChildLemma

LEMMA ProceedsLemma ==
  ASSUME NEW s \in Work, Core(s), NEW inputs \in Ready, NEW r \in Proceeds(s, inputs),
         s.n.entered, ~s.n.starting, ~s.n.switching, ~s.n.perception_wait
  PROVE  Good(r)
<1>1. CASE r \in {InputWait(s), LocalizationWait(s)}
  BY <1>1, InputWaitLemma
<1>2. CASE r = Goes(Quiet(s))
  BY <1>2, HushLemma, GoesGood
<1>3. CASE r \in Ticked(Quiet(With(s, [s.n EXCEPT !.input_waiting = FALSE])), inputs)
  <2>1. PICK n : n = [s.n EXCEPT !.input_waiting = FALSE]
    OBVIOUS
  <2>2. n \in Node
    BY <2>1, WorkLemma, FlagLemma, Zenon
  <2>3. /\ Underway(n) /\ n.stray = s.n.stray /\ n.leaf = s.n.leaf
        /\ n.starting_uuid = s.n.starting_uuid
    BY <2>1, WorkLemma DEF Node, Underway
  <2>4. PICK w \in Work : w = With(s, n) /\ w.n = n /\ w.m = s.m
    BY <2>2, WithLemma
  <2>5. Core(w)
    BY <2>3, <2>4, TimelyLemma DEF Core, Underway
  <2>6. Quiet(w) \in Work /\ Core(Quiet(w)) /\ Underway(Quiet(w).n)
    BY <2>3, <2>4, <2>5, HushLemma
  <2>7. r \in Ticked(Quiet(w), inputs)
    BY <1>3, <2>1, <2>4
  <2> QED
    BY <2>6, <2>7, TickedLemma
<1>4. CASE ~s.n.input_waiting /\ r \in Ticked(s, inputs)
  BY <1>4, TickedLemma DEF Underway
<1> QED
  BY <1>1, <1>2, <1>3, <1>4, Zenon DEF Proceeds

LEMMA SightedLemma ==
  ASSUME NEW s \in Work, Core(s), s.n.entered, ~s.n.starting, ~s.n.perception_wait,
         NEW r \in SightedOutcomes(s)
  PROVE  Good(r)
<1> DEFINE expired == s.n.input_waiting /\ s.n.input_age >= InputTimeout
           t == IF s.n.input_waiting THEN With(s, [s.n EXCEPT !.input_age = @ + 1]) ELSE s
           stops == IF t.n.switching THEN FinishStop(t) ELSE {Done(t)}
<1>1. \/ r = Ends(Fail(s))
      \/ ~expired /\ r \in stops /\ ~r.done
      \/ ~expired /\ \E q \in stops, inputs \in Ready : q.done /\ r \in Proceeds(q.s, inputs)
  <2>1. SightedOutcomes(s) =
          (IF s.n.recovery_active \/ expired THEN {Ends(Fail(s))} ELSE {}) \cup
          IF expired THEN {}
          ELSE {q \in stops : ~q.done} \cup
               UNION { Proceeds(q.s, inputs) : q \in {q \in stops : q.done}, inputs \in Ready }
    BY DEF SightedOutcomes
  <2> HIDE DEF stops, expired
  <2>2. CASE r \in {q \in stops : ~q.done} /\ ~expired
    BY <2>2
  <2>3. CASE ~expired /\ r \in UNION { Proceeds(q.s, inputs) : q \in {q \in stops : q.done}, inputs \in Ready }
    BY <2>3
  <2> QED
    BY <2>1, <2>2, <2>3
<1>2. CASE r = Ends(Fail(s))
  BY <1>2, LeaveGood DEF Core
<1>3. ASSUME ~expired
      PROVE  t \in Work /\ Core(t) /\ t.n.entered /\ ~t.n.starting /\ ~t.n.perception_wait
  <2>1. CASE s.n.input_waiting
    <3>1. s.n \in Node /\ s.n.input_age \in 0..InputTimeout
      BY WorkLemma DEF Node
    <3>2. s.n.input_age + 1 \in 0..InputTimeout
      BY <1>3, <2>1, <3>1, ConstantsAssumption
    <3>3. PICK n : n = [s.n EXCEPT !.input_age = s.n.input_age + 1]
      OBVIOUS
    <3>4. n \in Node
      BY <3>1, <3>2, <3>3 DEF Node
    <3>5. Alike(n, s.n)
      BY <3>1, <3>3 DEF Node, Alike
    <3>6. PICK w \in Work : w = With(s, n) /\ w.n = n /\ w.m = s.m
      BY <3>4, WithLemma
    <3>7. t = w
      BY <2>1, <3>3, <3>6
    <3> HIDE DEF t
    <3>8. Core(w)
      <4>1. Timely(w.n)
        BY <2>1, <3>5, <3>6, TimelyLemma DEF Alike
      <4> QED
        BY <3>5, <3>6, <4>1, AlikeLemma
    <3> QED
      BY <3>5, <3>6, <3>7, <3>8 DEF Alike
  <2>2. CASE ~s.n.input_waiting
    BY <2>2
  <2> QED
    BY <2>1, <2>2
<1> HIDE DEF t
<1>4. ASSUME ~expired, NEW q \in stops
      PROVE  /\ ~q.done => Good(q)
             /\ q.done => /\ q.s \in Work /\ Core(q.s) /\ q.s.n.entered /\ ~q.s.n.starting
                          /\ ~q.s.n.switching /\ ~q.s.n.perception_wait
  <2>1. CASE t.n.switching
    <3>1. Stops(q, t)
      BY <1>3, <1>4, <2>1, FinishStopLemma
    <3> QED
      BY <1>3, <1>4, <3>1, StopsGood DEF Stops
  <2>2. CASE ~t.n.switching
    <3>1. q = Done(t)
      BY <1>4, <2>2
    <3> QED
      BY <1>3, <1>4, <2>2, <3>1, ResultLemma
  <2> QED
    BY <2>1, <2>2
<1> HIDE DEF stops, expired
<1>5. CASE ~expired /\ r \in stops /\ ~r.done
  BY <1>4, <1>5
<1>6. ASSUME ~expired, NEW q \in stops, NEW inputs \in Ready,
             q.done, r \in Proceeds(q.s, inputs)
      PROVE  Good(r)
  BY <1>4, <1>6, ProceedsLemma
<1> QED
  BY <1>1, <1>2, <1>5, <1>6

-----------------------------------------------------------------------------
(* The inductive invariant: outside a tick, a task that has been entered is    *)
(* being served, and a permit that is out is earned.                         *)
Inv ==
  /\ TypeOK
  /\ Core(Here)
  /\ node.entered => serving
  /\ permit # 0 => Allowed(Here) /\ serving

LEMMA HereLemma ==
  /\ Here.n = node /\ Here.m = motion /\ Here.p = permit
  /\ TypeOK => Here \in Work
  BY DEF Here, State, Work, TypeOK

LEMMA TickGood ==
  ASSUME Inv, Tick
  PROVE  \E r : Good(r) /\ Returns(r)
<1>1. Here \in Work /\ Core(Here) /\ TypeOK
  BY HereLemma DEF Inv
<1>2. CASE StartTick
  <2>1. PICK s \in Polled(Here) :
          /\ Entered(s).n.starting
          /\ \E r \in StartOutcomes(Entered(s)) : Returns(r)
    BY <1>2 DEF StartTick
  <2>2. Entered(s) \in Work /\ Core(Entered(s))
    BY <1>1, PolledLemma, EnteredLemma
  <2> QED
    BY <1>1, <2>1, <2>2, StartLemma
<1>3. CASE BlindTick
  <2>1. PICK s \in Polled(Here) : \E r \in BlindOutcomes(Recorded(s)) : Returns(r)
    BY <1>3 DEF BlindTick
  <2>2. Recorded(s) \in Work /\ Core(Recorded(s))
    BY <1>1, PolledLemma, RecordedLemma
  <2> QED
    BY <2>1, <2>2, BlindLemma
<1>4. CASE SightedTick
  <2>1. PICK s \in Polled(Here) :
          /\ s.n.entered /\ ~s.n.starting
          /\ \E r \in SightedOutcomes(Resumed(Recorded(s))) : Returns(r)
    BY <1>4 DEF SightedTick
  <2>2. PICK t : t = Resumed(Recorded(s))
    OBVIOUS
  <2>3. /\ Recorded(s) \in Work /\ Core(Recorded(s))
        /\ Recorded(s).n.entered /\ ~Recorded(s).n.starting
    BY <1>1, <2>1, PolledLemma, RecordedLemma
  <2>4. t \in Work /\ Core(t) /\ ~t.n.perception_wait /\ t.n.entered /\ ~t.n.starting
    BY <2>2, <2>3, ResumedLemma
  <2> QED
    BY <2>1, <2>2, <2>4, SightedLemma
<1> QED
  BY <1>2, <1>3, <1>4 DEF Tick

LEMMA Initially == Init => Inv
<1> SUFFICES ASSUME Init PROVE Inv
  OBVIOUS
<1>1. PICK a \in 0..MaxTask, c \in 0..CancelTimeout, d \in 0..StopLimit + 1,
           e \in 0..SettleTimeout, f \in 0..InputTimeout, q \in 0..MaxSequence, g \in {0, 1} :
        a = 0 /\ c = 0 /\ d = 0 /\ e = 0 /\ f = 0 /\ q = 0 /\ g = 0
  BY Zeros, Zenon
<1>2. node \in Node
  <2>1. node =
          [entered |-> FALSE, starting |-> FALSE, starting_uuid |-> a, uuid |-> a,
           switching |-> FALSE, active |-> g, next |-> g,
           cancel_age |-> c, stop_age |-> d, settling |-> FALSE, settle_age |-> e,
           input_waiting |-> FALSE, input_age |-> f, perception_wait |-> FALSE,
           replan_tried |-> FALSE, recovery_active |-> FALSE, fault |-> FALSE,
           replaced |-> FALSE, leaf |-> FALSE, sequence |-> q, stray |-> FALSE]
    BY <1>1, Zenon DEF Init
  <2> HIDE <1>1
  <2> QED
    BY <2>1 DEF Node
<1>3. /\ ~node.stray /\ ~node.leaf /\ ~node.starting /\ ~node.entered /\ ~node.switching
  BY DEF Init
<1>4. motion \in Session /\ ~Live(motion)
  BY DEF Init, NoSession, Session, Live
<1>5. permit = 0 /\ serving = FALSE /\ task = 0 /\ observed = 0
  BY DEF Init
<1>6. TypeOK
  <2>1. permit \in 0..MaxSequence /\ task \in 0..MaxTask
    BY <1>5, Zeros
  <2>2. observed \in 0..task
    BY <1>5
  <2> QED
    BY <1>2, <1>4, <1>5, <2>1, <2>2 DEF TypeOK
<1>7. Core(Here)
  BY <1>3, <1>4, HereLemma, TimelyLemma DEF Core
<1> QED
  BY <1>3, <1>5, <1>6, <1>7 DEF Inv

LEMMA Inductive == Inv /\ [Next]_vars => Inv'
<1> SUFFICES ASSUME Inv, [Next]_vars PROVE Inv'
  OBVIOUS
<1>1. TypeOK /\ Core(Here) /\ Here \in Work
  BY HereLemma DEF Inv
<1>2. CASE Tick
  <2>1. PICK r : Good(r) /\ Returns(r)
    BY <1>2, TickGood
  <2>2. /\ node' = r.s.n /\ motion' = r.s.m /\ permit' = r.s.p
        /\ serving' = ~r.ends /\ task' = task /\ observed' = observed
    BY <2>1 DEF Returns, Result
  <2>3. /\ r.s.n \in Node /\ r.s.m \in Session /\ r.s.p \in 0..MaxSequence
        /\ r.ends \in BOOLEAN /\ Core(r.s) /\ (r.ends => ~r.s.n.entered)
        /\ r.s.p # 0 => Allowed(r.s) /\ ~r.ends
    BY <2>1, WorkLemma DEF Good
  <2>4. TypeOK'
    BY <1>1, <2>2, <2>3 DEF TypeOK
  <2>5. Here'.n = r.s.n /\ Here'.m = r.s.m /\ Here'.p = r.s.p
    BY <2>2 DEF Here, State
  <2>6. Core(Here)' /\ (r.s.p # 0 => Allowed(Here)')
    BY <2>3, <2>5 DEF Core, Allowed
  <2> QED
    BY <2>2, <2>3, <2>4, <2>6 DEF Inv
<1>3. CASE NewGoal
  <2>1. PICK differs \in BOOLEAN : node' = [node EXCEPT !.replaced = @ \/ (serving /\ differs)]
    BY <1>3 DEF NewGoal
  <2>2. node \in Node /\ serving \in BOOLEAN
    BY <1>1 DEF TypeOK
  <2>3. node' \in Node
    BY <2>1, <2>2 DEF Node
  <2>4. Alike(node', node) /\ node'.sequence = node.sequence /\ node'.fault = node.fault
    BY <2>1, <2>2 DEF Node, Alike
  <2>5. SameClocks(node', node)
    BY <2>1, <2>2 DEF Node, SameClocks
  <2>6. Timely(node')
    BY <1>1, <2>5, TimelyLemma, HereLemma DEF Core
  <2>7. /\ task < MaxTask /\ task' = task + 1 /\ serving' = TRUE
        /\ motion' = motion /\ permit' = permit /\ observed' = observed
    BY <1>3 DEF NewGoal
  <2>8. task' \in 0..MaxTask /\ observed' \in 0..task'
    <3>1. task \in 0..MaxTask /\ observed \in 0..task
      BY <1>1 DEF TypeOK
    <3> QED
      BY <2>7, <3>1, ConstantsAssumption
  <2>9. TypeOK'
    BY <1>1, <2>3, <2>7, <2>8 DEF TypeOK
  <2>10. Here'.n = node' /\ Here'.m = motion /\ Here'.p = permit
    BY <2>7 DEF Here, State
  <2>11. Core(Here)'
    BY <1>1, <2>4, <2>10, <2>6, HereLemma DEF Core, Alike
  <2>12. permit # 0 => Allowed(Here)'
    BY <2>4, <2>10, HereLemma DEF Inv, Allowed, Alike
  <2> QED
    BY <2>7, <2>9, <2>11, <2>12 DEF Inv
<1>4. CASE CancelGoal
  <2>1. PICK t \in Work : t = Halted(Here) /\ Core(t) /\ t.p = 0 /\ ~t.n.entered
    BY <1>1, LeaveLemma DEF Core
  <2>2. /\ node' = t.n /\ motion' = t.m /\ permit' = 0
        /\ serving' = FALSE /\ task' = task /\ observed' = observed
    BY <1>4, <2>1 DEF CancelGoal, Result
  <2>3. TypeOK'
    BY <1>1, <2>1, <2>2, WorkLemma, Zeros DEF TypeOK
  <2>4. Here'.n = t.n /\ Here'.m = t.m
    BY <2>2 DEF Here, State
  <2>5. Core(Here)'
    BY <2>1, <2>4 DEF Core
  <2> QED
    BY <2>1, <2>2, <2>3, <2>5 DEF Inv
<1>5. CASE ObserveUuid
  <2>1. /\ observed' \in (observed + 1) .. task
        /\ node' = node /\ motion' = motion /\ permit' = permit
        /\ serving' = serving /\ task' = task
    BY <1>5 DEF ObserveUuid
  <2>2. observed' \in 0..task
    <3>1. task \in 0..MaxTask /\ observed \in 0..task
      BY <1>1 DEF TypeOK
    <3> QED
      BY <2>1, <3>1, ConstantsAssumption
  <2>3. TypeOK'
    BY <1>1, <2>1, <2>2 DEF TypeOK
  <2>4. Here' = Here
    BY <2>1 DEF Here, State
  <2> QED
    BY <2>1, <2>3, <2>4 DEF Inv, Core, Allowed
<1>6. CASE SessionAccepted \/ SessionOver
  <2>1. /\ motion \in Session
        /\ \/ motion.phase = "sent" /\ motion' = [motion EXCEPT !.phase = "accepted"]
           \/ motion' = [motion EXCEPT !.phase = "over"]
        /\ Live(motion) /\ node' = node /\ permit' = permit
        /\ serving' = serving /\ task' = task /\ observed' = observed
    BY <1>1, <1>6 DEF SessionAccepted, SessionOver, env, TypeOK, Live
  <2>2. /\ motion' \in Session /\ motion'.cancel = motion.cancel
        /\ motion'.phase \in {"accepted", "over"}
    BY <2>1 DEF Session
  <2>3. TypeOK'
    BY <1>1, <2>1, <2>2 DEF TypeOK
  <2>4. Here'.n = node /\ Here'.m = motion' /\ Here'.p = permit
    BY <2>1 DEF Here, State
  <2>5. Core(Here)'
    <3>1. ~node.starting \/ node.starting_uuid = 0 \/ node.switching
      BY <1>1, <2>1, HereLemma DEF Core
    <3> QED
      BY <1>1, <2>1, <2>2, <2>4, <3>1, HereLemma DEF Core
  <2>6. permit # 0 => Allowed(Here)'
    BY <2>2, <2>4, HereLemma DEF Inv, Allowed
  <2> QED
    BY <2>1, <2>3, <2>5, <2>6 DEF Inv
<1>7. CASE UNCHANGED vars
  <2>1. /\ node' = node /\ motion' = motion /\ permit' = permit
        /\ serving' = serving /\ task' = task /\ observed' = observed
    BY <1>7 DEF vars, env
  <2>2. Here' = Here
    BY <2>1 DEF Here, State
  <2> QED
    BY <2>1, <2>2 DEF Inv, TypeOK, Core, Allowed
<1> QED
  BY <1>2, <1>3, <1>4, <1>5, <1>6, <1>7 DEF Next

(* A tick leaves behind what it found: the invariant holds throughout.         *)
THEOREM Invariant == Spec => []Inv
  BY Initially, Inductive, PTL DEF Spec

(* The supervisor's and the runtime's fields stay within their types and the    *)
(* clocks of a stop and of an input wait within their limits.                *)
THEOREM TypeCorrect == Spec => []TypeOK
<1>1. Inv => TypeOK
  BY DEF Inv
<1> QED
  BY <1>1, Invariant, PTL

(* RecoveryRuntime lets go of no session before its action is over.           *)
THEOREM NoStray == Spec => []NoStrayMotion
<1>1. Inv => NoStrayMotion
  BY HereLemma DEF Inv, Core, NoStrayMotion
<1> QED
  BY <1>1, Invariant, PTL

(* A live action that nobody cancels has its leaf, in a tree being ticked.     *)
THEOREM Attended == Spec => []MotionIsAttended
<1>1. Inv => MotionIsAttended
  BY HereLemma DEF Inv, Core, MotionIsAttended
<1> QED
  BY <1>1, Invariant, PTL

(* A permit is out only for the newest action, accepted and uncancelled, of a   *)
(* task that is under way.                                                   *)
THEOREM PermitEarned == Spec => []PermitIsEarned
<1>1. Inv => PermitIsEarned
  BY HereLemma DEF Inv, Allowed, PermitIsEarned
<1> QED
  BY <1>1, Invariant, PTL

(* Outside an input wait, a stop is over or has failed within the cancel and    *)
(* settle limits.                                                            *)
THEOREM StopIsOver == Spec => []StopEnds
<1>1. Inv => StopEnds
  <2> SUFFICES ASSUME Inv, node.switching, ~node.input_waiting
               PROVE  node.stop_age <= StopLimit
    BY DEF StopEnds
  <2>1. /\ node.stop_age \in 0..StopLimit + 1 /\ node.cancel_age \in 0..CancelTimeout
        /\ node.settle_age \in 0..SettleTimeout /\ node.settling \in BOOLEAN
    BY DEF Inv, TypeOK, Node
  <2>2. node.stop_age <= Counted(node)
    BY HereLemma DEF Inv, Core, Timely
  <2> QED
    BY <2>1, <2>2, ConstantsAssumption DEF Counted, StopLimit
<1> QED
  BY <1>1, Invariant, PTL
=============================================================================
