---------------------------- MODULE BoundedAction ----------------------------
(***************************************************************************)
(* BoundedAction<ActionT>: the client session through which the recovery    *)
(* behaviour tree drives one ROS 2 action (follow_path, spin, backup, the   *)
(* planners).  A session sends a goal, may replace it by newer revisions,   *)
(* and gives up within bounded time on a server that does not answer.       *)
(*                                                                          *)
(* Two threads meet here: the tree calls Send, Poll and Cancel; the         *)
(* executor delivers the goal responses, the results and the cancel         *)
(* responses.  Each holds the session's mutex; Poll releases it before it   *)
(* calls cancel(), so a callback can run in between (`polling`).            *)
(*                                                                          *)
(* The action server is outside the source: it answers, refuses, ends or    *)
(* forgets every goal as it likes, in any order, and a message may never    *)
(* arrive.                                                                  *)
(***************************************************************************)
EXTENDS Integers

CONSTANTS
  MaxRevision,      \* goals one session may send (bound)
  ResponseTimeout,  \* recovery.response_timeout, in ticks
  CancelTimeout,    \* recovery.cancel_timeout, in ticks
  ResultTimeout,    \* limit on the whole action; 0 for follow_path, which has none
  MaxTime           \* bound on the clock

ASSUME ConstantsAssumption ==
  /\ MaxRevision \in Nat \ {0}
  /\ ResponseTimeout \in Nat /\ CancelTimeout \in Nat /\ ResultTimeout \in Nat
  /\ MaxTime \in Nat

Revisions == 1..MaxRevision
NoTime == -1

VARIABLES
  now,
  revision,         \* the goal the session stands for, 0 before the first send
  records,          \* what the client knows of each goal it has sent
  accepted, terminal, success, rejected,
  cancel_requested, cancel_ack, timed_out,
  unconfirmed,      \* status.reason is CANCEL_UNCONFIRMED
  sent, cancel_at,
  polling,          \* poll() has decided to cancel and released the mutex
  polled,           \* the tree has polled the session in this tick
  updatable,        \* the leaf's copy of the status lets it call update()
  dropped,          \* the runtime has let go of the session
  goal,             \* external: each goal at the action server
  cancel            \* external: the server's answer to each cancel request

status == <<accepted, terminal, success, rejected, cancel_requested, cancel_ack,
            timed_out, unconfirmed>>
clocks == <<now, sent, cancel_at>>
server == <<goal, cancel>>
thread == <<polling, polled, updatable, dropped>>
vars == <<revision, records, status, clocks, server, thread>>

Record == [present: BOOLEAN, handle: BOOLEAN, terminal: BOOLEAN,
           cancel_sent: BOOLEAN, cancel_ack: BOOLEAN, response_done: BOOLEAN,
           cancel_response_done: BOOLEAN, superseded_at: Nat \cup {NoTime}]

(* ABORTED and CANCELED differ in status.reason only. *)
Outcomes == {"succeeded", "failed"}

Absent == [present |-> FALSE, handle |-> FALSE, terminal |-> FALSE,
           cancel_sent |-> FALSE, cancel_ack |-> FALSE, response_done |-> FALSE,
           cancel_response_done |-> FALSE, superseded_at |-> NoTime]

(* A cancel answer needs a request, a request a handle, a handle a response;  *)
(* a kept record older than the session's revision knows when it was replaced. *)
Consistent(r) ==
  LET rec == records[r] IN
  /\ rec.cancel_ack => rec.cancel_response_done
  /\ rec.cancel_response_done => rec.cancel_sent
  /\ rec.cancel_sent => rec.handle
  /\ rec.handle => rec.response_done
  /\ rec.present => r <= revision
  /\ rec.present /\ r < revision => rec.superseded_at # NoTime
  /\ r >= revision => rec.superseded_at = NoTime

TypeOK ==
  /\ now \in Nat /\ sent \in Nat /\ cancel_at \in Nat
  /\ revision \in 0..MaxRevision
  /\ records \in [Revisions -> Record]
  /\ \A r \in Revisions : Consistent(r)
  /\ accepted \in BOOLEAN /\ terminal \in BOOLEAN /\ success \in BOOLEAN
  /\ rejected \in BOOLEAN /\ cancel_requested \in BOOLEAN
  /\ cancel_ack \in BOOLEAN /\ timed_out \in BOOLEAN /\ unconfirmed \in BOOLEAN
  /\ polling \in BOOLEAN /\ polled \in BOOLEAN /\ updatable \in BOOLEAN /\ dropped \in BOOLEAN
  /\ goal \in [Revisions -> {"none", "submitted", "executing", "refused"} \cup Outcomes]
  /\ cancel \in [Revisions -> {"none", "accepted", "refused"}]

Present(recs) == {r \in Revisions : recs[r].present}

-----------------------------------------------------------------------------
(* refresh_terminal(): the session is over when every goal it still keeps is. *)
RefreshTerminal(recs) ==
  /\ terminal' = (Present(recs) # {} /\ \A r \in Present(recs) : recs[r].terminal)
  /\ cancel_ack' = \A r \in Present(recs) : recs[r].terminal \/ recs[r].cancel_ack

(* A cancel_record() that does not look for the handle. *)
CancelRecordUnchecked(rec) == [rec EXCEPT !.cancel_sent = TRUE]

(* cancel_record(): asks the server to cancel a goal whose handle has come    *)
(* in, once.                                                                 *)
CancelRecord(rec) == [rec EXCEPT !.cancel_sent = @ \/ rec.handle]

(* The records send() forgets: settled goals whose callbacks have all run.    *)
Settled(rec) ==
  rec.terminal /\ rec.response_done /\ (rec.cancel_sent => rec.cancel_response_done)

Superseded(rec, r) ==
  IF r = revision /\ rec.present /\ rec.superseded_at = NoTime
  THEN [rec EXCEPT !.superseded_at = now] ELSE rec

AfterSend(next) ==
  [r \in Revisions |->
     IF r = next THEN [Absent EXCEPT !.present = TRUE]
     ELSE Superseded([records[r] EXCEPT !.present = @ /\ ~Settled(records[r])], r)]

(* send(): the first goal, or from update() a replacement, decided on a copy  *)
(* of the status that a callback may have overtaken.  async_send_goal() may   *)
(* throw, and the server may have the goal nevertheless.                     *)
Send(thrown, reached) ==
  /\ ~polling /\ ~dropped /\ revision < MaxRevision
  /\ revision > 0 => updatable
  /\ ~cancel_requested
  /\ records' = AfterSend(revision + 1)
  /\ revision' = revision + 1
  /\ sent' = now
  /\ accepted' = (accepted /\ ~rejected /\ ~timed_out)
  /\ terminal' = FALSE /\ success' = FALSE /\ rejected' = FALSE
  /\ timed_out' = (timed_out \/ thrown)
  /\ unconfirmed' = (unconfirmed /\ ~thrown)
  /\ updatable' = FALSE
  /\ goal' = IF reached THEN [goal EXCEPT ![revision + 1] = "submitted"] ELSE goal
  /\ UNCHANGED <<now, cancel_requested, cancel_ack, cancel_at, cancel, polling, polled,
                 dropped>>

(* A cancel() that reaches the current goal only. *)
CancelCurrentOnly ==
  [r \in Revisions |-> IF r = revision THEN CancelRecord(records[r]) ELSE records[r]]

CancelAll ==
  [r \in Revisions |-> IF records[r].present THEN CancelRecord(records[r]) ELSE records[r]]

DoCancel ==
  IF terminal \/ revision = 0
  THEN UNCHANGED <<cancel_requested, cancel_at, records>>
  ELSE /\ cancel_requested' = TRUE
       /\ cancel_at' = IF cancel_requested THEN cancel_at ELSE now
       /\ records' = CancelAll

(* cancel(), from halt(), the supervisor's stop_then() or its fail().         *)
Cancel ==
  /\ ~polling /\ ~dropped
  /\ DoCancel
  /\ updatable' = FALSE
  /\ UNCHANGED <<revision, accepted, terminal, success, rejected, cancel_ack,
                 timed_out, unconfirmed, now, sent, server, polling, polled, dropped>>

(* poll(), under the mutex.  A replaced goal the server has not settled a     *)
(* response and a cancel limit after it was replaced counts as ended.         *)
Orphaned(r) ==
  LET rec == records[r]
      origin == IF rec.superseded_at # NoTime THEN rec.superseded_at ELSE sent
  IN  /\ rec.present /\ r < revision /\ ~rec.terminal
      /\ now - origin > ResponseTimeout + CancelTimeout

AfterPoll ==
  [r \in Revisions |->
     IF Orphaned(r) THEN [CancelRecord(records[r]) EXCEPT !.terminal = TRUE]
     ELSE records[r]]

(* A poll() that never looks at the result limit. *)
ExpiredOnResponseOnly ==
  (~records[revision].response_done /\ now - sent > ResponseTimeout) \/ timed_out

Expired ==
  \/ ~records[revision].response_done /\ now - sent > ResponseTimeout
  \/ ResultTimeout > 0 /\ now - sent > ResultTimeout
  \/ timed_out

CancelLapsed == cancel_requested /\ now - cancel_at > CancelTimeout

PollIdle ==
  /\ terminal \/ revision = 0
  /\ UNCHANGED <<records, status, polling>>

PollLive ==
  /\ ~terminal /\ revision > 0
  /\ records' = AfterPoll
  /\ RefreshTerminal(records')
  /\ LET over == terminal'
         expire == ~over /\ ~cancel_requested /\ Expired
         lapse == ~over /\ CancelLapsed
     IN  /\ timed_out' = (timed_out \/ expire \/ lapse)
         /\ unconfirmed' = (lapse \/ (unconfirmed /\ ~expire))
         /\ accepted' = (accepted /\ ~(expire /\ ~records[revision].response_done))
         /\ polling' = expire
  /\ UNCHANGED <<success, rejected, cancel_requested>>

Poll ==
  /\ ~polling /\ ~dropped
  /\ PollIdle \/ PollLive
  /\ polled' = TRUE
  /\ updatable' = (accepted' /\ ~terminal' /\ ~cancel_requested /\ ~polling')
  /\ UNCHANGED <<revision, clocks, server, dropped>>

(* The cancel() call that ends a poll(). *)
PollCancels ==
  /\ polling
  /\ DoCancel
  /\ polling' = FALSE /\ updatable' = FALSE
  /\ UNCHANGED <<revision, accepted, terminal, success, rejected, cancel_ack,
                 timed_out, unconfirmed, now, sent, server, polled, dropped>>

(* goal_response_callback: a late or unwanted goal is cancelled on arrival.   *)
ResponseCancels(r) == r # revision \/ cancel_requested

GoalResponse(r) ==
  LET rec == [records[r] EXCEPT !.response_done = TRUE]
      refused == goal[r] = "refused"
      current == r = revision
  IN
  /\ ~dropped /\ rec.present /\ ~records[r].response_done
  /\ goal[r] \notin {"none", "submitted"}
  /\ records' = [records EXCEPT ![r] =
       IF refused THEN [rec EXCEPT !.terminal = TRUE]
       ELSE LET known == [rec EXCEPT !.handle = TRUE]
            IN  IF ResponseCancels(r) THEN CancelRecord(known) ELSE known]
  /\ RefreshTerminal(records')
  /\ accepted' = IF current THEN ~refused ELSE accepted
  /\ rejected' = (rejected \/ (current /\ refused))
  /\ unconfirmed' = (unconfirmed /\ ~(current /\ refused))
  /\ UNCHANGED <<revision, success, cancel_requested, timed_out, clocks, server, thread>>

(* A result_callback that takes any revision's result for the session's. *)
ResultOfAnyRevision(r) ==
  /\ ~dropped /\ records[r].present /\ records[r].handle
  /\ goal[r] \in Outcomes
  /\ records' = [records EXCEPT ![r].terminal = TRUE]
  /\ RefreshTerminal(records')
  /\ success' = (goal[r] = "succeeded")
  /\ unconfirmed' = FALSE
  /\ UNCHANGED <<revision, accepted, rejected, cancel_requested, timed_out, clocks,
                 server, thread>>

(* result_callback; the client asks for the result of an accepted goal only.  *)
Result(r) ==
  /\ ~dropped /\ records[r].present /\ records[r].handle
  /\ goal[r] \in Outcomes
  /\ records' = [records EXCEPT ![r].terminal = TRUE]
  /\ RefreshTerminal(records')
  /\ success' = IF r = revision THEN goal[r] = "succeeded" ELSE success
  /\ unconfirmed' = (unconfirmed /\ r # revision)
  /\ UNCHANGED <<revision, accepted, rejected, cancel_requested, timed_out, clocks,
                 server, thread>>

(* A cancel response that also ends the goal: accepted for cancelling is      *)
(* taken for ended.                                                          *)
CancelResponseEndsGoal(r) ==
  /\ ~dropped /\ records[r].present
  /\ records[r].cancel_sent /\ cancel[r] # "none" /\ ~records[r].cancel_response_done
  /\ records' = [records EXCEPT ![r].cancel_response_done = TRUE,
                                ![r].terminal = @ \/ cancel[r] = "accepted",
                                ![r].cancel_ack = cancel[r] = "accepted"]
  /\ RefreshTerminal(records')
  /\ UNCHANGED <<revision, accepted, success, rejected, cancel_requested, timed_out,
                 unconfirmed, clocks, server, thread>>

CancelResponse(r) ==
  /\ ~dropped /\ records[r].present
  /\ records[r].cancel_sent /\ cancel[r] # "none" /\ ~records[r].cancel_response_done
  /\ records' = [records EXCEPT ![r].cancel_response_done = TRUE,
                                ![r].cancel_ack = cancel[r] = "accepted"]
  /\ RefreshTerminal(records')
  /\ UNCHANGED <<revision, accepted, success, rejected, cancel_requested, timed_out,
                 unconfirmed, clocks, server, thread>>

(* The runtime lets go of a session that is over: the supervisor clears       *)
(* `retiring`, finish_stop() and the leaf reset `motion`.                     *)
Drop ==
  /\ ~polling /\ ~dropped /\ terminal
  /\ dropped' = TRUE /\ updatable' = FALSE
  /\ UNCHANGED <<revision, records, status, clocks, server, polling, polled>>

-----------------------------------------------------------------------------
(* The action server, external. *)

ServerAnswers(r) ==
  /\ goal[r] = "submitted"
  /\ \E answer \in {"executing", "refused"} : goal' = [goal EXCEPT ![r] = answer]
  /\ UNCHANGED <<revision, records, status, clocks, cancel, thread>>

ServerEnds(r) ==
  /\ goal[r] = "executing"
  /\ \E outcome \in Outcomes : goal' = [goal EXCEPT ![r] = outcome]
  /\ UNCHANGED <<revision, records, status, clocks, cancel, thread>>

ServerCancels(r) ==
  /\ records[r].cancel_sent /\ cancel[r] = "none"
  /\ \E answer \in {"accepted", "refused"} :
       /\ answer = "accepted" => goal[r] = "executing"
       /\ cancel' = [cancel EXCEPT ![r] = answer]
  /\ UNCHANGED <<revision, records, status, clocks, goal, thread>>

(* A tick of the clock is one period of the behaviour tree, which polls every *)
(* session it holds in every period.                                         *)
Tick ==
  /\ now < MaxTime
  /\ polled \/ dropped
  /\ ~polling
  /\ now' = now + 1
  /\ polled' = FALSE /\ updatable' = FALSE
  /\ UNCHANGED <<revision, records, status, sent, cancel_at, server, polling, dropped>>

Init ==
  /\ now = 0 /\ sent = 0 /\ cancel_at = 0
  /\ revision = 0
  /\ records = [r \in Revisions |-> Absent]
  /\ accepted = FALSE /\ terminal = FALSE /\ success = FALSE /\ rejected = FALSE
  /\ cancel_requested = FALSE /\ cancel_ack = FALSE
  /\ timed_out = FALSE /\ unconfirmed = FALSE
  /\ polling = FALSE /\ polled = FALSE /\ updatable = FALSE
  /\ dropped = FALSE
  /\ goal = [r \in Revisions |-> "none"]
  /\ cancel = [r \in Revisions |-> "none"]

Next ==
  \/ \E thrown, reached \in BOOLEAN : (~thrown => reached) /\ Send(thrown, reached)
  \/ Cancel
  \/ Poll
  \/ PollCancels
  \/ Drop
  \/ \E r \in Revisions :
       \/ GoalResponse(r) \/ Result(r) \/ CancelResponse(r)
       \/ ServerAnswers(r) \/ ServerEnds(r) \/ ServerCancels(r)
  \/ Tick

Spec == Init /\ [][Next]_vars

-----------------------------------------------------------------------------
(* Properties *)

Running(r) == goal[r] \in {"submitted", "executing"}

(* Once a cancel is requested every goal whose handle is known has been asked *)
(* to stop, the late ones and the replaced ones included: no interleaving of  *)
(* update(), cancel() and late responses loses one.                          *)
CancelReachesEveryHandle ==
  cancel_requested =>
    \A r \in Present(records) :
      records[r].handle => records[r].terminal \/ records[r].cancel_sent

(* The session reports success only for the newest goal, whatever results of  *)
(* replaced goals are still on their way.                                    *)
SuccessIsOfCurrentGoal == success => revision > 0 /\ goal[revision] = "succeeded"

(* A session is not over while its newest goal may be running, nor while a    *)
(* replaced one may be unless that one had both limits to itself.  An         *)
(* accepted cancel is not an end.                                            *)
OverMeansEnded ==
  terminal =>
    \A r \in Present(records) :
      Running(r) => /\ r < revision
                    /\ now - records[r].superseded_at > ResponseTimeout + CancelTimeout

(* A session with one goal and a result limit is over, or has reported        *)
(* CANCEL_UNCONFIRMED, two tree periods after its limits have run out.        *)
WaitIsBounded ==
  revision = 1 /\ ResultTimeout > 0
    /\ now - sent > ResultTimeout + CancelTimeout + 2
  => terminal \/ unconfirmed

(* "A goal response that comes late is still cancelled": what the runtime has *)
(* let go of runs no more, or has been told to stop.                         *)
LateGoalsAreCancelled ==
  dropped => \A r \in Revisions : Running(r) => records[r].cancel_sent
=============================================================================
