----------------------------- MODULE StartExclusion -----------------------------
(***************************************************************************)
(* Mapping and inspection are two processes that must not be active at once.  *)
(* Each asks the other over HTTP before it starts, and each answers HTTP with *)
(* one worker thread, so a question can wait for the very worker that is      *)
(* asking.  The mapping gateway is also the portal of the inspection: a        *)
(* request that comes in at /inspect is forwarded by the same worker.         *)
(*                                                                          *)
(* The sockets are used synchronously, where the 300 ms deadline set on the   *)
(* stream does not apply: a question waits until it is answered.  Both         *)
(* processes are up.  A manual enable asks in the same way as a run start.    *)
(***************************************************************************)
EXTENDS Naturals, Sequences

CONSTANT Requests     \* what operators ask for, each once (bound)

(* The name under which the executor asks is not that of a request.           *)
ASSUME RequestsAssumption == "executor" \notin Requests

VARIABLES
  kind,       \* per request: what it asks for, and through which server
  reply,      \* per request: what its operator was told
  mapping_queue, mapping_work,        \* the mapping gateway's HTTP worker
  inspection_queue, inspection_work,  \* the inspection console's HTTP worker
  control_work,    \* the gateway's I/O thread, busy with a control message
  outbox,          \* replies posted to that thread
  jobs, executor,  \* the inspection's jobs and the thread that runs them
  task, status,    \* the gateway's task is active; what /api/status last said
  run, snapshot    \* the inspection's run is active; what /api/state last said

asked == <<kind, reply>>
mapping == <<mapping_queue, mapping_work, control_work, outbox, task, status>>
inspection == <<inspection_queue, inspection_work, jobs, executor, run, snapshot>>
exclusion_vars == <<asked, mapping, inspection>>

Kinds == {"start", "portal", "direct"}   \* mapping start; run start by either way

(* A piece of work: what is done, for which request, and the answer it needs  *)
(* from the other process before it can go on.                               *)
Work(what, who) ==
  [do |-> what, for |-> who, answer |-> "waiting", seen |-> "no"]

Idle == Work("none", "nobody")

Answered(work) == work # Idle /\ work.answer # "waiting"

ExclusionTypeOK ==
  /\ kind \in [Requests -> Kinds \cup {"none"}]
  /\ reply \in [Requests -> {"none", "pending", "accepted", "refused", "timeout"}]
  /\ mapping_work = Idle \/ mapping_work.do \in {"start", "portal", "status"}
  /\ inspection_work = Idle \/ inspection_work.do \in {"run", "state"}
  /\ task \in BOOLEAN /\ status \in BOOLEAN /\ run \in BOOLEAN /\ snapshot \in BOOLEAN

-----------------------------------------------------------------------------
(* Operators *)

Ask(r, k) ==
  /\ kind[r] = "none"
  /\ kind' = [kind EXCEPT ![r] = k] /\ reply' = [reply EXCEPT ![r] = "pending"]
  /\ IF k = "direct"
     THEN /\ inspection_queue' = Append(inspection_queue, [do |-> "run", for |-> r])
          /\ UNCHANGED mapping_queue
     ELSE /\ mapping_queue' = Append(mapping_queue, [do |-> k, for |-> r])
          /\ UNCHANGED inspection_queue
  /\ UNCHANGED <<mapping_work, control_work, outbox, task, status, inspection_work, jobs,
                 executor, run, snapshot>>

Tell(r, word) == reply' = [reply EXCEPT ![r] = word] /\ UNCHANGED kind

-----------------------------------------------------------------------------
(* The mapping gateway *)

AskState(asker) ==
  inspection_queue' = Append(inspection_queue, [do |-> "state", for |-> asker])

Word(active) == IF active THEN "yes" ELSE "no"

(* The worker takes the next request.  All three kinds wait for the inspection *)
(* console: a start and a status ask it for its state, the portal forwards.    *)
(* What a status will say of the task is copied before.                      *)
MappingTakes ==
  /\ mapping_work = Idle /\ mapping_queue # <<>>
  /\ LET item == Head(mapping_queue) IN
     /\ mapping_work' = [Work(item.do, item.for) EXCEPT !.seen = Word(status)]
     /\ IF item.do = "portal"
        THEN inspection_queue' = Append(inspection_queue, [do |-> "run", for |-> item.for])
        ELSE AskState("mapping")
  /\ mapping_queue' = Tail(mapping_queue)
  /\ UNCHANGED <<asked, control_work, outbox, task, status, inspection_work, jobs, executor,
                 run, snapshot>>

Post(who, word) == outbox' = Append(outbox, [to |-> who, word |-> word])

(* lifecycle(): the inspection has answered, and the task starts at once.     *)
MappingStarts ==
  /\ mapping_work.do = "start" /\ Answered(mapping_work)
  /\ IF mapping_work.answer = "no" /\ ~task
     THEN task' = TRUE /\ Post(mapping_work.for, "accepted")
     ELSE Post(mapping_work.for, "refused") /\ UNCHANGED task
  /\ mapping_work' = Idle
  /\ UNCHANGED <<asked, mapping_queue, control_work, status, inspection>>

(* GET /api/status, and the portal with what the console has replied.         *)
MappingReports ==
  /\ mapping_work.do \in {"status", "portal"} /\ Answered(mapping_work)
  /\ IF mapping_work.do = "status" THEN Post("executor", mapping_work.seen)
     ELSE Post(mapping_work.for, mapping_work.answer)
  /\ mapping_work' = Idle
  /\ UNCHANGED <<asked, mapping_queue, control_work, task, status, inspection>>

(* The I/O thread sends a reply when no control message keeps it.             *)
Deliver ==
  /\ control_work = Idle /\ outbox # <<>>
  /\ LET item == Head(outbox) IN
     IF item.to = "executor"
     THEN executor' = [executor EXCEPT !.answer = item.word] /\ UNCHANGED asked
     ELSE Tell(item.to, item.word) /\ UNCHANGED executor
  /\ outbox' = Tail(outbox)
  /\ UNCHANGED <<mapping_queue, mapping_work, control_work, task, status, inspection_queue,
                 inspection_work, jobs, run, snapshot>>

(* update_state() copies the task into status_; a start that is waiting for    *)
(* the inspection holds the mutex.                                           *)
Refresh ==
  /\ mapping_work.do # "start"
  /\ status # task /\ status' = task
  /\ UNCHANGED <<asked, mapping_queue, mapping_work, control_work, outbox, task, inspection>>

(* The task ends, by its operator or by a fault.                             *)
MappingEnds ==
  /\ task /\ mapping_work.do # "start"
  /\ task' = FALSE
  /\ UNCHANGED <<asked, mapping_queue, mapping_work, control_work, outbox, status, inspection>>

(* A control message, enable or drive, on the thread that also carries every   *)
(* HTTP reply; whoever sends it, the inspection is asked.                     *)
ControlAsks ==
  /\ control_work = Idle
  /\ \E what \in {"enable", "drive"} : control_work' = Work(what, "control")
  /\ AskState("control")
  /\ UNCHANGED <<asked, mapping_queue, mapping_work, outbox, task, status, inspection_work,
                 jobs, executor, run, snapshot>>

(* A drive then takes the mutex, which a start holds while it asks.            *)
ControlRelays ==
  /\ Answered(control_work)
  /\ control_work.do = "drive" => mapping_work.do # "start"
  /\ control_work' = Idle
  /\ UNCHANGED <<asked, mapping_queue, mapping_work, outbox, task, status, inspection>>

-----------------------------------------------------------------------------
(* The inspection console *)

InspectionTakes ==
  /\ inspection_work = Idle /\ inspection_queue # <<>>
  /\ LET item == Head(inspection_queue) IN
     /\ inspection_work' = Work(item.do, item.for)
     /\ jobs' = IF item.do = "run" THEN Append(jobs, item.for) ELSE jobs
  /\ inspection_queue' = Tail(inspection_queue)
  /\ UNCHANGED <<asked, mapping, executor, run, snapshot>>

(* GET /api/state: the last snapshot. *)
InspectionReports ==
  /\ inspection_work.do = "state"
  /\ IF inspection_work.for = "mapping"
     THEN /\ mapping_work' = [mapping_work EXCEPT !.answer = Word(snapshot)]
          /\ UNCHANGED control_work
     ELSE /\ control_work' = [control_work EXCEPT !.answer = Word(snapshot)]
          /\ UNCHANGED mapping_work
  /\ inspection_work' = Idle
  /\ UNCHANGED <<asked, mapping_queue, outbox, task, status, inspection_queue, jobs, executor, run,
                 snapshot>>

(* The reply of a run start, directly or through the portal's worker.         *)
RunReply(word) ==
  LET r == inspection_work.for IN
  /\ IF kind[r] = "portal"
     THEN mapping_work' = [mapping_work EXCEPT !.answer = word] /\ UNCHANGED asked
     ELSE Tell(r, word) /\ UNCHANGED mapping_work
  /\ inspection_work' = Idle
  /\ UNCHANGED <<mapping_queue, control_work, outbox, task, status, inspection_queue, jobs, executor,
                 run, snapshot>>

RunAnswered ==
  /\ inspection_work.do = "run" /\ Answered(inspection_work)
  /\ RunReply(inspection_work.answer)

(* A handler that waits for its job without a limit.                         *)
RunWaitsForever ==
  /\ inspection_work.do = "run" /\ ~Answered(inspection_work) /\ executor = Idle
  /\ inspection_work.for \notin {jobs[i] : i \in DOMAIN jobs}
  /\ RunReply("timeout")

(* future.wait_for(2 s) *)
RunTimesOut ==
  /\ inspection_work.do = "run" /\ ~Answered(inspection_work)
  /\ RunReply("timeout")

(* set_value(), or the promise breaks: it reaches the worker unless the worker *)
(* has given the job up.                                                     *)
Result(r, word) ==
  inspection_work' =
    IF inspection_work.do = "run" /\ inspection_work.for = r
    THEN [inspection_work EXCEPT !.answer = word] ELSE inspection_work

(* tick() drops a job that has waited 1.5 s behind another, or command()       *)
(* refuses it before it asks: another session, a sketch instead of a map.      *)
JobRefused ==
  /\ executor = Idle /\ jobs # <<>>
  /\ Result(Head(jobs), "refused")
  /\ jobs' = Tail(jobs)
  /\ UNCHANGED <<asked, mapping, inspection_queue, executor, run, snapshot>>

(* A gateway that answers the check with a second worker.                     *)
JobAsksAside ==
  /\ executor = Idle /\ jobs # <<>>
  /\ executor' = [Work("run", Head(jobs)) EXCEPT !.answer = Word(status)]
  /\ jobs' = Tail(jobs)
  /\ UNCHANGED <<asked, mapping, inspection_queue, inspection_work, run, snapshot>>

(* command(), run/start: mapping_blocks_inspection() asks the gateway.  (A      *)
(* request that has a run already is answered from the record before that;     *)
(* here each request is made once, as the page does.)                         *)
JobAsks ==
  /\ executor = Idle /\ jobs # <<>>
  /\ executor' = Work("run", Head(jobs))
  /\ jobs' = Tail(jobs)
  /\ mapping_queue' = Append(mapping_queue, [do |-> "status", for |-> "executor"])
  /\ UNCHANGED <<asked, mapping_work, control_work, outbox, task, status, inspection_queue,
                 inspection_work, run, snapshot>>

(* The gateway has answered: the other conditions of run/start may refuse too. *)
(* The run and the snapshot that shows it appear together, to other threads.   *)
JobDecides ==
  /\ Answered(executor)
  /\ \/ /\ executor.answer = "no" /\ ~run
        /\ run' = TRUE /\ snapshot' = TRUE
        /\ Result(executor.for, "accepted")
     \/ Result(executor.for, "refused") /\ UNCHANGED <<run, snapshot>>
  /\ executor' = Idle
  /\ UNCHANGED <<asked, mapping, inspection_queue, jobs>>

RunEnds ==
  /\ run /\ executor = Idle
  /\ run' = FALSE /\ snapshot' = FALSE
  /\ UNCHANGED <<asked, mapping, inspection_queue, inspection_work, jobs, executor>>

-----------------------------------------------------------------------------
ExclusionInit ==
  /\ kind = [r \in Requests |-> "none"] /\ reply = [r \in Requests |-> "none"]
  /\ mapping_queue = <<>> /\ mapping_work = Idle
  /\ control_work = Idle /\ outbox = <<>>
  /\ inspection_queue = <<>> /\ inspection_work = Idle
  /\ jobs = <<>> /\ executor = Idle
  /\ task = FALSE /\ status = FALSE /\ run = FALSE /\ snapshot = FALSE

MappingSteps ==
  MappingTakes \/ MappingStarts \/ MappingReports

ExclusionNext ==
  \/ \E r \in Requests, k \in Kinds : Ask(r, k)
  \/ MappingSteps \/ Deliver \/ Refresh \/ MappingEnds
  \/ ControlAsks \/ ControlRelays
  \/ InspectionTakes \/ InspectionReports \/ RunAnswered \/ RunTimesOut
  \/ JobRefused \/ JobAsks \/ JobDecides \/ RunEnds

(* Every thread runs and the 2 s pass; the I/O thread serves what is posted to *)
(* it in order, so control messages cannot keep a reply back for ever.          *)
(* Operators and tasks owe nothing.                                          *)
ExclusionSpec ==
  /\ ExclusionInit /\ [][ExclusionNext]_exclusion_vars
  /\ WF_exclusion_vars(MappingSteps) /\ SF_exclusion_vars(Deliver) /\ WF_exclusion_vars(ControlRelays)
  /\ WF_exclusion_vars(InspectionTakes \/ InspectionReports \/ RunAnswered)
  /\ WF_exclusion_vars(RunTimesOut)
  /\ WF_exclusion_vars(JobRefused \/ JobAsks \/ JobDecides)

-----------------------------------------------------------------------------
(* Properties *)

(* The two workers, the I/O thread and the executor may all wait for each      *)
(* other, and the limit on one wait undoes every such knot: each request is    *)
(* answered and each thread comes free again.                                *)
KnotsComeUndone ==
  /\ \A r \in Requests : reply[r] = "pending" ~> reply[r] # "pending"
  /\ executor # Idle ~> executor = Idle
  /\ control_work # Idle ~> control_work = Idle

(* The operator who starts a run through the portal is never told that it has  *)
(* started, only that the request was refused or timed out: the worker that    *)
(* forwards it is the one that its check of the mapping task waits for.  Only   *)
(* the same request made again would be answered, from the record.            *)
PortalNeverConfirms == \A r \in Requests : kind[r] = "portal" => reply[r] # "accepted"

(* "While mapping is in progress the inspection refuses to drive, while the    *)
(* inspection is in progress mapping refuses to enable": the two never own     *)
(* the motion together.                                                      *)
OneOwner == ~(task /\ run)
=============================================================================
