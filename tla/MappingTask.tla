------------------------------ MODULE MappingTask ------------------------------
(***************************************************************************)
(* The mapping gateway's task: the resident web process that starts the      *)
(* SLAM back end, feeds it the laser scans, saves what it has mapped and      *)
(* ends it again.                                                           *)
(*                                                                          *)
(* Four threads share the gateway's mutex, and each action below is what one  *)
(* of them does under it in one go: the single HTTP worker admits a request   *)
(* and then waits, without the mutex, for the previous job to end; the job    *)
(* thread does the work; the ROS callbacks take scans, poses and maps; a      *)
(* 100 ms timer (update_state) watches the back end.                         *)
(*                                                                          *)
(* The managed entry (mode:=standby) with the real back end is modelled.  An  *)
(* operator session is taken as given.  Durations (45 s to start, 6 s for a   *)
(* trial match, 2 s of silence) are left to chance: a limit that can run out  *)
(* may run out at any time.                                                  *)
(***************************************************************************)
EXTENDS Integers, FiniteSets

CONSTANTS
  Bundles,         \* directories save() may create (bound)
  MaxOperations    \* operations the gateway may accept (bound)

NoBundle == "no bundle"

ASSUME ConstantsAssumption ==
  MaxOperations \in Nat /\ IsFiniteSet(Bundles) /\ NoBundle \notin Bundles

VARIABLES
  task,                \* task_state_
  phase,               \* phase_
  mode,                \* mode_
  bundle,              \* bundle_id_, what this task resumed
  busy, operation, completed,
  accepting, forward, one_scan,
  have_pose,           \* have_pose_: a pose came while WAITING
  have_map,            \* map_ and its picture
  dirty, save_failed,
  last_saved,          \* last_saved_bundle_
  video,               \* video_requested_
  backend_started,
  request,             \* what the HTTP worker has admitted and not yet started
  job,                 \* job_: the job thread
  backend, camera,     \* external: the two process groups
  disk                 \* the bundle directories, which outlive the process

flags == <<busy, operation, completed>>
inputs == <<accepting, forward, one_scan, have_pose, have_map>>
progress == <<dirty, save_failed, last_saved>>
processes == <<backend_started, backend, camera, video>>
session == <<task, phase, mode, bundle>>
memory == <<session, flags, inputs, progress, video, backend_started, request, job>>
vars == <<session, flags, inputs, progress, processes, request, job, disk>>

Targets == {"start", "restart", "end", "video", "save", "finish", "resume"}
Saves == {"save", "finish"}
Lifecycle == {"start", "restart", "end", "video"}
Steps == {"stop", "lock", "spawn", "open", "closing", "halt", "closed", "camera",
          "wait", "grid", "graph", "mark", "commit", "spoil", "load", "trial",
          "catch", "done"}

Request == [target: Targets, mode: {"standby", "new", "resume"},
            bundle: Bundles \cup {NoBundle}, agreed: BOOLEAN, enabled: BOOLEAN]
NoRequest == [target |-> "none"]
NoJob == [target |-> "none", at |-> "done", agreed |-> FALSE]

Files == [made: BOOLEAN, grid: BOOLEAN, graph: BOOLEAN, complete: BOOLEAN]
Nothing == [made |-> FALSE, grid |-> FALSE, graph |-> FALSE, complete |-> FALSE]

TypeOK ==
  /\ task \in {"STANDBY", "STARTING", "RUNNING", "STOPPING", "FAULT"}
  /\ phase \in {"STANDBY", "WAITING", "REFERENCE", "LOADING", "TRIAL", "CANDIDATE",
                "CURRENT", "SAVING", "STOPPING", "FAILED"}
  /\ mode \in {"standby", "new", "resume"}
  /\ bundle \in Bundles \cup {NoBundle} /\ last_saved \in Bundles \cup {NoBundle}
  /\ busy \in BOOLEAN /\ operation \in Nat /\ completed \in Nat
  /\ accepting \in BOOLEAN /\ forward \in BOOLEAN /\ one_scan \in BOOLEAN
  /\ have_pose \in BOOLEAN /\ have_map \in BOOLEAN
  /\ dirty \in BOOLEAN /\ save_failed \in BOOLEAN
  /\ video \in BOOLEAN /\ backend_started \in BOOLEAN
  /\ request \in Request \cup {NoRequest}
  /\ job.at \in Steps /\ job.target \in Targets \cup {"none"}
  /\ backend \in {"none", "alive", "exited"} /\ camera \in {"none", "alive"}
  /\ disk \in [Bundles -> Files]

-----------------------------------------------------------------------------
(* The HTTP worker.  It serves one request at a time, so nothing is admitted  *)
(* while it waits for a job to end.                                          *)

Free == request = NoRequest /\ operation < MaxOperations

Whole(b) == disk[b].complete /\ disk[b].grid /\ disk[b].graph

Admit(target, m, b, acknowledged, enabled) ==
  /\ request' = [target |-> target, mode |-> m, bundle |-> b,
                 agreed |-> (acknowledged \/ ~dirty), enabled |-> enabled]
  /\ busy' = TRUE /\ operation' = operation + 1
  /\ UNCHANGED <<completed, mode, bundle, progress, processes, job, disk>>

StopInputs ==
  accepting' = FALSE /\ forward' = FALSE /\ one_scan' = FALSE
    /\ UNCHANGED <<have_pose, have_map>>

(* lifecycle(), /api/start: the inspection is asked first, and may refuse.    *)
Start ==
  /\ Free /\ ~busy /\ task = "STANDBY"
  /\ \/ Admit("start", "new", NoBundle, FALSE, FALSE)
     \/ \E b \in Bundles : Whole(b) /\ Admit("start", "resume", b, FALSE, FALSE)
  /\ task' = "STARTING"
  /\ UNCHANGED <<phase, inputs>>

(* A /api/restart that does not ask whether unsaved progress may go.          *)
RestartUnasked(acknowledged) ==
  /\ Free /\ ~busy /\ task # "STANDBY"
  /\ IF last_saved = NoBundle THEN Admit("restart", mode, bundle, acknowledged, FALSE)
     ELSE Admit("restart", "resume", last_saved, acknowledged, FALSE)
  /\ task' = "STOPPING" /\ StopInputs
  /\ UNCHANGED phase

(* lifecycle(), /api/restart: from the last saved bundle if there is one.     *)
Restart(acknowledged) ==
  /\ Free /\ ~busy /\ task # "STANDBY"
  /\ dirty => acknowledged
  /\ IF last_saved = NoBundle THEN Admit("restart", mode, bundle, acknowledged, FALSE)
     ELSE Admit("restart", "resume", last_saved, acknowledged, FALSE)
  /\ task' = "STOPPING" /\ StopInputs
  /\ UNCHANGED phase

(* lifecycle(), /api/end: the only request a start under way does not refuse. *)
End(acknowledged) ==
  /\ Free /\ (busy => task = "STARTING")
  /\ dirty => acknowledged
  /\ Admit("end", mode, bundle, acknowledged, FALSE)
  /\ task' = "STOPPING" /\ StopInputs
  /\ UNCHANGED phase

Video(enabled) ==
  /\ Free /\ ~busy /\ task = "RUNNING"
  /\ Admit("video", mode, bundle, FALSE, enabled)
  /\ UNCHANGED <<task, phase, inputs>>

(* http(): /api/save and /api/finish freeze the map.                         *)
Save(target) ==
  /\ Free /\ ~busy /\ phase = "CURRENT" /\ have_map
  /\ \E b \in Bundles : ~disk[b].made
  /\ Admit(target, mode, bundle, FALSE, FALSE)
  /\ phase' = "SAVING" /\ forward' = FALSE
  /\ UNCHANGED <<task, accepting, one_scan, have_pose, have_map>>

(* http(): /api/resume, with a pose inside the old map.                      *)
Resume ==
  /\ Free /\ ~busy /\ mode = "resume" /\ phase \in {"REFERENCE", "CANDIDATE"}
  /\ Admit("resume", mode, bundle, FALSE, FALSE)
  /\ phase' = "LOADING" /\ forward' = FALSE /\ one_scan' = FALSE
  /\ UNCHANGED <<task, accepting, have_pose, have_map>>

Confirm ==
  /\ request = NoRequest /\ ~busy /\ phase = "CANDIDATE"
  /\ phase' = "CURRENT" /\ forward' = TRUE
  /\ UNCHANGED <<task, mode, bundle, flags, accepting, one_scan, have_pose, have_map,
                 progress, processes, request, job, disk>>

FirstStep(target) ==
  CASE target \in {"start", "restart"} -> "stop"
    [] target = "end" -> "closing"
    [] target = "video" -> "camera"
    [] OTHER -> "wait"

(* job_.join(), then the new job_.                                           *)
Join ==
  /\ request # NoRequest /\ job.at = "done"
  /\ job' = [target |-> request.target, at |-> FirstStep(request.target),
             mode |-> request.mode, bundle |-> request.bundle,
             agreed |-> request.agreed, enabled |-> request.enabled,
             dir |-> NoBundle]
  /\ request' = NoRequest
  /\ UNCHANGED <<session, flags, inputs, progress, processes, disk>>

-----------------------------------------------------------------------------
(* The job thread: start_task(). *)

Goto(step) == job' = [job EXCEPT !.at = step]

(* The bundle of a resume must validate; then both process groups are ended.  *)
StopOld ==
  /\ job.at = "stop"
  /\ \/ Goto("lock") /\ backend' = "none" /\ camera' = "none"
     \/ job.mode = "resume" /\ Goto("catch") /\ UNCHANGED <<backend, camera>>
  /\ UNCHANGED <<session, flags, inputs, progress, backend_started, video, request, disk>>

ClearInputs ==
  /\ accepting' = FALSE /\ forward' = FALSE /\ one_scan' = FALSE
  /\ have_pose' = FALSE /\ have_map' = FALSE

StartLocked ==
  /\ job.at = "lock" /\ Goto("spawn")
  /\ ClearInputs
  /\ mode' = job.mode /\ bundle' = job.bundle
  /\ phase' = (IF job.mode = "resume" THEN "REFERENCE" ELSE "WAITING")
  /\ task' = "STARTING"
  /\ backend_started' = FALSE /\ video' = FALSE
  /\ dirty' = FALSE /\ save_failed' = FALSE /\ last_saved' = NoBundle
  /\ UNCHANGED <<flags, backend, camera, request, disk>>

Spawn ==
  /\ job.at = "spawn"
  /\ \/ Goto("open") /\ backend' = "alive"
     \/ Goto("catch") /\ UNCHANGED backend
  /\ UNCHANGED <<session, flags, inputs, progress, backend_started, camera, video,
                 request, disk>>

OpenInputs ==
  /\ job.at = "open" /\ Goto("done")
  /\ backend_started' = TRUE
  /\ accepting' = TRUE /\ forward' = (job.mode = "new")
  /\ UNCHANGED <<session, flags, one_scan, have_pose, have_map, progress, backend, camera,
                 video, request, disk>>

(* close_task(), called for /api/end and at the end of /api/finish.          *)
Closing ==
  /\ job.at = "closing" /\ Goto("halt")
  /\ StopInputs
  /\ task' = "STOPPING" /\ phase' = "STOPPING"
  /\ UNCHANGED <<mode, bundle, flags, progress, processes, request, disk>>

Halt ==
  /\ job.at = "halt" /\ Goto("closed")
  /\ backend' = "none" /\ camera' = "none"
  /\ UNCHANGED <<session, flags, inputs, progress, backend_started, video, request, disk>>

Closed ==
  /\ job.at = "closed" /\ Goto("done")
  /\ ClearInputs
  /\ phase' = "STANDBY" /\ task' = "STANDBY" /\ mode' = "standby" /\ bundle' = NoBundle
  /\ busy' = FALSE /\ dirty' = FALSE /\ save_failed' = FALSE
  /\ video' = FALSE /\ backend_started' = FALSE
  /\ completed' = operation
  /\ UNCHANGED <<operation, last_saved, backend, camera, request, disk>>

(* /api/video: the camera is stopped first and may fail to start.            *)
CameraStep ==
  /\ job.at = "camera"
  /\ \/ /\ Goto("done")
        /\ camera' = (IF job.enabled THEN "alive" ELSE "none")
        /\ video' = job.enabled
        /\ busy' = FALSE /\ completed' = operation
     \/ job.enabled /\ Goto("catch") /\ camera' = "none" /\ UNCHANGED <<video, busy, completed>>
  /\ UNCHANGED <<session, operation, inputs, progress, backend_started, backend, request, disk>>

-----------------------------------------------------------------------------
(* The job thread: wait_stopped(), save() and resume().                      *)

Throw(step) ==
  Goto(step) /\ UNCHANGED <<session, flags, inputs, progress, processes, request, disk>>

Waited ==
  /\ job.at = "wait"
  /\ \/ Throw("catch")
     \/ job.target = "resume" /\ Throw("load")
     \/ job.target \in Saves /\ phase = "SAVING" /\ Throw("grid")

(* A manifest that is written complete before the pose graph is there.        *)
SaveGridComplete ==
  /\ job.at = "grid"
  /\ \/ Throw("catch")
     \/ \E b \in Bundles, saved \in BOOLEAN :
          /\ ~disk[b].made /\ have_map
          /\ disk' = [disk EXCEPT ![b] =
               [Nothing EXCEPT !.made = TRUE, !.grid = saved, !.complete = saved]]
          /\ job' = [job EXCEPT !.dir = b, !.at = IF saved THEN "graph" ELSE "spoil"]
          /\ UNCHANGED <<session, flags, inputs, progress, processes, request>>

(* A map newer than the freeze, a new directory and the navigation map in it. *)
SaveGrid ==
  /\ job.at = "grid"
  /\ \/ Throw("catch")
     \/ \E b \in Bundles, saved \in BOOLEAN :
          /\ ~disk[b].made /\ have_map
          /\ disk' = [disk EXCEPT ![b] = [Nothing EXCEPT !.made = TRUE, !.grid = saved]]
          /\ job' = [job EXCEPT !.dir = b, !.at = IF saved THEN "graph" ELSE "spoil"]
          /\ UNCHANGED <<session, flags, inputs, progress, processes, request>>

SaveGraph ==
  /\ job.at = "graph"
  /\ \/ Throw("spoil")
     \/ /\ backend = "alive"
        /\ disk' = [disk EXCEPT ![job.dir].graph = TRUE]
        /\ Goto("mark")
        /\ UNCHANGED <<session, flags, inputs, progress, processes, request>>

(* The checksums and the parameters that were in force, then complete = true. *)
MarkComplete ==
  /\ job.at = "mark"
  /\ \/ Throw("spoil")
     \/ /\ disk' = [disk EXCEPT ![job.dir].complete = TRUE]
        /\ Goto("commit")
        /\ UNCHANGED <<session, flags, inputs, progress, processes, request>>

CommitEffects ==
  /\ phase' = (IF job.target = "finish" THEN "STOPPING" ELSE "CURRENT")
  /\ task' = (IF job.target = "finish" THEN "STOPPING" ELSE task)
  /\ forward' = (job.target # "finish") /\ busy' = (job.target = "finish")
  /\ save_failed' = FALSE /\ dirty' = FALSE /\ last_saved' = job.dir
  /\ completed' = operation
  /\ Goto(IF job.target = "finish" THEN "closing" ELSE "done")
  /\ UNCHANGED <<mode, bundle, operation, accepting, one_scan, have_pose, have_map,
                 processes, request, disk>>

(* A save that does not look at the phase again before it reports success.    *)
CommitUnchecked == job.at = "commit" /\ CommitEffects

(* A save that finds its session failed and leaves the manifest as it is.     *)
CommitLeavesComplete ==
  /\ job.at = "commit"
  /\ IF phase = "SAVING" THEN CommitEffects ELSE Throw("catch")

Commit ==
  /\ job.at = "commit"
  /\ IF phase = "SAVING" THEN CommitEffects ELSE Throw("spoil")

(* The catch of save(): the manifest says incomplete again.                  *)
Spoil ==
  /\ job.at = "spoil" /\ Goto("catch")
  /\ disk' = [disk EXCEPT ![job.dir].complete = FALSE]
  /\ UNCHANGED <<session, flags, inputs, progress, processes, request>>

(* The deserialize service; the mutex is not held.                           *)
Load ==
  /\ job.at = "load"
  /\ Throw("catch") \/ (backend = "alive" /\ Throw("trial"))

Trial ==
  /\ job.at = "trial"
  /\ IF phase # "LOADING" THEN Throw("catch")
     ELSE /\ Goto("done")
          /\ phase' = "TRIAL" /\ one_scan' = TRUE
          /\ busy' = FALSE /\ completed' = operation
          /\ UNCHANGED <<task, mode, bundle, operation, accepting, forward, have_pose, have_map,
                         progress, processes, request, disk>>

(* The two catch blocks of the job thread.                                   *)
CatchLifecycle ==
  /\ job.at = "catch" /\ job.target \in Lifecycle /\ Goto("done")
  /\ camera' = "none"
  /\ busy' = FALSE /\ completed' = operation
  /\ IF job.target = "video"
     THEN video' = FALSE /\ UNCHANGED <<task, phase, accepting, forward, backend>>
     ELSE /\ backend' = "none"
          /\ task' = "FAULT" /\ phase' = "FAILED" /\ accepting' = FALSE /\ forward' = FALSE
          /\ UNCHANGED video
  /\ UNCHANGED <<mode, bundle, operation, one_scan, have_pose, have_map, progress,
                 backend_started, request, disk>>

(* A catch that forgets to say that the operation is over.                    *)
CatchStaysBusy ==
  /\ job.at = "catch" /\ job.target \notin Lifecycle /\ Goto("done")
  /\ forward' = FALSE
  /\ IF job.target \in Saves /\ phase = "SAVING"
     THEN phase' = "CURRENT" /\ save_failed' = TRUE /\ UNCHANGED one_scan
     ELSE phase' = "FAILED" /\ one_scan' = FALSE /\ UNCHANGED save_failed
  /\ UNCHANGED <<task, mode, bundle, flags, accepting, have_pose, have_map, dirty,
                 last_saved, processes, request, disk>>

CatchSession ==
  /\ job.at = "catch" /\ job.target \notin Lifecycle /\ Goto("done")
  /\ busy' = FALSE /\ completed' = operation
  /\ forward' = FALSE
  /\ IF job.target \in Saves /\ phase = "SAVING"
     THEN phase' = "CURRENT" /\ save_failed' = TRUE /\ UNCHANGED one_scan
     ELSE phase' = "FAILED" /\ one_scan' = FALSE /\ UNCHANGED save_failed
  /\ UNCHANGED <<task, mode, bundle, operation, accepting, have_pose, have_map, dirty,
                 last_saved, processes, request, disk>>

JobStep ==
  \/ StopOld \/ StartLocked \/ Spawn \/ OpenInputs
  \/ Closing \/ Halt \/ Closed \/ CameraStep
  \/ Waited \/ SaveGrid \/ SaveGraph \/ MarkComplete \/ Commit \/ Spoil
  \/ Load \/ Trial \/ CatchLifecycle \/ CatchSession

-----------------------------------------------------------------------------
(* The ROS callbacks. *)

(* The instant between a start that has just ended and the job that waited to *)
(* take its place.  SLAM needs seconds to come up and says nothing in it.     *)
HandOver ==
  \/ job.at = "done" /\ request # NoRequest
  \/ job.at = "closing" /\ job.target = "end"

Mapping == backend = "alive" /\ accepting /\ ~HandOver

(* One scan is relayed for a trial match; other scans leave no trace here.    *)
Scan ==
  /\ accepting /\ one_scan
  /\ one_scan' = FALSE
  /\ UNCHANGED <<session, flags, accepting, forward, have_pose, have_map, progress,
                 processes, request, job, disk>>

Map ==
  /\ Mapping /\ ~have_map
  /\ have_map' = TRUE
  /\ UNCHANGED <<session, flags, accepting, forward, one_scan, have_pose, progress,
                 processes, request, job, disk>>

Pose ==
  /\ Mapping
  /\ phase' = (IF phase = "TRIAL" /\ ~one_scan THEN "CANDIDATE" ELSE phase)
  /\ have_pose' = (have_pose \/ phase = "WAITING")
  /\ dirty' = (dirty \/ (phase = "CURRENT" /\ forward))
  /\ UNCHANGED <<task, mode, bundle, flags, accepting, forward, one_scan, have_map,
                 save_failed, last_saved, processes, request, job, disk>>

Fails ==
  /\ phase' = "FAILED" /\ forward' = FALSE /\ one_scan' = FALSE
  /\ UNCHANGED <<task, mode, bundle, flags, accepting, have_pose, have_map, progress,
                 processes, request, job, disk>>

InvalidPose == Mapping /\ Fails

(* An ERROR of slam_toolbox in the log while an old map is being restored.    *)
SlamError == phase \in {"LOADING", "TRIAL", "CANDIDATE"} /\ Fails

-----------------------------------------------------------------------------
(* update_state(), every 100 ms. *)

Fault ==
  /\ task' = "FAULT" /\ phase' = "FAILED"
  /\ accepting' = FALSE /\ forward' = FALSE /\ one_scan' = FALSE
  /\ busy' = FALSE /\ completed' = operation
  /\ UNCHANGED <<mode, bundle, operation, have_pose, have_map, progress, processes,
                 request, job, disk>>

(* A watchdog that closes the inputs but lets the scans through.              *)
BackendLostKeepsScans ==
  /\ task \in {"STARTING", "RUNNING"}
  /\ backend_started /\ backend # "alive"
  /\ task' = "FAULT" /\ phase' = "FAILED"
  /\ busy' = FALSE /\ completed' = operation
  /\ UNCHANGED <<inputs, mode, bundle, operation, progress, processes, request, job, disk>>

BackendLost ==
  /\ task \in {"STARTING", "RUNNING"}
  /\ backend_started /\ backend # "alive"
  /\ Fault

(* Control, scan, odometry or, in a live map, the map has been silent.        *)
InputsLost == task = "RUNNING" /\ Fault

(* 45 s, measured again by start_task(): longer than any job takes to start.  *)
StartTimesOut ==
  /\ task = "STARTING"
  /\ request = NoRequest /\ job.at = "done"
  /\ Fault

Ready ==
  /\ task = "STARTING" /\ accepting /\ backend = "alive"
  /\ phase \in {"CURRENT", "REFERENCE"}
  /\ task' = "RUNNING"
  /\ busy' = FALSE /\ completed' = operation
  /\ UNCHANGED <<phase, mode, bundle, operation, inputs, progress, processes, request, job,
                 disk>>

Located ==
  /\ phase = "WAITING" /\ have_pose /\ have_map
  /\ phase' = "CURRENT"
  /\ UNCHANGED <<task, mode, bundle, flags, inputs, progress, processes, request, job, disk>>

TrialTimesOut ==
  /\ phase = "TRIAL"
  /\ phase' = "FAILED" /\ one_scan' = FALSE
  /\ UNCHANGED <<task, mode, bundle, flags, accepting, forward, have_pose, have_map,
                 progress, processes, request, job, disk>>

UpdateState == BackendLost \/ InputsLost \/ StartTimesOut \/ Ready \/ Located \/ TrialTimesOut

-----------------------------------------------------------------------------
BackendExits ==
  /\ backend = "alive"
  /\ backend' = "exited"
  /\ UNCHANGED <<memory, camera, disk>>

(* The gateway dies and its service starts it again; systemd ends what is      *)
(* left of both process groups, the directories stay.                        *)
Crash ==
  /\ operation > 0
  /\ task' = "STANDBY" /\ phase' = "STANDBY" /\ mode' = "standby" /\ bundle' = NoBundle
  /\ busy' = FALSE /\ operation' = 0 /\ completed' = 0
  /\ ClearInputs
  /\ dirty' = FALSE /\ save_failed' = FALSE /\ last_saved' = NoBundle
  /\ backend_started' = FALSE /\ backend' = "none" /\ camera' = "none" /\ video' = FALSE
  /\ request' = NoRequest /\ job' = NoJob
  /\ UNCHANGED disk

Init ==
  /\ task = "STANDBY" /\ phase = "STANDBY" /\ mode = "standby" /\ bundle = NoBundle
  /\ busy = FALSE /\ operation = 0 /\ completed = 0
  /\ accepting = FALSE /\ forward = FALSE /\ one_scan = FALSE
  /\ have_pose = FALSE /\ have_map = FALSE
  /\ dirty = FALSE /\ save_failed = FALSE /\ last_saved = NoBundle
  /\ backend_started = FALSE /\ backend = "none" /\ camera = "none" /\ video = FALSE
  /\ request = NoRequest /\ job = NoJob
  /\ disk = [b \in Bundles |-> Nothing]

Next ==
  \/ Start \/ Confirm \/ Resume
  \/ \E acknowledged \in BOOLEAN : Restart(acknowledged) \/ End(acknowledged)
  \/ \E enabled \in BOOLEAN : Video(enabled)
  \/ \E target \in Saves : Save(target)
  \/ Join \/ JobStep
  \/ Scan \/ Map \/ Pose \/ InvalidPose \/ SlamError
  \/ UpdateState
  \/ BackendExits \/ Crash

(* The threads run and time passes; nothing makes an operator ask, or SLAM    *)
(* answer.                                                                   *)
Spec ==
  /\ Init /\ [][Next]_vars
  /\ WF_vars(Join) /\ WF_vars(JobStep)
  /\ WF_vars(StartTimesOut) /\ WF_vars(BackendLost) /\ WF_vars(TrialTimesOut)

-----------------------------------------------------------------------------
(* Properties *)

(* What the operator is told was saved, and what any later task may resume,    *)
(* is whole: complete never stands over a directory without the navigation     *)
(* map or the pose graph, whatever fault, new request or crash comes between   *)
(* the steps of a save.                                                      *)
SavedIsWhole ==
  /\ last_saved # NoBundle => Whole(last_saved)
  /\ \A b \in Bundles : disk[b].complete => Whole(b)

(* A save whose session failed under it leaves nothing a later task could     *)
(* take for a saved map, once its job has ended and unless the process died.  *)
(* Bundles that count as complete are those of saves that reported success.   *)
RefusedIsSpoilt ==
  [][\A b \in Bundles :
       job.at # "done" /\ job'.at = "done" /\ job.target \in Saves /\ job.dir = b
         /\ disk'[b].complete /\ job' # NoJob
       => last_saved' = b]_vars

(* Unsaved progress that was there when a restart or an end was asked for goes *)
(* only when it has been saved whole or the operator has said that it may be   *)
(* lost.                                                                     *)
NoSilentLoss ==
  [][dirty /\ ~dirty' /\ job' # NoJob =>
       job.agreed \/ (last_saved' # NoBundle /\ Whole(last_saved'))]_vars

(* SLAM is fed only by a task that is starting or running, or that a job which *)
(* is still to take effect is about to replace; never in STANDBY or after a    *)
(* fault, and never while the map is frozen for a save or the session has      *)
(* failed.  No order of a fault, a request and the end of an older job reopens *)
(* the scans.                                                                *)
Replacing == request # NoRequest \/ job.at \in {"stop", "lock", "closing"}

FedOnlyWhenMapping ==
  accepting /\ (forward \/ one_scan) =>
    /\ task \in {"STARTING", "RUNNING"} \/ (task = "STOPPING" /\ Replacing)
    /\ phase \in (IF one_scan THEN {"TRIAL"} ELSE {"WAITING", "CURRENT"})

(* A session that has failed, by a fault, an invalid pose or an error of SLAM,  *)
(* is never taken up again: a save or a restore that was under way does not     *)
(* bring it back, only a new start or an end leads out.                       *)
FailureIsFinal ==
  [][phase = "FAILED" /\ phase' # "FAILED" /\ job' # NoJob =>
       job.at \in {"lock", "closing"}]_vars

(* Whatever fails, an operation ends and the next may be asked for.          *)
BusyEnds == busy ~> ~busy
=============================================================================
