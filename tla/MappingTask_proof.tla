-------------------------- MODULE MappingTask_proof --------------------------
(***************************************************************************)
(* Proofs about MappingTask, for any set of bundle directories and any number  *)
(* of operations: requests, jobs, callbacks, the watchdog and crashes in any   *)
(* order.                                                                   *)
(***************************************************************************)
EXTENDS MappingTask, TLAPS

Jobs == [target: Targets, at: Steps, mode: {"standby", "new", "resume"},
         bundle: Bundles \cup {NoBundle}, agreed: BOOLEAN, enabled: BOOLEAN,
         dir: Bundles \cup {NoBundle}]

(* TypeOK in four parts, the last with the whole record of the job.           *)
SessionTyped ==
  /\ task \in {"STANDBY", "STARTING", "RUNNING", "STOPPING", "FAULT"}
  /\ phase \in {"STANDBY", "WAITING", "REFERENCE", "LOADING", "TRIAL", "CANDIDATE",
                "CURRENT", "SAVING", "STOPPING", "FAILED"}
  /\ mode \in {"standby", "new", "resume"}
  /\ bundle \in Bundles \cup {NoBundle} /\ last_saved \in Bundles \cup {NoBundle}

FlagsTyped ==
  /\ busy \in BOOLEAN
  /\ accepting \in BOOLEAN /\ forward \in BOOLEAN /\ one_scan \in BOOLEAN
  /\ have_pose \in BOOLEAN /\ have_map \in BOOLEAN
  /\ dirty \in BOOLEAN /\ save_failed \in BOOLEAN
  /\ video \in BOOLEAN /\ backend_started \in BOOLEAN

WorldTyped ==
  /\ operation \in Nat /\ completed \in Nat
  /\ backend \in {"none", "alive", "exited"} /\ camera \in {"none", "alive"}
  /\ disk \in [Bundles -> Files]

WorkTyped ==
  /\ request \in Request \cup {NoRequest}
  /\ job \in Jobs \cup {NoJob}

Typed == SessionTyped /\ FlagsTyped /\ WorldTyped /\ WorkTyped

(* Which job can be at which step.                                           *)
JobShape ==
  /\ job.at \in {"stop", "lock", "spawn", "open"} => job.target \in {"start", "restart"}
  /\ job.at \in {"closing", "halt", "closed"} => job.target \in {"end", "finish"}
  /\ job.at = "camera" => job.target = "video"
  /\ job.at = "wait" => job.target \in Saves \cup {"resume"}
  /\ job.at \in {"grid", "graph", "mark", "commit", "spoil"} => job.target \in Saves
  /\ job.at \in {"load", "trial"} => job.target = "resume"

(* A manifest that says complete stands over both maps, and what the operator  *)
(* was told was saved has one.                                               *)
Manifests ==
  /\ \A b \in Bundles : disk[b].complete => disk[b].grid /\ disk[b].graph
  /\ last_saved # NoBundle => Whole(last_saved) /\ disk[last_saved].made

(* How far the directory of a save is at each of its steps.                   *)
Writing ==
  /\ job.at \in {"wait", "grid"} => job.dir = NoBundle
  /\ job.at \in {"graph", "mark", "commit", "spoil"} =>
       job.dir \in Bundles /\ disk[job.dir].made /\ last_saved # job.dir
  /\ job.at \in {"graph", "mark", "commit"} => disk[job.dir].grid
  /\ job.at \in {"mark", "commit"} => disk[job.dir].graph
  /\ job.at = "commit" => disk[job.dir].complete
  /\ job.at = "catch" /\ job.target \in Saves =>
       job.dir = NoBundle \/ ~disk[job.dir].complete
  /\ job.at \in {"closing", "halt", "closed"} /\ job.target = "finish" =>
       job.dir \in Bundles /\ last_saved = job.dir

(* A request that ends a task was let in on clean progress or a yes.          *)
Consent ==
  /\ request.target \in {"start", "restart", "end"} => request.agreed
  /\ job.target \in {"start", "restart", "end"} => job.agreed
  /\ task = "STANDBY" => ~dirty

(* Nothing reaches a task that is being halted.                              *)
Halting ==
  job.at \in {"halt", "closed"} => phase = "STOPPING" /\ task = "STOPPING" /\ ~accepting

Feeding == forward \/ one_scan

(* Until its back end is there, a start has nothing to feed, and only an end   *)
(* or a restart of the same mode may have overtaken it.                       *)
Launching ==
  job.at \in {"spawn", "open"} =>
    /\ ~accepting /\ ~one_scan /\ ~have_map /\ ~have_pose /\ ~backend_started
    /\ last_saved = NoBundle /\ mode = job.mode
    /\ mode # "resume" => phase = "WAITING"
    /\ \/ task = "STARTING"
       \/ /\ task = "STOPPING" /\ busy
          /\ \/ request.target = "end"
             \/ request.target = "restart" /\ request.mode = mode

(* The inputs of a task that is stopping are open only if a start came after   *)
(* the request that overtook it, or the job that closes them is due.           *)
Overtaken ==
  \/ job.at = "closing"
  \/ /\ busy /\ job.at = "done"
     /\ \/ request.target = "end"
        \/ request.target = "restart" /\ (Feeding => request.mode # "resume")
  \/ /\ busy /\ job.target = "restart"
     /\ \/ job.at \in {"stop", "lock"} /\ (Feeding => job.mode # "resume")
        \/ job.at = "catch" /\ ~Feeding

Fed ==
  /\ accepting => task \in {"STARTING", "RUNNING"} \/ (task = "STOPPING" /\ Overtaken)
  /\ forward => phase \in {"WAITING", "CURRENT"}
  /\ accepting /\ one_scan => phase = "TRIAL"

Inv ==
  JobShape /\ Manifests /\ Writing /\ Consent /\ Halting /\ Launching /\ Fed

LEMMA TypedIsTypeOK == Typed => TypeOK
<1> SUFFICES ASSUME Typed PROVE TypeOK
  OBVIOUS
<1>1. job.at \in Steps /\ job.target \in Targets \cup {"none"}
  BY DEF Typed, WorkTyped, Jobs, NoJob, Steps
<1> QED
  BY <1>1, Zenon DEF Typed, SessionTyped, FlagsTyped, WorldTyped, WorkTyped, TypeOK

LEMMA InitInv == Init => Typed /\ Inv
<1> SUFFICES ASSUME Init PROVE Typed /\ Inv
  OBVIOUS
<1>1. SessionTyped
  BY DEF Init, SessionTyped
<1>2. FlagsTyped
  BY Zenon DEF Init, FlagsTyped
<1>3. WorldTyped
  BY DEF Init, WorldTyped, Files, Nothing
<1>4. WorkTyped
  BY DEF Init, WorkTyped
<1>5. JobShape /\ Writing /\ Halting /\ Launching
  BY DEF Init, JobShape, Writing, Halting, Launching, NoJob
<1>6. Manifests /\ Consent /\ Fed
  BY DEF Init, Manifests, Consent, Fed, NoJob, NoRequest, Nothing
<1> QED
  BY <1>1, <1>2, <1>3, <1>4, <1>5, <1>6 DEF Typed, Inv

-----------------------------------------------------------------------------
(* The job's record: a step moves it on and keeps the rest.                   *)
Moves(step) ==
  /\ job \in Jobs /\ job' \in Jobs
  /\ job'.at = step
  /\ job'.target = job.target /\ job'.mode = job.mode /\ job'.bundle = job.bundle
  /\ job'.agreed = job.agreed /\ job'.enabled = job.enabled /\ job'.dir = job.dir

LEMMA JobIsUnderWay == ASSUME WorkTyped, job.at # "done" PROVE job \in Jobs
  BY DEF WorkTyped, NoJob

LEMMA GotoMoves ==
  ASSUME WorkTyped, job.at # "done", NEW step \in Steps, Goto(step)
  PROVE  Moves(step)
<1>1. job \in Jobs
  BY JobIsUnderWay
<1> QED
  BY <1>1 DEF Goto, Jobs, Moves

(* The three parts of the state that every step either keeps or rewrites.     *)
LEMMA Unmoved ==
  ASSUME Typed, Inv, UNCHANGED vars
  PROVE  Typed' /\ Inv'
<1>1. Typed'
  BY DEF Typed, SessionTyped, FlagsTyped, WorldTyped, WorkTyped, vars, session, flags,
         inputs, progress, processes
<1>2. Inv'
  BY DEF Inv, JobShape, Manifests, Whole, Writing, Consent, Halting, Launching, Feeding,
         Overtaken, Fed, vars, session, flags, inputs, progress, processes
<1> QED
  BY <1>1, <1>2

-----------------------------------------------------------------------------
(* What the ROS callbacks, the operator's yes and the watchdog may touch.     *)
Beside ==
  \/ Confirm \/ Scan \/ Map \/ Pose \/ InvalidPose \/ SlamError
  \/ UpdateState \/ BackendExits

Kept == <<mode, bundle, last_saved, save_failed, operation, disk, request, job>>

LEMMA BesideLeaves == ASSUME Beside PROVE UNCHANGED Kept
<1> USE DEF Kept, session, flags, inputs, progress, processes
<1>1. CASE Confirm \/ Scan \/ Map \/ Pose
  BY <1>1 DEF Confirm, Scan, Map, Pose
<1>2. CASE InvalidPose \/ SlamError
  BY <1>2 DEF InvalidPose, SlamError, Fails
<1>3. CASE UpdateState
  BY <1>3 DEF UpdateState, BackendLost, InputsLost, StartTimesOut, Fault, Ready, Located, TrialTimesOut
<1>4. CASE BackendExits
  BY <1>4 DEF BackendExits, memory
<1> QED
  BY <1>1, <1>2, <1>3, <1>4 DEF Beside

LEMMA BesideTyped == ASSUME Typed, Beside PROVE Typed'
<1>1. UNCHANGED Kept
  BY BesideLeaves
<1>2. WorkTyped'
  BY <1>1 DEF Typed, WorkTyped, Kept
<1>3. SessionTyped'
  <2> USE <1>1 DEF Typed, SessionTyped, Kept
  <2>1. CASE Confirm \/ Scan \/ Map \/ Pose
    BY <2>1 DEF Confirm, Scan, Map, Pose, session
  <2>2. CASE InvalidPose \/ SlamError
    BY <2>2 DEF InvalidPose, SlamError, Fails
  <2>3. CASE UpdateState
    BY <2>3 DEF UpdateState, BackendLost, InputsLost, StartTimesOut, Fault, Ready, Located, TrialTimesOut
  <2>4. CASE BackendExits
    BY <2>4 DEF BackendExits, memory, session
  <2> QED
    BY <2>1, <2>2, <2>3, <2>4 DEF Beside
<1>4. FlagsTyped'
  <2> USE <1>1 DEF Typed, FlagsTyped, Kept, session, flags, inputs, progress, processes, memory
  <2>1. CASE Confirm
    BY <2>1, Zenon DEF Confirm
  <2>2. CASE Scan
    BY <2>2, Zenon DEF Scan
  <2>3. CASE Map
    BY <2>3, Zenon DEF Map
  <2>4. CASE Pose
    BY <2>4, Zenon DEF Pose
  <2>5. CASE InvalidPose \/ SlamError
    BY <2>5, Zenon DEF InvalidPose, SlamError, Fails
  <2>6. CASE Fault
    BY <2>6, Zenon DEF Fault
  <2>7. CASE Ready
    BY <2>7, Zenon DEF Ready
  <2>8. CASE Located
    BY <2>8, Zenon DEF Located
  <2>9. CASE TrialTimesOut
    BY <2>9, Zenon DEF TrialTimesOut
  <2>10. CASE BackendExits
    BY <2>10, Zenon DEF BackendExits
  <2> QED
    BY <2>1, <2>2, <2>3, <2>4, <2>5, <2>6, <2>7, <2>8, <2>9, <2>10, Zenon
    DEF Beside, UpdateState, BackendLost, InputsLost, StartTimesOut
<1>5. WorldTyped'
  <2> USE <1>1 DEF Typed, WorldTyped, Kept, flags, processes, memory
  <2>1. CASE Confirm \/ Scan \/ Map \/ Pose
    BY <2>1 DEF Confirm, Scan, Map, Pose
  <2>2. CASE InvalidPose \/ SlamError
    BY <2>2 DEF InvalidPose, SlamError, Fails
  <2>3. CASE UpdateState
    BY <2>3 DEF UpdateState, BackendLost, InputsLost, StartTimesOut, Fault, Ready, Located, TrialTimesOut
  <2>4. CASE BackendExits
    BY <2>4 DEF BackendExits
  <2> QED
    BY <2>1, <2>2, <2>3, <2>4 DEF Beside
<1> QED
  BY <1>2, <1>3, <1>4, <1>5 DEF Typed

(* They leave the job and the disk alone, whatever they find.                 *)
LEMMA BesideKeepsWork ==
  ASSUME Inv, Beside
  PROVE  JobShape' /\ Manifests' /\ Writing'
<1>1. UNCHANGED Kept
  BY BesideLeaves
<1> QED
  BY <1>1 DEF Inv, Kept, JobShape, Manifests, Whole, Writing

(* The steps that say that a session has failed, been located or is ready.     *)
LEMMA BesideKeepsTask ==
  ASSUME Typed, Inv, Beside
  PROVE  Consent' /\ Halting' /\ Launching' /\ Fed'
<1> USE DEF Inv, Kept
<1>0. UNCHANGED Kept
  BY BesideLeaves
<1>1. CASE Confirm
  <2>1. /\ request = NoRequest /\ ~busy /\ phase = "CANDIDATE" /\ phase' = "CURRENT" /\ forward'
        /\ UNCHANGED <<task, busy, accepting, one_scan, have_pose, have_map, dirty, backend_started>>
    BY <1>1 DEF Confirm, flags, progress, processes
  <2>2. ~Overtaken \/ job.at = "closing"
    BY <2>1 DEF Overtaken, NoRequest
  <2>3. Consent' /\ Halting' /\ Launching'
    BY <1>0, <2>1 DEF Consent, Halting, Launching, NoRequest
  <2>4. Fed'
    BY <1>0, <2>1, <2>2 DEF Fed, Overtaken
  <2> QED
    BY <2>3, <2>4
<1>2. CASE Scan
  <2>1. /\ one_scan' = FALSE
        /\ UNCHANGED <<task, phase, busy, accepting, forward, have_pose, have_map, dirty, backend_started>>
    BY <1>2 DEF Scan, session, flags, progress, processes
  <2> QED
    BY <1>0, <2>1 DEF Consent, Halting, Launching, Fed, Overtaken, Feeding
<1>3. CASE Map
  <2>1. /\ accepting
        /\ UNCHANGED <<task, phase, busy, accepting, forward, one_scan, have_pose, dirty, backend_started>>
    BY <1>3 DEF Map, Mapping, session, flags, progress, processes
  <2> QED
    BY <1>0, <2>1 DEF Consent, Halting, Launching, Fed, Overtaken, Feeding
<1>4. CASE Pose
  <2>1. /\ accepting /\ phase' = (IF phase = "TRIAL" /\ ~one_scan THEN "CANDIDATE" ELSE phase)
        /\ UNCHANGED <<task, busy, accepting, forward, one_scan, have_map, backend_started>>
    BY <1>4 DEF Pose, Mapping, flags, processes
  <2>2. task # "STANDBY"
    BY <2>1 DEF Fed
  <2> QED
    BY <1>0, <2>1, <2>2 DEF Consent, Halting, Launching, Fed, Overtaken, Feeding
<1>5. CASE InvalidPose \/ SlamError
  <2>1. /\ accepting \/ phase \in {"LOADING", "TRIAL", "CANDIDATE"}
        /\ phase' = "FAILED" /\ forward' = FALSE /\ one_scan' = FALSE
        /\ UNCHANGED <<task, busy, accepting, have_pose, have_map, dirty, backend_started>>
    BY <1>5 DEF InvalidPose, SlamError, Fails, Mapping, flags, progress, processes
  <2> QED
    BY <1>0, <2>1 DEF Consent, Halting, Launching, Fed, Overtaken, Feeding
<1>6. CASE BackendLost \/ InputsLost \/ StartTimesOut
  <2>1. /\ \/ task \in {"STARTING", "RUNNING"} /\ backend_started
           \/ task = "RUNNING"
           \/ job.at = "done"
        /\ task \in {"STARTING", "RUNNING"} /\ task' = "FAULT"
        /\ accepting' = FALSE /\ forward' = FALSE
    BY <1>6 DEF BackendLost, InputsLost, StartTimesOut, Fault
  <2>2. job.at \notin {"spawn", "open", "halt", "closed"}
    BY <2>1 DEF Launching, Halting
  <2> QED
    BY <1>0, <2>1, <2>2 DEF Consent, Halting, Launching, Fed
<1>7. CASE Ready
  <2>1. /\ task = "STARTING" /\ accepting /\ task' = "RUNNING"
        /\ UNCHANGED <<phase, accepting, forward, one_scan>>
    BY <1>7 DEF Ready, inputs
  <2> QED
    BY <1>0, <2>1 DEF Consent, Halting, Launching, Fed
<1>8. CASE Located
  <2>1. /\ phase = "WAITING" /\ have_pose /\ phase' = "CURRENT"
        /\ UNCHANGED <<task, busy, accepting, forward, one_scan, dirty>>
    BY <1>8 DEF Located, inputs, flags, progress
  <2> QED
    BY <1>0, <2>1 DEF Consent, Halting, Launching, Fed, Overtaken, Feeding
<1>9. CASE TrialTimesOut
  <2>1. /\ phase = "TRIAL" /\ phase' = "FAILED" /\ one_scan' = FALSE
        /\ UNCHANGED <<task, busy, accepting, forward, have_pose, have_map, dirty, backend_started>>
    BY <1>9 DEF TrialTimesOut, flags, progress, processes
  <2> QED
    BY <1>0, <2>1 DEF Consent, Halting, Launching, Fed, Overtaken, Feeding
<1>10. CASE BackendExits
  <2>1. UNCHANGED <<task, phase, busy, accepting, forward, one_scan, have_pose, have_map, dirty,
                    backend_started>>
    BY <1>10 DEF BackendExits, memory, session, flags, inputs, progress
  <2> QED
    BY <1>0, <2>1 DEF Consent, Halting, Launching, Fed, Overtaken, Feeding
<1> QED
  BY <1>1, <1>2, <1>3, <1>4, <1>5, <1>6, <1>7, <1>8, <1>9, <1>10 DEF Beside, UpdateState

-----------------------------------------------------------------------------
(* The requests of the HTTP worker. *)
Asking ==
  \/ Start \/ Resume
  \/ \E acknowledged \in BOOLEAN : Restart(acknowledged) \/ End(acknowledged)
  \/ \E enabled \in BOOLEAN : Video(enabled)
  \/ \E target \in Saves : Save(target)

Standing == <<completed, mode, bundle, progress, processes, job, disk>>

(* What is written down of a request, and what it leaves to its job.          *)
LEMMA AdmitLemma ==
  ASSUME Typed, Free, NEW target \in Targets, NEW m \in {"standby", "new", "resume"},
         NEW b \in Bundles \cup {NoBundle}, NEW acknowledged \in BOOLEAN,
         NEW enabled \in BOOLEAN, Admit(target, m, b, acknowledged, enabled)
  PROVE  /\ request' \in Request /\ request'.target = target /\ request'.mode = m
         /\ request'.agreed = (acknowledged \/ ~dirty)
         /\ busy' /\ operation' \in Nat
         /\ request = NoRequest /\ UNCHANGED Standing
<1>1. (acknowledged \/ ~dirty) \in BOOLEAN
  OBVIOUS
<1>2. request' \in Request /\ request'.target = target /\ request'.mode = m
        /\ request'.agreed = (acknowledged \/ ~dirty)
  BY <1>1, SMT DEF Admit, Request
<1>3. operation' \in Nat
  BY DEF Admit, Typed, WorldTyped
<1> QED
  BY <1>2, <1>3, Zenon DEF Admit, Free, Standing

(* What the six requests have in common, and what each changes of the session. *)
Asked ==
  /\ request = NoRequest /\ request' \in Request
  /\ busy' /\ operation' \in Nat
  /\ UNCHANGED Standing
  /\ UNCHANGED <<have_pose, have_map>>

StartAsked ==
  /\ task = "STANDBY" /\ task' = "STARTING" /\ request'.target = "start"
  /\ request'.agreed = ~dirty
  /\ UNCHANGED <<phase, accepting, forward, one_scan>>

StopAsked ==
  /\ task' = "STOPPING" /\ UNCHANGED phase
  /\ accepting' = FALSE /\ forward' = FALSE /\ one_scan' = FALSE
  /\ request'.agreed
  /\ \/ request'.target = "end"
     \/ request'.target = "restart" /\ (last_saved = NoBundle => request'.mode = mode)

WorkAsked ==
  /\ request'.target \notin {"start", "restart", "end"}
  /\ UNCHANGED <<task, accepting>>
  /\ \/ task = "RUNNING" /\ UNCHANGED <<phase, forward, one_scan>>
     \/ /\ phase = "CURRENT" /\ have_map /\ phase' = "SAVING"
        /\ forward' = FALSE /\ UNCHANGED one_scan
     \/ /\ mode = "resume" /\ phase \in {"REFERENCE", "CANDIDATE"} /\ phase' = "LOADING"
        /\ forward' = FALSE /\ one_scan' = FALSE
  /\ ~busy

LEMMA AskingSteps ==
  ASSUME Typed, Asking
  PROVE  Asked /\ (StartAsked \/ StopAsked \/ WorkAsked)
<1> USE DEF Targets, Saves
<1>0. mode \in {"standby", "new", "resume"} /\ bundle \in Bundles \cup {NoBundle}
      /\ last_saved \in Bundles \cup {NoBundle}
  BY DEF Typed, SessionTyped
<1>1. ASSUME Start PROVE Asked /\ StartAsked
  <2>1. PICK m \in {"standby", "new", "resume"}, b \in Bundles \cup {NoBundle} :
          Admit("start", m, b, FALSE, FALSE)
    BY <1>1 DEF Start
  <2>2. Free
    BY <1>1 DEF Start
  <2>3. /\ request' \in Request /\ request'.target = "start"
        /\ request'.agreed = (FALSE \/ ~dirty)
        /\ busy' /\ operation' \in Nat
        /\ request = NoRequest /\ UNCHANGED Standing
    BY <2>1, <2>2, AdmitLemma
  <2> QED
    BY <1>1, <2>3 DEF Start, Asked, Standing, inputs, StartAsked
<1>2. ASSUME NEW acknowledged \in BOOLEAN, Restart(acknowledged) PROVE Asked /\ StopAsked
  <2>1. PICK m \in {"standby", "new", "resume"}, b \in Bundles \cup {NoBundle} :
          /\ Admit("restart", m, b, acknowledged, FALSE)
          /\ last_saved = NoBundle => m = mode
    BY <1>0, <1>2 DEF Restart
  <2>2. Free /\ (dirty => acknowledged)
    BY <1>2 DEF Restart
  <2>3. /\ request' \in Request /\ request'.target = "restart" /\ request'.mode = m
        /\ request'.agreed = (acknowledged \/ ~dirty)
        /\ busy' /\ operation' \in Nat
        /\ request = NoRequest /\ UNCHANGED Standing
    BY <2>1, <2>2, AdmitLemma
  <2> QED
    BY <1>2, <2>1, <2>2, <2>3 DEF Restart, StopInputs, Asked, Standing, StopAsked
<1>3. ASSUME NEW acknowledged \in BOOLEAN, End(acknowledged) PROVE Asked /\ StopAsked
  <2>1. /\ request' \in Request /\ request'.target = "end"
        /\ request'.agreed = (acknowledged \/ ~dirty)
        /\ busy' /\ operation' \in Nat
        /\ request = NoRequest /\ UNCHANGED Standing
    BY <1>0, <1>3, AdmitLemma DEF End
  <2> QED
    BY <1>3, <2>1 DEF End, StopInputs, Asked, Standing, StopAsked
<1>4. ASSUME NEW enabled \in BOOLEAN, Video(enabled) PROVE Asked /\ WorkAsked
  <2>1. /\ request' \in Request /\ request'.target = "video"
        /\ busy' /\ operation' \in Nat
        /\ request = NoRequest /\ UNCHANGED Standing
    BY <1>0, <1>4, AdmitLemma DEF Video
  <2> QED
    BY <1>4, <2>1 DEF Video, Asked, Standing, inputs, WorkAsked
<1>5. ASSUME NEW target \in Saves, Save(target) PROVE Asked /\ WorkAsked
  <2>1. /\ request' \in Request /\ request'.target = target
        /\ busy' /\ operation' \in Nat
        /\ request = NoRequest /\ UNCHANGED Standing
    BY <1>0, <1>5, AdmitLemma DEF Save
  <2> QED
    BY <1>5, <2>1 DEF Save, Asked, Standing, inputs, WorkAsked
<1>6. ASSUME Resume PROVE Asked /\ WorkAsked
  <2>1. /\ request' \in Request /\ request'.target = "resume"
        /\ busy' /\ operation' \in Nat
        /\ request = NoRequest /\ UNCHANGED Standing
    BY <1>0, <1>6, AdmitLemma DEF Resume
  <2> QED
    BY <1>6, <2>1 DEF Resume, Asked, Standing, inputs, WorkAsked
<1> QED
  BY <1>1, <1>2, <1>3, <1>4, <1>5, <1>6 DEF Asking

LEMMA AskingTyped ==
  ASSUME Typed, Asked, StartAsked \/ StopAsked \/ WorkAsked
  PROVE  Typed'
<1> USE DEF Asked, Standing, progress, processes
<1>1. SessionTyped'
  BY DEF Typed, SessionTyped, StartAsked, StopAsked, WorkAsked
<1>2. FlagsTyped'
  <2>1. busy' \in BOOLEAN /\ accepting' \in BOOLEAN /\ forward' \in BOOLEAN /\ one_scan' \in BOOLEAN
    BY DEF Typed, FlagsTyped, StartAsked, StopAsked, WorkAsked
  <2> QED
    BY <2>1 DEF Typed, FlagsTyped
<1>3. WorldTyped'
  BY DEF Typed, WorldTyped
<1>4. WorkTyped'
  BY DEF Typed, WorkTyped
<1> QED
  BY <1>1, <1>2, <1>3, <1>4 DEF Typed

LEMMA AskingKeeps ==
  ASSUME Typed, Inv, Asked, StartAsked \/ StopAsked \/ WorkAsked
  PROVE  Inv'
<1> USE DEF Inv, Asked, Standing, progress, processes
<1>1. JobShape' /\ Manifests' /\ Writing'
  BY DEF JobShape, Manifests, Whole, Writing
<1>2. Consent'
  BY DEF Consent, StartAsked, StopAsked, WorkAsked
<1>3. Halting'
  BY DEF Halting, StartAsked, StopAsked, WorkAsked
<1>4. Launching'
  BY DEF Launching, StartAsked, StopAsked, WorkAsked, NoRequest
<1>5. Fed'
  <2>1. CASE StartAsked
    BY <2>1 DEF Fed, StartAsked
  <2>2. CASE StopAsked
    BY <2>2 DEF Fed, StopAsked
  <2>3. CASE WorkAsked
    <3>1. ~Overtaken \/ job.at = "closing"
      BY <2>3 DEF Overtaken, WorkAsked, NoRequest
    <3> QED
      BY <2>3, <3>1 DEF Fed, WorkAsked, Overtaken
  <2> QED
    BY <2>1, <2>2, <2>3
<1> QED
  BY <1>1, <1>2, <1>3, <1>4, <1>5

(* job_.join(), then the job that was asked for.                             *)
LEMMA JoinKeeps ==
  ASSUME Typed, Inv, Join
  PROVE  Typed' /\ Inv'
<1> USE DEF Inv
<1>1. /\ job.at = "done" /\ request \in Request /\ request' = NoRequest
      /\ UNCHANGED <<session, flags, inputs, progress, processes, disk>>
  BY DEF Join, Typed, WorkTyped
<1>2. /\ job' \in Jobs /\ job'.target = request.target /\ job'.mode = request.mode
      /\ job'.agreed = request.agreed /\ job'.at = FirstStep(request.target)
      /\ job'.dir = NoBundle
  <2>1. /\ request.target \in Targets /\ request.mode \in {"standby", "new", "resume"}
        /\ request.bundle \in Bundles \cup {NoBundle}
        /\ request.agreed \in BOOLEAN /\ request.enabled \in BOOLEAN
    BY <1>1 DEF Request
  <2>2. FirstStep(request.target) \in Steps
    BY <2>1 DEF FirstStep, Targets, Steps
  <2> QED
    BY <2>1, <2>2 DEF Join, Jobs
<1>3. /\ request.target \in {"start", "restart"} => job'.at = "stop"
      /\ request.target = "end" => job'.at = "closing"
      /\ request.target = "video" => job'.at = "camera"
      /\ request.target \notin Lifecycle => job'.at = "wait"
  BY <1>2 DEF FirstStep, Lifecycle
<1>4. request.target \in Targets
  BY <1>1 DEF Request
<1>5. Typed'
  BY <1>1, <1>2 DEF Typed, SessionTyped, FlagsTyped, WorldTyped, WorkTyped,
    session, flags, inputs, progress, processes
<1>6. JobShape'
  BY <1>2, <1>3, <1>4 DEF JobShape, Targets, Lifecycle, Saves
<1>7. Manifests' /\ Writing'
  <2>1. job'.at \in {"stop", "closing", "camera", "wait"}
    BY <1>3, <1>4 DEF Targets, Lifecycle
  <2> QED
    BY <1>1, <1>2, <1>3, <1>4, <2>1 DEF Manifests, Whole, Writing, progress, Lifecycle
<1>8. Consent'
  BY <1>1, <1>2 DEF Consent, NoRequest, session, progress
<1>9. Halting' /\ Launching'
  BY <1>3, <1>4 DEF Halting, Launching, Targets, Lifecycle
<1>10. Fed'
  <2>1. Overtaken => Overtaken'
    BY <1>1, <1>2, <1>3 DEF Overtaken, Feeding, flags, inputs
  <2> QED
    BY <1>1, <2>1 DEF Fed, session, inputs
<1> QED
  BY <1>5, <1>6, <1>7, <1>8, <1>9, <1>10

(* After a crash there is no job, no request and no task; the disk stays.     *)
LEMMA CrashKeeps ==
  ASSUME Typed, Inv, Crash
  PROVE  Typed' /\ Inv'
<1> USE DEF Inv
<1>1. SessionTyped'
  BY DEF Crash, SessionTyped
<1>2. FlagsTyped'
  BY Zenon DEF Crash, ClearInputs, FlagsTyped
<1>3. WorldTyped'
  BY DEF Crash, Typed, WorldTyped
<1>4. WorkTyped'
  BY DEF Crash, WorkTyped
<1>5. JobShape' /\ Writing' /\ Halting' /\ Launching'
  BY DEF Crash, JobShape, Writing, Halting, Launching, NoJob
<1>6. Manifests' /\ Consent' /\ Fed'
  BY DEF Crash, ClearInputs, Manifests, Consent, Fed, NoJob, NoRequest
<1> QED
  BY <1>1, <1>2, <1>3, <1>4, <1>5, <1>6 DEF Typed

-----------------------------------------------------------------------------
(* The job thread. *)
Rest == <<session, flags, inputs, progress, processes, request, disk>>

(* A step that throws, or goes on, without an effect.                        *)
LEMMA ThrowKeeps ==
  ASSUME Typed, Inv, NEW step \in Steps, Throw(step), job.at # "done",
         \/ step = "catch" /\ job.at \in {"wait", "grid", "load", "trial"}
         \/ step = "spoil" /\ job.at \in {"graph", "mark", "commit"}
         \/ step = "load" /\ job.at = "wait" /\ job.target = "resume"
         \/ step = "grid" /\ job.at = "wait" /\ job.target \in Saves
         \/ step = "trial" /\ job.at = "load"
  PROVE  Typed' /\ Inv'
<1> USE DEF Inv
<1>1. Moves(step) /\ UNCHANGED Rest
  BY GotoMoves DEF Throw, Typed, Rest
<1>2. Typed'
  BY <1>1 DEF Typed, SessionTyped, FlagsTyped, WorldTyped, WorkTyped, Moves, Rest,
    session, flags, inputs, progress, processes
<1>3. JobShape'
  BY <1>1 DEF JobShape, Moves
<1>4. Manifests'
  BY <1>1 DEF Manifests, Whole, Rest, progress
<1>5. Writing'
  BY <1>1 DEF JobShape, Writing, Moves, Rest, progress, Saves
<1>6. Consent'
  BY <1>1 DEF Consent, Moves, Rest, session, progress
<1>7. Halting' /\ Launching'
  BY <1>1 DEF Halting, Launching, Moves
<1>8. Fed'
  <2>1. Overtaken => job.at \notin {"wait", "grid", "load", "trial", "graph", "mark", "commit"}
    BY DEF Overtaken
  <2>2. ~(task = "STOPPING" /\ Overtaken)
    BY <2>1
  <2> QED
    BY <1>1, <2>2 DEF Fed, Rest, session, inputs
<1> QED
  BY <1>2, <1>3, <1>4, <1>5, <1>6, <1>7, <1>8

(* A bundle that does not validate throws before anything has been stopped.   *)
LEMMA StopOldKeeps ==
  ASSUME Typed, Inv, StopOld
  PROVE  Typed' /\ Inv'
<1> USE DEF Inv
<1>1. /\ \/ Moves("lock") /\ backend' = "none" /\ camera' = "none"
         \/ job.mode = "resume" /\ Moves("catch") /\ UNCHANGED <<backend, camera>>
      /\ job.at = "stop"
      /\ UNCHANGED <<session, flags, inputs, progress, backend_started, video, request, disk>>
  <2>1. ASSUME NEW step \in Steps, Goto(step) PROVE Moves(step)
    BY <2>1, GotoMoves DEF StopOld, Typed
  <2> QED
    BY <2>1 DEF StopOld, Steps
<1>2. Typed'
  <2>1. SessionTyped' /\ FlagsTyped'
    BY <1>1 DEF Typed, SessionTyped, FlagsTyped, session, flags, inputs, progress
  <2>2. WorldTyped' /\ WorkTyped'
    BY <1>1 DEF Typed, WorldTyped, WorkTyped, Moves, flags
  <2> QED
    BY <2>1, <2>2 DEF Typed
<1>3. JobShape' /\ Manifests' /\ Halting' /\ Launching'
  BY <1>1 DEF JobShape, Manifests, Whole, Halting, Launching, Moves, progress
<1>4. Writing'
  BY <1>1 DEF JobShape, Writing, Moves, progress, Saves
<1>5. Consent'
  BY <1>1 DEF Consent, Moves, session, progress
<1>6. Fed'
  <2>1. Overtaken => Overtaken'
    BY <1>1 DEF Overtaken, Feeding, Moves, flags, inputs
  <2> QED
    BY <1>1, <2>1 DEF Fed, session, inputs
<1> QED
  BY <1>2, <1>3, <1>4, <1>5, <1>6

(* The state of a new task, whatever the old one left behind.                 *)
LEMMA StartLockedKeeps ==
  ASSUME Typed, Inv, StartLocked
  PROVE  Typed' /\ Inv'
<1> USE DEF Inv
<1>1. /\ Moves("spawn") /\ job.at = "lock"
      /\ accepting' = FALSE /\ forward' = FALSE /\ one_scan' = FALSE
      /\ have_pose' = FALSE /\ have_map' = FALSE
      /\ mode' = job.mode /\ bundle' = job.bundle
      /\ phase' = (IF job.mode = "resume" THEN "REFERENCE" ELSE "WAITING")
      /\ task' = "STARTING"
      /\ backend_started' = FALSE /\ video' = FALSE
      /\ dirty' = FALSE /\ save_failed' = FALSE /\ last_saved' = NoBundle
      /\ UNCHANGED <<flags, backend, camera, request, disk>>
  BY GotoMoves, Zenon DEF StartLocked, ClearInputs, Typed, Steps
<1>2. job.mode \in {"standby", "new", "resume"} /\ job.bundle \in Bundles \cup {NoBundle}
  BY <1>1 DEF Moves, Jobs
<1>3. Typed'
  <2>1. SessionTyped'
    BY <1>1, <1>2 DEF Typed, SessionTyped
  <2>2. FlagsTyped'
    BY <1>1, Zenon DEF Typed, FlagsTyped, flags
  <2>3. WorldTyped' /\ WorkTyped'
    BY <1>1 DEF Typed, WorldTyped, WorkTyped, Moves, flags
  <2> QED
    BY <2>1, <2>2, <2>3 DEF Typed
<1>4. JobShape' /\ Halting' /\ Launching'
  BY <1>1 DEF JobShape, Halting, Launching, Moves
<1>5. Manifests' /\ Writing'
  BY <1>1 DEF Manifests, Writing, Moves
<1>6. Consent' /\ Fed'
  BY <1>1 DEF Consent, Fed, Moves
<1> QED
  BY <1>3, <1>4, <1>5, <1>6

(* The back end comes up, or the start fails.                                *)
LEMMA SpawnKeeps ==
  ASSUME Typed, Inv, Spawn
  PROVE  Typed' /\ Inv'
<1> USE DEF Inv
<1>1. /\ \/ Moves("open") /\ backend' = "alive"
         \/ Moves("catch") /\ UNCHANGED backend
      /\ job.at = "spawn"
      /\ UNCHANGED <<session, flags, inputs, progress, backend_started, camera, video,
                     request, disk>>
  <2>1. ASSUME NEW step \in Steps, Goto(step) PROVE Moves(step)
    BY <2>1, GotoMoves DEF Spawn, Typed
  <2> QED
    BY <2>1 DEF Spawn, Steps
<1>2. Typed'
  <2>1. SessionTyped' /\ FlagsTyped'
    BY <1>1 DEF Typed, SessionTyped, FlagsTyped, session, flags, inputs, progress
  <2>2. WorldTyped' /\ WorkTyped'
    BY <1>1 DEF Typed, WorldTyped, WorkTyped, Moves, flags
  <2> QED
    BY <2>1, <2>2 DEF Typed
<1>3. JobShape' /\ Manifests' /\ Halting'
  BY <1>1 DEF JobShape, Manifests, Whole, Halting, Moves, progress
<1>4. Writing'
  BY <1>1 DEF JobShape, Writing, Moves, Saves
<1>5. Consent'
  BY <1>1 DEF Consent, Moves, session, progress
<1>6. Launching'
  BY <1>1 DEF Launching, Moves, session, inputs, progress, flags
<1>7. Fed'
  BY <1>1 DEF Fed, Launching, session, inputs
<1> QED
  BY <1>2, <1>3, <1>4, <1>5, <1>6, <1>7

(* The inputs open for the task that starts, overtaken or not.                *)
LEMMA OpenInputsKeeps ==
  ASSUME Typed, Inv, OpenInputs
  PROVE  Typed' /\ Inv'
<1> USE DEF Inv
<1>1. /\ Moves("done") /\ job.at = "open"
      /\ backend_started' = TRUE /\ accepting' = TRUE /\ forward' = (job.mode = "new")
      /\ UNCHANGED <<session, flags, one_scan, have_pose, have_map, progress, backend, camera,
                     video, request, disk>>
  BY GotoMoves, Zenon DEF OpenInputs, Typed, Steps
<1>2. Typed'
  <2>1. SessionTyped' /\ WorldTyped' /\ WorkTyped'
    BY <1>1 DEF Typed, SessionTyped, WorldTyped, WorkTyped, Moves, session, flags, progress
  <2>2. FlagsTyped'
    BY <1>1, Zenon DEF Typed, FlagsTyped, flags, progress
  <2> QED
    BY <2>1, <2>2 DEF Typed
<1>3. JobShape' /\ Manifests' /\ Halting' /\ Launching'
  BY <1>1 DEF JobShape, Manifests, Whole, Halting, Launching, Moves, progress
<1>4. Writing'
  BY <1>1 DEF Writing, Moves
<1>5. Consent'
  BY <1>1 DEF Consent, Moves, session, progress
<1>6. Fed'
  <2>1. task = "STOPPING" => Overtaken'
    BY <1>1 DEF Launching, Overtaken, Feeding, Moves, flags
  <2> QED
    BY <1>1, <2>1 DEF Fed, Launching, session
<1> QED
  BY <1>2, <1>3, <1>4, <1>5, <1>6

(* close_task() *)
LEMMA ClosingKeeps ==
  ASSUME Typed, Inv, Closing
  PROVE  Typed' /\ Inv'
<1> USE DEF Inv
<1>1. /\ Moves("halt") /\ job.at = "closing"
      /\ accepting' = FALSE /\ forward' = FALSE /\ one_scan' = FALSE
      /\ task' = "STOPPING" /\ phase' = "STOPPING"
      /\ UNCHANGED <<have_pose, have_map, mode, bundle, flags, progress, processes, request, disk>>
  BY GotoMoves, Zenon DEF Closing, StopInputs, Typed, Steps
<1>2. Typed'
  <2>1. SessionTyped' /\ WorldTyped' /\ WorkTyped'
    BY <1>1 DEF Typed, SessionTyped, WorldTyped, WorkTyped, Moves, flags, progress, processes
  <2>2. FlagsTyped'
    BY <1>1, Zenon DEF Typed, FlagsTyped, flags, progress, processes
  <2> QED
    BY <2>1, <2>2 DEF Typed
<1>3. JobShape' /\ Manifests' /\ Halting' /\ Launching'
  BY <1>1 DEF JobShape, Manifests, Whole, Halting, Launching, Moves, progress
<1>4. Writing'
  BY <1>1 DEF Writing, Moves, progress
<1>5. Consent' /\ Fed'
  BY <1>1 DEF Consent, Fed, Moves
<1> QED
  BY <1>2, <1>3, <1>4, <1>5

(* Both process groups end.                                                 *)
LEMMA HaltKeeps ==
  ASSUME Typed, Inv, Halt
  PROVE  Typed' /\ Inv'
<1> USE DEF Inv
<1>1. /\ Moves("closed") /\ job.at = "halt"
      /\ backend' = "none" /\ camera' = "none"
      /\ UNCHANGED <<session, flags, inputs, progress, backend_started, video, request, disk>>
  BY GotoMoves, Zenon DEF Halt, Typed, Steps
<1>2. Typed'
  <2>1. SessionTyped' /\ FlagsTyped'
    BY <1>1 DEF Typed, SessionTyped, FlagsTyped, session, flags, inputs, progress
  <2>2. WorldTyped' /\ WorkTyped'
    BY <1>1 DEF Typed, WorldTyped, WorkTyped, Moves, flags
  <2> QED
    BY <2>1, <2>2 DEF Typed
<1>3. JobShape' /\ Manifests' /\ Launching'
  BY <1>1 DEF JobShape, Manifests, Whole, Launching, Moves, progress
<1>4. Writing'
  BY <1>1 DEF Writing, Moves, progress
<1>5. Consent' /\ Halting' /\ Fed'
  BY <1>1 DEF Consent, Halting, Fed, Moves, session, progress, inputs
<1> QED
  BY <1>2, <1>3, <1>4, <1>5

(* The task is over, and whatever request waits will find STANDBY.            *)
LEMMA ClosedKeeps ==
  ASSUME Typed, Inv, Closed
  PROVE  Typed' /\ Inv'
<1> USE DEF Inv
<1>1. /\ Moves("done") /\ job.at = "closed"
      /\ accepting' = FALSE /\ forward' = FALSE /\ one_scan' = FALSE
      /\ have_pose' = FALSE /\ have_map' = FALSE
      /\ phase' = "STANDBY" /\ task' = "STANDBY" /\ mode' = "standby" /\ bundle' = NoBundle
      /\ busy' = FALSE /\ dirty' = FALSE /\ save_failed' = FALSE
      /\ video' = FALSE /\ backend_started' = FALSE
      /\ completed' = operation
      /\ UNCHANGED <<operation, last_saved, backend, camera, request, disk>>
  BY GotoMoves, Zenon DEF Closed, ClearInputs, Typed, Steps
<1>2. Typed'
  <2>1. SessionTyped' /\ WorldTyped' /\ WorkTyped'
    BY <1>1 DEF Typed, SessionTyped, WorldTyped, WorkTyped, Moves
  <2>2. FlagsTyped'
    BY <1>1, Zenon DEF Typed, FlagsTyped
  <2> QED
    BY <2>1, <2>2 DEF Typed
<1>3. JobShape' /\ Manifests' /\ Halting' /\ Launching' /\ Writing'
  BY <1>1 DEF JobShape, Manifests, Whole, Halting, Launching, Writing, Moves
<1>4. Consent' /\ Fed'
  BY <1>1 DEF Consent, Fed, Moves
<1> QED
  BY <1>2, <1>3, <1>4

(* The camera starts and stops beside the task.                              *)
LEMMA CameraStepKeeps ==
  ASSUME Typed, Inv, CameraStep
  PROVE  Typed' /\ Inv'
<1> USE DEF Inv
<1>1. /\ \/ /\ Moves("done") /\ job.enabled \in BOOLEAN
            /\ camera' = (IF job.enabled THEN "alive" ELSE "none")
            /\ video' = job.enabled /\ busy' = FALSE /\ completed' = operation
         \/ Moves("catch") /\ camera' = "none" /\ UNCHANGED <<video, busy, completed>>
      /\ job.at = "camera" /\ job.target = "video"
      /\ UNCHANGED <<session, operation, inputs, progress, backend_started, backend, request, disk>>
  <2>1. ASSUME NEW step \in Steps, Goto(step) PROVE Moves(step) /\ job.enabled \in BOOLEAN
    BY <2>1, GotoMoves DEF CameraStep, Typed, Moves, Jobs
  <2> QED
    BY <2>1 DEF CameraStep, Steps, JobShape
<1>2. Typed'
  <2>1. SessionTyped' /\ WorldTyped' /\ WorkTyped'
    BY <1>1 DEF Typed, SessionTyped, WorldTyped, WorkTyped, Moves, session, progress
  <2>2. FlagsTyped'
    BY <1>1, Zenon DEF Typed, FlagsTyped, inputs, progress
  <2> QED
    BY <2>1, <2>2 DEF Typed
<1>3. JobShape' /\ Manifests' /\ Halting' /\ Launching'
  BY <1>1 DEF JobShape, Manifests, Whole, Halting, Launching, Moves, progress
<1>4. Writing'
  BY <1>1 DEF Writing, Moves, Saves
<1>5. Consent'
  BY <1>1 DEF Consent, Moves, session, progress
<1>6. Fed'
  BY <1>1 DEF Fed, Overtaken, session, inputs
<1> QED
  BY <1>2, <1>3, <1>4, <1>5, <1>6

(* wait_stopped() has seen the robot stand, or gives up.                      *)
LEMMA WaitedKeeps ==
  ASSUME Typed, Inv, Waited \/ Load
  PROVE  Typed' /\ Inv'
<1>1. job.at # "done" /\ {"catch", "load", "grid", "trial"} \subseteq Steps
  BY DEF Waited, Load, Steps
<1> QED
  BY <1>1, ThrowKeeps DEF Waited, Load

(* A save makes a directory of its own, never one that was there.             *)
LEMMA SaveGridKeeps ==
  ASSUME Typed, Inv, SaveGrid
  PROVE  Typed' /\ Inv'
<1>1. CASE Throw("catch")
  <2>1. job.at = "grid" /\ "catch" \in Steps
    BY DEF SaveGrid, Steps
  <2> QED
    BY <1>1, <2>1, ThrowKeeps
<1>2. ASSUME NEW b \in Bundles, NEW saved \in BOOLEAN, job.at = "grid", ~disk[b].made,
             disk' = [disk EXCEPT ![b] = [Nothing EXCEPT !.made = TRUE, !.grid = saved]],
             job' = [job EXCEPT !.dir = b, !.at = IF saved THEN "graph" ELSE "spoil"],
             UNCHANGED <<session, flags, inputs, progress, processes, request>>
      PROVE  Typed' /\ Inv'
  <2> USE DEF Inv
  <2>1. /\ job \in Jobs /\ job' \in Jobs /\ job'.dir = b
        /\ job'.at = (IF saved THEN "graph" ELSE "spoil")
        /\ job'.target = job.target /\ job'.agreed = job.agreed
    <3> DEFINE step == IF saved THEN "graph" ELSE "spoil"
    <3>1. job \in Jobs /\ step \in Steps
      BY <1>2, JobIsUnderWay DEF Typed, Steps
    <3>2. job' = [job EXCEPT !.dir = b, !.at = step]
      BY <1>2
    <3> HIDE DEF step
    <3>3. /\ job' \in Jobs /\ job'.dir = b /\ job'.at = step
          /\ job'.target = job.target /\ job'.agreed = job.agreed
      BY <3>1, <3>2 DEF Jobs
    <3> QED
      BY <3>1, <3>3 DEF step
  <2>2. disk \in [Bundles -> Files]
    BY DEF Typed, WorldTyped
  <2>3. /\ disk' \in [Bundles -> Files]
        /\ disk'[b].made /\ disk'[b].grid = saved /\ ~disk'[b].complete
        /\ \A c \in Bundles \ {b} : disk'[c] = disk[c]
    BY <1>2, <2>2 DEF Files, Nothing
  <2>4. Typed'
    BY <1>2, <2>1, <2>3 DEF Typed, SessionTyped, FlagsTyped, WorldTyped, WorkTyped,
      session, flags, inputs, progress, processes
  <2>5. last_saved # b /\ last_saved' = last_saved /\ last_saved \in Bundles \cup {NoBundle}
    <3>1. last_saved' = last_saved /\ last_saved \in Bundles \cup {NoBundle}
      BY <1>2 DEF progress, Typed, SessionTyped
    <3>2. b # NoBundle
      BY ConstantsAssumption
    <3> QED
      BY <1>2, <3>1, <3>2 DEF Manifests
  <2>6. Manifests'
    BY <2>3, <2>5 DEF Manifests, Whole
  <2>7. job.target \in Saves
    BY <1>2 DEF JobShape
  <2>8. JobShape' /\ Halting' /\ Launching'
    BY <2>1, <2>7 DEF JobShape, Halting, Launching
  <2>9. Writing'
    BY <2>1, <2>3, <2>5 DEF Writing
  <2>10. Consent'
    BY <1>2, <2>1 DEF Consent, session, progress
  <2>11. Fed'
    BY <1>2 DEF Fed, Overtaken, session, inputs
  <2> QED
    BY <2>4, <2>6, <2>8, <2>9, <2>10, <2>11
<1> QED
  BY <1>1, <1>2 DEF SaveGrid

(* SaveGraph, MarkComplete and Spoil write into the directory of their save:   *)
(* what they add keeps every manifest true.                                  *)
LEMMA FilesKeep ==
  ASSUME Typed, Inv, NEW step \in Steps, NEW files \in Files,
         job.at # "done", Goto(step), job.dir \in Bundles,
         disk' = [disk EXCEPT ![job.dir] = files],
         UNCHANGED <<session, flags, inputs, progress, processes, request>>,
         files.made = disk[job.dir].made,
         \/ /\ job.at = "graph" /\ step = "mark"
            /\ files.grid = disk[job.dir].grid /\ files.graph /\ files.complete = disk[job.dir].complete
         \/ /\ job.at = "mark" /\ step = "commit"
            /\ files.grid = disk[job.dir].grid /\ files.graph = disk[job.dir].graph /\ files.complete
         \/ job.at = "spoil" /\ step = "catch" /\ ~files.complete
  PROVE  Typed' /\ Inv'
<1> USE DEF Inv
<1>1. Moves(step)
  BY GotoMoves DEF Typed
<1>2. disk \in [Bundles -> Files]
  BY DEF Typed, WorldTyped
<1>3. /\ disk' \in [Bundles -> Files] /\ disk'[job.dir] = files
      /\ \A c \in Bundles \ {job.dir} : disk'[c] = disk[c]
  BY <1>2
<1>4. Typed'
  BY <1>1, <1>3 DEF Typed, SessionTyped, FlagsTyped, WorldTyped, WorkTyped, Moves,
    session, flags, inputs, progress, processes
<1>5. /\ last_saved # job.dir /\ last_saved' = last_saved
      /\ last_saved \in Bundles \cup {NoBundle} /\ job.target \in Saves
      /\ disk[job.dir].made
      /\ job.at \in {"graph", "mark"} => disk[job.dir].grid
      /\ job.at = "mark" => disk[job.dir].graph
  BY DEF Writing, JobShape, progress, Typed, SessionTyped
<1>6. Manifests'
  <2>1. files.complete => files.grid /\ files.graph
    BY <1>5 DEF Manifests
  <2> QED
    BY <1>3, <1>5, <2>1 DEF Manifests, Whole
<1>7. JobShape' /\ Halting' /\ Launching'
  BY <1>1, <1>5 DEF JobShape, Halting, Launching, Moves
<1>8. Writing'
  BY <1>1, <1>3, <1>5 DEF Writing, Moves
<1>9. Consent'
  BY <1>1 DEF Consent, Moves, session, progress
<1>10. Fed'
  BY DEF Fed, Overtaken, session, inputs
<1> QED
  BY <1>4, <1>6, <1>7, <1>8, <1>9, <1>10

(* The steps of a save that write.                                          *)
LEMMA WriteKeeps ==
  ASSUME Typed, Inv, SaveGraph \/ MarkComplete \/ Spoil
  PROVE  Typed' /\ Inv'
<1>0. /\ job.at \in {"graph", "mark", "spoil"} /\ job.dir \in Bundles
      /\ {"graph", "mark", "spoil", "commit", "catch"} \subseteq Steps
      /\ disk[job.dir] \in Files
  BY DEF SaveGraph, MarkComplete, Spoil, Inv, Writing, Steps, Typed, WorldTyped
<1>1. CASE Throw("spoil") /\ job.at # "spoil"
  BY <1>0, <1>1, ThrowKeeps
<1>2. ASSUME job.at = "graph", disk' = [disk EXCEPT ![job.dir].graph = TRUE], Goto("mark"),
             UNCHANGED <<session, flags, inputs, progress, processes, request>>
      PROVE  Typed' /\ Inv'
  <2> DEFINE files == [disk[job.dir] EXCEPT !.graph = TRUE]
  <2>1. /\ files \in Files /\ files.graph
        /\ files.made = disk[job.dir].made /\ files.grid = disk[job.dir].grid
        /\ files.complete = disk[job.dir].complete
    BY <1>0 DEF Files
  <2>2. disk' = [disk EXCEPT ![job.dir] = files]
    BY <1>2
  <2> HIDE DEF files
  <2> QED
    BY <1>0, <1>2, <2>1, <2>2, FilesKeep
<1>3. ASSUME job.at = "mark", disk' = [disk EXCEPT ![job.dir].complete = TRUE], Goto("commit"),
             UNCHANGED <<session, flags, inputs, progress, processes, request>>
      PROVE  Typed' /\ Inv'
  <2> DEFINE files == [disk[job.dir] EXCEPT !.complete = TRUE]
  <2>1. /\ files \in Files /\ files.complete
        /\ files.made = disk[job.dir].made /\ files.grid = disk[job.dir].grid
        /\ files.graph = disk[job.dir].graph
    BY <1>0 DEF Files
  <2>2. disk' = [disk EXCEPT ![job.dir] = files]
    BY <1>3
  <2> HIDE DEF files
  <2> QED
    BY <1>0, <1>3, <2>1, <2>2, FilesKeep
<1>4. ASSUME job.at = "spoil", disk' = [disk EXCEPT ![job.dir].complete = FALSE], Goto("catch"),
             UNCHANGED <<session, flags, inputs, progress, processes, request>>
      PROVE  Typed' /\ Inv'
  <2> DEFINE files == [disk[job.dir] EXCEPT !.complete = FALSE]
  <2>1. files \in Files /\ ~files.complete /\ files.made = disk[job.dir].made
    BY <1>0 DEF Files
  <2>2. disk' = [disk EXCEPT ![job.dir] = files]
    BY <1>4
  <2> HIDE DEF files
  <2> QED
    BY <1>0, <1>4, <2>1, <2>2, FilesKeep
<1> QED
  BY <1>1, <1>2, <1>3, <1>4 DEF SaveGraph, MarkComplete, Spoil

(* A save reports success only in the phase it froze the map in.               *)
LEMMA CommitKeeps ==
  ASSUME Typed, Inv, Commit
  PROVE  Typed' /\ Inv'
<1>1. job.at = "commit" /\ {"spoil", "closing", "done"} \subseteq Steps
  BY DEF Commit, Steps
<1>2. CASE phase # "SAVING"
  BY <1>1, <1>2, ThrowKeeps DEF Commit
<1>3. CASE phase = "SAVING"
  <2> USE DEF Inv
  <2> DEFINE finish == job.target = "finish"
  <2>1. /\ Moves(IF finish THEN "closing" ELSE "done")
        /\ phase' = (IF finish THEN "STOPPING" ELSE "CURRENT")
        /\ task' = (IF finish THEN "STOPPING" ELSE task)
        /\ forward' = (job.target # "finish") /\ busy' = finish
        /\ save_failed' = FALSE /\ dirty' = FALSE /\ last_saved' = job.dir
        /\ completed' = operation
        /\ UNCHANGED <<mode, bundle, operation, accepting, one_scan, have_pose, have_map,
                       processes, request, disk>>
    <3>1. ASSUME NEW step \in Steps, Goto(step) PROVE Moves(step)
      BY <1>1, <3>1, GotoMoves DEF Typed
    <3> QED
      BY <1>1, <1>3, <3>1, Zenon DEF Commit, CommitEffects
  <2>2. /\ job.target \in Saves /\ job.dir \in Bundles /\ disk[job.dir].made
        /\ disk[job.dir].grid /\ disk[job.dir].graph /\ disk[job.dir].complete
    BY <1>1 DEF JobShape, Writing
  <2>3. Typed'
    <3>1. SessionTyped' /\ WorldTyped' /\ WorkTyped'
      BY <2>1, <2>2 DEF Typed, SessionTyped, WorldTyped, WorkTyped, Moves, processes
    <3>2. FlagsTyped'
      BY <2>1, Zenon DEF Typed, FlagsTyped, processes
    <3> QED
      BY <3>1, <3>2 DEF Typed
  <2>4. JobShape' /\ Halting' /\ Launching'
    BY <2>1, <2>2 DEF JobShape, Halting, Launching, Moves
  <2>5. Manifests' /\ Writing'
    BY <2>1, <2>2 DEF Manifests, Whole, Writing, Moves
  <2>6. Consent'
    BY <2>1, <2>2 DEF Consent, Moves, Saves
  <2>7. Fed'
    <3>1. ~Overtaken /\ (accepting => ~one_scan)
      BY <1>1, <1>3 DEF Overtaken, Fed
    <3> QED
      BY <2>1, <3>1 DEF Fed, Overtaken, Moves
  <2> QED
    BY <2>3, <2>4, <2>5, <2>6, <2>7
<1> QED
  BY <1>2, <1>3

(* A trial begins only if nothing has failed since the map was loaded.         *)
LEMMA TrialKeeps ==
  ASSUME Typed, Inv, Trial
  PROVE  Typed' /\ Inv'
<1>1. job.at = "trial" /\ {"catch", "done"} \subseteq Steps
  BY DEF Trial, Steps
<1>2. CASE phase # "LOADING"
  BY <1>1, <1>2, ThrowKeeps DEF Trial
<1>3. CASE phase = "LOADING"
  <2> USE DEF Inv
  <2>1. /\ Moves("done") /\ phase' = "TRIAL" /\ one_scan' = TRUE
        /\ busy' = FALSE /\ completed' = operation
        /\ UNCHANGED <<task, mode, bundle, operation, accepting, forward, have_pose, have_map,
                       progress, processes, request, disk>>
    BY <1>1, <1>3, GotoMoves DEF Trial, Typed
  <2>2. Typed'
    <3>1. SessionTyped' /\ WorldTyped' /\ WorkTyped'
      BY <2>1 DEF Typed, SessionTyped, WorldTyped, WorkTyped, Moves, progress, processes
    <3>2. FlagsTyped'
      BY <2>1, Zenon DEF Typed, FlagsTyped, progress, processes
    <3> QED
      BY <3>1, <3>2 DEF Typed
  <2>3. JobShape' /\ Halting' /\ Launching' /\ Manifests' /\ Writing'
    BY <2>1 DEF JobShape, Halting, Launching, Manifests, Whole, Writing, Moves, progress
  <2>4. Consent'
    BY <2>1 DEF Consent, Moves, progress
  <2>5. Fed'
    BY <1>1, <1>3, <2>1 DEF Fed, Overtaken
  <2> QED
    BY <2>2, <2>3, <2>4, <2>5
<1> QED
  BY <1>2, <1>3

(* A start, an end or a camera that failed.                                  *)
LEMMA CatchLifecycleKeeps ==
  ASSUME Typed, Inv, CatchLifecycle
  PROVE  Typed' /\ Inv'
<1> USE DEF Inv
<1>1. /\ Moves("done") /\ job.at = "catch" /\ job.target \in Lifecycle
      /\ camera' = "none" /\ busy' = FALSE /\ completed' = operation
      /\ IF job.target = "video"
         THEN video' = FALSE /\ UNCHANGED <<task, phase, accepting, forward, backend>>
         ELSE /\ backend' = "none"
              /\ task' = "FAULT" /\ phase' = "FAILED" /\ accepting' = FALSE /\ forward' = FALSE
              /\ UNCHANGED video
      /\ UNCHANGED <<mode, bundle, operation, one_scan, have_pose, have_map, progress,
                     backend_started, request, disk>>
  BY GotoMoves, Zenon DEF CatchLifecycle, Typed, Steps
<1>2. Typed'
  <2>1. SessionTyped' /\ WorldTyped' /\ WorkTyped'
    BY <1>1 DEF Typed, SessionTyped, WorldTyped, WorkTyped, Moves, progress
  <2>2. FlagsTyped'
    BY <1>1, Zenon DEF Typed, FlagsTyped, progress
  <2> QED
    BY <2>1, <2>2 DEF Typed
<1>3. JobShape' /\ Halting' /\ Launching' /\ Manifests' /\ Writing'
  BY <1>1 DEF JobShape, Halting, Launching, Manifests, Whole, Writing, Moves, progress
<1>4. Consent'
  BY <1>1 DEF Consent, Moves, progress
<1>5. Fed'
  BY <1>1 DEF Fed, Overtaken
<1> QED
  BY <1>2, <1>3, <1>4, <1>5

(* A save or a restore that failed: the session is CURRENT again only if it     *)
(* was frozen for this save all along.                                       *)
LEMMA CatchSessionKeeps ==
  ASSUME Typed, Inv, CatchSession
  PROVE  Typed' /\ Inv'
<1> USE DEF Inv
<1>1. /\ Moves("done") /\ job.at = "catch" /\ job.target \notin Lifecycle
      /\ busy' = FALSE /\ completed' = operation /\ forward' = FALSE
      /\ \/ /\ phase = "SAVING" /\ phase' = "CURRENT" /\ save_failed' = TRUE
            /\ UNCHANGED one_scan
         \/ phase' = "FAILED" /\ one_scan' = FALSE /\ UNCHANGED save_failed
      /\ UNCHANGED <<task, mode, bundle, operation, accepting, have_pose, have_map, dirty,
                     last_saved, processes, request, disk>>
  BY GotoMoves, Zenon DEF CatchSession, Typed, Steps
<1>2. Typed'
  <2>1. SessionTyped' /\ WorldTyped' /\ WorkTyped'
    BY <1>1 DEF Typed, SessionTyped, WorldTyped, WorkTyped, Moves, processes
  <2>2. FlagsTyped'
    BY <1>1, Zenon DEF Typed, FlagsTyped, processes
  <2> QED
    BY <2>1, <2>2 DEF Typed
<1>3. JobShape' /\ Halting' /\ Launching' /\ Manifests' /\ Writing'
  BY <1>1 DEF JobShape, Halting, Launching, Manifests, Whole, Writing, Moves
<1>4. Consent'
  BY <1>1 DEF Consent, Moves
<1>5. Fed'
  <2>1. ~Overtaken
    BY <1>1 DEF Overtaken, Lifecycle
  <2> QED
    BY <1>1, <2>1 DEF Fed
<1> QED
  BY <1>2, <1>3, <1>4, <1>5

-----------------------------------------------------------------------------
(* Every step of every thread keeps the invariant.                           *)
LEMMA NextKeeps ==
  ASSUME Typed, Inv, [Next]_vars
  PROVE  Typed' /\ Inv'
<1>1. CASE Beside
  <2>1. Inv'
    BY <1>1, BesideKeepsWork, BesideKeepsTask, Zenon DEF Inv
  <2> QED
    BY <1>1, <2>1, BesideTyped
<1>2. CASE Asking
  BY <1>2, AskingSteps, AskingTyped, AskingKeeps
<1>3. CASE JobStep
  BY <1>3, StopOldKeeps, StartLockedKeeps, SpawnKeeps, OpenInputsKeeps, ClosingKeeps,
     HaltKeeps, ClosedKeeps, CameraStepKeeps, WaitedKeeps, SaveGridKeeps, WriteKeeps,
     CommitKeeps, TrialKeeps, CatchLifecycleKeeps, CatchSessionKeeps
  DEF JobStep
<1>4. CASE Join
  BY <1>4, JoinKeeps
<1>5. CASE Crash
  BY <1>5, CrashKeeps
<1>6. CASE UNCHANGED vars
  BY <1>6, Unmoved
<1> QED
  BY <1>1, <1>2, <1>3, <1>4, <1>5, <1>6 DEF Next, Beside, Asking

(* Request, job, disk and feed agree in every state, for any set of bundles    *)
(* and any number of operations, faults and crashes.                         *)
THEOREM Inductive == Spec => [](Typed /\ Inv)
<1>1. Typed /\ Inv /\ [Next]_vars => Typed' /\ Inv'
  BY NextKeeps
<1> QED
  BY InitInv, <1>1, PTL DEF Spec

(* The gateway's fields keep their types.                                    *)
THEOREM TypeCorrect == Spec => []TypeOK
  BY Inductive, TypedIsTypeOK, PTL

(* Whatever fault, request or crash comes between the steps of a save, no      *)
(* manifest claims a map that is not there.                                  *)
THEOREM SavesAreWhole == Spec => []SavedIsWhole
<1>1. Inv => SavedIsWhole
  BY DEF Inv, Manifests, Whole, SavedIsWhole
<1> QED
  BY <1>1, Inductive, PTL

(* No order of requests, jobs and faults lets scans through to a task that is   *)
(* stopped, faulty, frozen or failed.                                        *)
THEOREM FedWhileMapping == Spec => []FedOnlyWhenMapping
<1>1. Inv => FedOnlyWhenMapping
  BY DEF Inv, Fed, Overtaken, Feeding, Replacing, NoRequest, FedOnlyWhenMapping
<1> QED
  BY <1>1, Inductive, PTL

-----------------------------------------------------------------------------
(* What a step may never do. *)

(* Only the job thread moves a job on or forgets progress, unless it crashes.  *)
LEMMA JobIsTheThreads ==
  ASSUME Typed, [Next]_vars, job' # NoJob
  PROVE  JobStep \/ ((Join \/ job' = job) /\ (dirty => dirty'))
<1>1. CASE Beside
  <2>1. job' = job
    BY <1>1, BesideLeaves DEF Kept
  <2>2. dirty => dirty'
    <3> USE DEF progress, memory
    <3>1. CASE Pose
      BY <3>1 DEF Pose
    <3>2. CASE Confirm \/ Scan \/ Map \/ InvalidPose \/ SlamError \/ BackendExits
      BY <3>2 DEF Confirm, Scan, Map, InvalidPose, SlamError, Fails, BackendExits
    <3>3. CASE UpdateState
      BY <3>3 DEF UpdateState, BackendLost, InputsLost, StartTimesOut, Fault, Ready,
                  Located, TrialTimesOut
    <3> QED
      BY <1>1, <3>1, <3>2, <3>3 DEF Beside
  <2> QED
    BY <2>1, <2>2
<1>2. CASE Asking
  BY <1>2, AskingSteps DEF Asked, Standing, progress
<1>3. CASE UNCHANGED vars
  BY <1>3 DEF vars, progress
<1>4. CASE Join
  BY <1>4 DEF Join, progress
<1>5. ~Crash
  BY DEF Crash
<1> QED
  BY <1>1, <1>2, <1>3, <1>4, <1>5 DEF Next, Beside, Asking

(* The steps with which a job can end.                                       *)
LEMMA JobEnds ==
  ASSUME Typed, JobStep, job'.at = "done"
  PROVE  \/ OpenInputs \/ Closed \/ CameraStep \/ Commit \/ Trial
         \/ CatchLifecycle \/ CatchSession
<1>1. ASSUME job.at # "done", NEW step \in Steps, Goto(step)
      PROVE  step = "done"
  BY <1>1, GotoMoves DEF Typed, Moves
<1>2. {"stop", "lock", "spawn", "open", "closing", "halt", "closed", "camera", "wait", "grid",
       "graph", "mark", "commit", "spoil", "load", "trial", "catch"} \subseteq Steps
  BY DEF Steps
<1>3. ~StopOld /\ ~StartLocked /\ ~Spawn /\ ~Closing /\ ~Halt
  BY <1>1, <1>2 DEF StopOld, StartLocked, Spawn, Closing, Halt
<1>4. ~Waited /\ ~SaveGraph /\ ~MarkComplete /\ ~Spoil /\ ~Load
  BY <1>1, <1>2 DEF Waited, Throw, SaveGraph, MarkComplete, Spoil, Load
<1>5. ~SaveGrid
  <2>1. ~Throw("catch") \/ job.at # "grid"
    BY <1>1, <1>2 DEF Throw
  <2>2. ASSUME job.at = "grid", NEW b \in Bundles, NEW saved \in BOOLEAN,
               job' = [job EXCEPT !.dir = b, !.at = IF saved THEN "graph" ELSE "spoil"]
        PROVE  FALSE
    <3> DEFINE step == IF saved THEN "graph" ELSE "spoil"
    <3>1. job \in Jobs /\ step # "done"
      BY <2>2, JobIsUnderWay DEF Typed
    <3>2. job' = [job EXCEPT !.dir = b, !.at = step]
      BY <2>2
    <3> HIDE DEF step
    <3>3. job'.at = step
      BY <3>1, <3>2 DEF Jobs
    <3> QED
      BY <3>1, <3>3
  <2> QED
    BY <2>1, <2>2 DEF SaveGrid
<1> QED
  BY <1>3, <1>4, <1>5 DEF JobStep

(* A save that did not report success leaves no directory that counts.        *)
THEOREM RefusedSpoils == Spec => RefusedIsSpoilt
<1>1. ASSUME Typed, Inv, [Next]_vars, NEW b \in Bundles,
             job.at # "done", job'.at = "done", job.target \in Saves, job.dir = b,
             disk'[b].complete, job' # NoJob
      PROVE  last_saved' = b
  <2>1. JobStep
    BY <1>1, JobIsTheThreads DEF Join
  <2>2. job.at \notin {"open", "camera", "trial"} /\ job.target \notin Lifecycle
    BY <1>1 DEF Inv, JobShape, Saves, Lifecycle
  <2>3. Closed \/ Commit \/ CatchSession
    BY <1>1, <2>1, <2>2, JobEnds DEF OpenInputs, CameraStep, Trial, CatchLifecycle
  <2>4. CASE Closed
    <3>1. job.target = "finish"
      BY <1>1, <2>4 DEF Closed, Inv, JobShape, Saves
    <3> QED
      BY <1>1, <2>4, <3>1 DEF Closed, Inv, Writing
  <2>5. CASE Commit
    <3>1. ~Throw("spoil")
      <4>1. "spoil" \in Steps
        BY DEF Steps
      <4> QED
        BY <1>1, <4>1, GotoMoves DEF Throw, Typed, Moves
    <3> QED
      BY <1>1, <2>5, <3>1 DEF Commit, CommitEffects
  <2>6. CASE CatchSession
    <3>1. job.dir # NoBundle
      BY <1>1, ConstantsAssumption
    <3> QED
      BY <1>1, <2>6, <3>1 DEF CatchSession, Inv, Writing
  <2> QED
    BY <2>3, <2>4, <2>5, <2>6
<1>2. Typed /\ Inv /\ [Next]_vars =>
        [\A b \in Bundles :
           job.at # "done" /\ job'.at = "done" /\ job.target \in Saves /\ job.dir = b
             /\ disk'[b].complete /\ job' # NoJob
           => last_saved' = b]_vars
  BY <1>1
<1> QED
  BY <1>2, Inductive, PTL DEF Spec, RefusedIsSpoilt

(* Unsaved progress goes in three places: a start that replaces the task, the   *)
(* end of a task, and a save.                                                *)
LEMMA ProgressGoes ==
  ASSUME Typed, Inv, [Next]_vars, dirty, ~dirty', job' # NoJob
  PROVE  StartLocked \/ Closed \/ (Commit /\ last_saved' = job.dir)
<1> USE DEF progress
<1>1. JobStep
  BY JobIsTheThreads
<1>2. ~StopOld /\ ~Spawn /\ ~OpenInputs /\ ~Closing /\ ~Halt /\ ~CameraStep /\ ~Trial
  BY DEF StopOld, Spawn, OpenInputs, Closing, Halt, CameraStep, Trial, Throw
<1>3. ~Waited /\ ~SaveGrid /\ ~SaveGraph /\ ~MarkComplete /\ ~Spoil /\ ~Load
  BY DEF Waited, Throw, SaveGrid, SaveGraph, MarkComplete, Spoil, Load
<1>4. ~CatchLifecycle /\ ~CatchSession
  BY DEF CatchLifecycle, CatchSession
<1>5. Commit => last_saved' = job.dir
  BY DEF Commit, CommitEffects, Throw
<1> QED
  BY <1>1, <1>2, <1>3, <1>4, <1>5 DEF JobStep

(* Whatever overtakes a start, a save or an end, progress is lost only with the *)
(* operator's yes.                                                           *)
THEOREM ProgressIsKept == Spec => NoSilentLoss
<1>1. ASSUME Typed, Inv, [Next]_vars, dirty, ~dirty', job' # NoJob
      PROVE  job.agreed \/ (last_saved' # NoBundle /\ Whole(last_saved'))
  <2> USE DEF Inv
  <2>1. StartLocked \/ Closed \/ (Commit /\ last_saved' = job.dir)
    BY <1>1, ProgressGoes
  <2>2. CASE StartLocked
    BY <1>1, <2>2 DEF StartLocked, JobShape, Consent
  <2>3. CASE Closed
    <3>1. CASE job.target = "end"
      BY <1>1, <3>1 DEF Consent
    <3>2. CASE job.target = "finish"
      <4>1. last_saved' = last_saved /\ last_saved \in Bundles
        BY <1>1, <2>3, <3>2 DEF Closed, Writing
      <4>2. last_saved # NoBundle
        BY <4>1, ConstantsAssumption
      <4> QED
        BY <1>1, <4>1, <4>2 DEF Manifests, Whole
    <3> QED
      BY <1>1, <2>3, <3>1, <3>2 DEF Closed, JobShape
  <2>4. CASE Commit /\ last_saved' = job.dir
    <3>1. /\ job.dir \in Bundles /\ disk[job.dir].complete
          /\ disk[job.dir].grid /\ disk[job.dir].graph
      BY <1>1, <2>4 DEF Commit, Writing
    <3>2. job.dir # NoBundle
      BY <3>1, ConstantsAssumption
    <3> QED
      BY <2>4, <3>1, <3>2 DEF Whole
  <2> QED
    BY <2>1, <2>2, <2>3, <2>4
<1>2. Typed /\ Inv /\ [Next]_vars =>
        [dirty /\ ~dirty' /\ job' # NoJob =>
           job.agreed \/ (last_saved' # NoBundle /\ Whole(last_saved'))]_vars
  BY <1>1
<1> QED
  BY <1>2, Inductive, PTL DEF Spec, NoSilentLoss

(* No step of a job, callback or request takes a failed session up again.      *)
THEOREM FailedStaysFailed == Spec => FailureIsFinal
<1>1. ASSUME Typed, Inv, [Next]_vars, phase = "FAILED", phase' # "FAILED", job' # NoJob
      PROVE  job.at \in {"lock", "closing"}
  <2> USE <1>1 DEF session
  <2>1. ~Beside
    <3>1. ~(Confirm \/ Scan \/ Map \/ Pose \/ InvalidPose \/ SlamError \/ BackendExits)
      BY DEF Confirm, Scan, Map, Pose, InvalidPose, SlamError, Fails, BackendExits, memory
    <3>2. ~UpdateState
      BY DEF UpdateState, BackendLost, InputsLost, StartTimesOut, Fault, Ready,
             Located, TrialTimesOut
    <3> QED
      BY <3>1, <3>2 DEF Beside
  <2>2. ~Asking
    BY AskingSteps DEF StartAsked, StopAsked, WorkAsked
  <2>3. ~Join /\ ~Crash /\ ~(UNCHANGED vars)
    BY DEF Join, Crash, vars
  <2>4. JobStep
    BY <2>1, <2>2, <2>3 DEF Next, Beside, Asking
  <2>5. ~StopOld /\ ~Spawn /\ ~OpenInputs /\ ~Halt /\ ~CameraStep
    BY DEF StopOld, Spawn, OpenInputs, Halt, CameraStep
  <2>6. ~Closed
    BY DEF Closed, Inv, Halting
  <2>7. ~Waited /\ ~SaveGrid /\ ~SaveGraph /\ ~MarkComplete /\ ~Spoil /\ ~Load
    BY DEF Waited, Throw, SaveGrid, SaveGraph, MarkComplete, Spoil, Load
  <2>8. ~Commit /\ ~Trial /\ ~CatchLifecycle /\ ~CatchSession
    BY DEF Commit, Trial, Throw, CatchLifecycle, CatchSession
  <2> QED
    BY <2>4, <2>5, <2>6, <2>7, <2>8 DEF JobStep, StartLocked, Closing
<1>2. Typed /\ Inv /\ [Next]_vars =>
        [phase = "FAILED" /\ phase' # "FAILED" /\ job' # NoJob =>
           job.at \in {"lock", "closing"}]_vars
  BY <1>1
<1> QED
  BY <1>2, Inductive, PTL DEF Spec, FailureIsFinal
=============================================================================
