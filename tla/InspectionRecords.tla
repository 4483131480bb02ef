--------------------------- MODULE InspectionRecords ---------------------------
(***************************************************************************)
(* What an inspection leaves behind: the record of each run in SQLite, the     *)
(* photo files and the queue of uploads, against crashes, power cuts, failed   *)
(* writes, repeated requests and a peer whose answers get lost.               *)
(*                                                                          *)
(* Two threads of the console write: tick() runs the inspection and takes the   *)
(* photos, one durable step after the other, and the upload thread offers the  *)
(* first pending photo to the peer.  One statement of SQLite is one step, and   *)
(* what it has committed survives a power cut (journal WAL, synchronous FULL).  *)
(* Any write may fail.  How the car gets to its points is in InspectionRun;    *)
(* here a run may end in any way at any time between two photos.              *)
(***************************************************************************)
EXTENDS Naturals, FiniteSets

CONSTANTS
  Requests,        \* identifiers an operator's page gives its start requests
  Points,          \* points of the task
  Photos,          \* names photos may get, in the order of the queue
  MaxFailures      \* crashes and power cuts together (bound)

ASSUME ConstantsAssumption == Photos \subseteq Nat /\ MaxFailures \in Nat

NoRequest == "no request"
NoPhoto == 0 - 1
NoCaptures == [point \in Points |-> NoPhoto]
NoRecord == [status |-> "none", captures |-> NoCaptures]

VARIABLES
  runs,        \* per request, the record of its run
  files,       \* per photo, what has become of its file
  uploads,     \* per photo, its row in the queue
  run, captures, status, \* run_: the record as the process has it
  phase,       \* the executor's phase
  terminal,    \* pending_terminal_
  shot,        \* the photo being taken, and how far it is
  configured,  \* an upload_url was given to this process
  sending, answer,       \* the upload thread: a photo on its way, what came back
  failures,
  begun, of    \* observers: starts per request; whose photo it is

disk == <<runs, files, uploads>>
memory == <<run, captures, status, phase, terminal, shot>>
upload == <<sending, answer>>
observers == <<begun, of>>
vars == <<disk, memory, configured, upload, failures, observers>>

Active == {"RUNNING", "PAUSED", "PAUSING", "CANCELING", "STOPPING"}
Final == {"SUCCEEDED", "CANCELED", "FAILED", "LOCKED"}
NoShot == [at |-> "none"]

TypeOK ==
  /\ runs \in [Requests -> [status: {"none", "INTERRUPTED"} \cup Active \cup Final,
                            captures: [Points -> Photos \cup {NoPhoto}]]]
  /\ files \in [Photos -> {"none", "written", "synced", "renamed", "kept", "torn"}]
  /\ uploads \in [Photos -> {"none", "PENDING", "PENDING_CONFIGURATION", "CONFIRMED"}]
  /\ run \in Requests \cup {NoRequest}
  /\ captures \in [Points -> Photos \cup {NoPhoto}]
  /\ status \in {"none"} \cup Active \cup Final
  /\ phase \in {"IDLE", "RUNNING", "PAUSED"}
  /\ terminal \in {"", "PAUSED", "CANCELED", "FAILED"}
  /\ shot.at \in {"none", "write", "sync", "rename", "link", "queue", "record"}
  /\ configured \in BOOLEAN
  /\ sending \in Photos \cup {NoPhoto} /\ answer \in {"none", "confirmed", "other"}
  /\ failures \in 0..MaxFailures
  /\ begun \in [Requests -> Nat]

-----------------------------------------------------------------------------
(* persist_run(), of captures that do not change: the process changes its own   *)
(* copy first; the write may fail.                                           *)
Persist(word, written) ==
  /\ status' = word
  /\ runs' = IF written THEN [runs EXCEPT ![run] = [status |-> word, captures |-> captures]]
             ELSE runs

BetweenSteps == shot = NoShot

(* A start that sets the car in motion before it writes the record.           *)
StartBeforeRecord(r) ==
  /\ BetweenSteps /\ runs[r] = NoRecord
  /\ phase = "IDLE" /\ terminal = ""
  /\ run' = r /\ captures' = NoCaptures /\ status' = "RUNNING"
  /\ phase' = "RUNNING" /\ begun' = [begun EXCEPT ![r] = @ + 1]
  /\ \/ runs' = [runs EXCEPT ![r] = [NoRecord EXCEPT !.status = "RUNNING"]]
     \/ UNCHANGED runs
  /\ UNCHANGED <<files, uploads, terminal, shot, configured, upload, failures, of>>

(* command(), run/start: a request that has a record gets that record, and      *)
(* nothing happens; else the record is written, then the executor starts.      *)
Start(r) ==
  /\ BetweenSteps /\ runs[r] = NoRecord
  /\ phase = "IDLE" /\ terminal = ""
  /\ run' = r /\ captures' = NoCaptures /\ status' = "RUNNING"
  /\ \/ /\ runs' = [runs EXCEPT ![r] = [NoRecord EXCEPT !.status = "RUNNING"]]
        /\ phase' = "RUNNING" /\ begun' = [begun EXCEPT ![r] = @ + 1]
     \/ UNCHANGED <<runs, phase, begun>>
  /\ UNCHANGED <<files, uploads, terminal, shot, configured, upload, failures, of>>

(* A halted run waits for the car to stand; the executor is paused or idle.    *)
Stops(word, end, written) ==
  /\ phase' = IF end = "PAUSED" THEN "PAUSED" ELSE "IDLE"
  /\ terminal' = end
  /\ Persist(word, written)
  /\ UNCHANGED <<files, uploads, run, configured, upload, failures, observers>>

Pause(written) ==
  /\ BetweenSteps /\ phase = "RUNNING"
  /\ Stops("PAUSING", "PAUSED", written) /\ UNCHANGED <<captures, shot>>

Cancel(written) ==
  /\ BetweenSteps /\ phase \in {"RUNNING", "PAUSED"}
  /\ Stops("CANCELING", "CANCELED", written) /\ UNCHANGED <<captures, shot>>

(* A step that throws: the catch of tick().  The record may not be writable.   *)
StepThrows(written) ==
  /\ phase = "RUNNING"
  /\ Stops("STOPPING", "FAILED", written) /\ shot' = NoShot /\ UNCHANGED captures

Resume(written) ==
  /\ BetweenSteps /\ phase = "PAUSED" /\ status = "PAUSED" /\ terminal = ""
  /\ phase' = "RUNNING" /\ Persist("RUNNING", written)
  /\ UNCHANGED <<files, uploads, run, captures, terminal, shot, configured, upload,
                 failures, observers>>

(* tick(): the car stands, or could not be confirmed to within 10 s.  A write  *)
(* that fails is not tried again.                                            *)
Settle(written) ==
  /\ BetweenSteps /\ terminal # ""
  /\ terminal' = ""
  /\ Persist(terminal, written) \/ Persist("LOCKED", written)
  /\ UNCHANGED <<files, uploads, run, captures, phase, shot, configured, upload,
                 failures, observers>>

(* The last parking is reached; points without a photo were missed.           *)
Succeed(written) ==
  /\ BetweenSteps /\ phase = "RUNNING"
  /\ phase' = "IDLE" /\ Persist("SUCCEEDED", written)
  /\ UNCHANGED <<files, uploads, run, captures, terminal, shot, configured, upload,
                 failures, observers>>

-----------------------------------------------------------------------------
(* save_photo() and the capture step, one durable step at a time.             *)

Taking == UNCHANGED <<run, status, phase, terminal, configured, upload, failures,
                      begun>>

(* A new name, for a point that has no photo in this run.                     *)
Write(point, p) ==
  /\ BetweenSteps /\ phase = "RUNNING" /\ captures[point] = NoPhoto
  /\ files[p] = "none" /\ uploads[p] = "none"
  /\ files' = [files EXCEPT ![p] = "written"]
  /\ shot' = [at |-> "write", photo |-> p, point |-> point]
  /\ of' = [of EXCEPT ![p] = <<run, point>>]
  /\ Taking /\ UNCHANGED <<runs, uploads, captures>>

FileStep(from, to, word) ==
  /\ shot.at = from
  /\ shot' = [shot EXCEPT !.at = to]
  /\ files' = [files EXCEPT ![shot.photo] = word]
  /\ Taking /\ UNCHANGED <<runs, uploads, captures, of>>

Sync == FileStep("write", "sync", "synced")

(* A photo whose directory entry is not made durable.                         *)
RenameOnly == FileStep("sync", "link", "renamed")

Rename == FileStep("sync", "rename", "renamed")

SyncDirectory == FileStep("rename", "link", "kept")

(* enqueue_upload() *)
Enqueue ==
  /\ shot.at = "link"
  /\ shot' = [shot EXCEPT !.at = "queue"]
  /\ uploads' = [uploads EXCEPT ![shot.photo] =
                   IF configured THEN "PENDING" ELSE "PENDING_CONFIGURATION"]
  /\ Taking /\ UNCHANGED <<runs, files, captures, of>>

(* The run's record names the photo; a failure to write it fails the run.      *)
Record ==
  /\ shot.at = "queue"
  /\ captures' = [captures EXCEPT ![shot.point] = shot.photo]
  /\ \/ /\ shot' = NoShot
        /\ runs' = [runs EXCEPT ![run] = [status |-> "RUNNING", captures |-> captures']]
     \/ shot' = [shot EXCEPT !.at = "record"] /\ UNCHANGED runs
  /\ Taking /\ UNCHANGED <<files, uploads, of>>

TakePhoto ==
  \/ \E point \in Points, p \in Photos : Write(point, p)
  \/ Sync \/ Rename \/ SyncDirectory \/ Enqueue \/ Record

-----------------------------------------------------------------------------
(* The upload thread and the peer. *)

Pending == {p \in Photos : uploads[p] = "PENDING"}

(* next_upload(): the first in the queue. *)
Offer ==
  /\ configured /\ sending = NoPhoto
  /\ \E p \in Pending : (\A q \in Pending : p <= q) /\ sending' = p
  /\ answer' = "none"
  /\ UNCHANGED <<disk, memory, configured, failures, observers>>

(* The peer has the photo and says so, with its number and checksum.          *)
PeerAccepts(p) ==
  /\ sending = p /\ answer = "none"
  /\ answer' = "confirmed"
  /\ UNCHANGED <<disk, memory, configured, sending, failures, observers>>

(* No connection, 3 s without an answer, another status, another checksum, a   *)
(* file that cannot be read.  The peer may have got the photo all the same.    *)
PeerFails ==
  /\ sending # NoPhoto /\ answer = "none"
  /\ answer' = "other"
  /\ UNCHANGED <<disk, memory, configured, sending, failures, observers>>

(* An upload that was not confirmed is taken out of the queue.                *)
FinishGivesUp ==
  /\ answer # "none"
  /\ uploads' = [uploads EXCEPT ![sending] =
                   IF answer = "confirmed" THEN "CONFIRMED" ELSE "PENDING_CONFIGURATION"]
  /\ sending' = NoPhoto /\ answer' = "none"
  /\ UNCHANGED <<runs, files, memory, configured, failures, observers>>

(* finish_upload() *)
Finish ==
  /\ answer # "none"
  /\ uploads' = [uploads EXCEPT ![sending] =
                   IF answer = "confirmed" THEN "CONFIRMED" ELSE "PENDING"]
  /\ sending' = NoPhoto /\ answer' = "none"
  /\ UNCHANGED <<runs, files, memory, configured, failures, observers>>

(* The row cannot be written: the thread goes on as if nothing had happened.   *)
FinishThrows ==
  /\ answer # "none"
  /\ sending' = NoPhoto /\ answer' = "none"
  /\ UNCHANGED <<disk, memory, configured, failures, observers>>

-----------------------------------------------------------------------------
(* What a power cut leaves of a file that was not yet made durable.           *)
Remains(file) ==
  CASE file = "written" -> {"none", "torn"}
    [] file = "synced" -> {"none", "synced"}
    [] file = "renamed" -> {"none", "synced", "renamed"}
    [] OTHER -> {file}

(* The process is gone and started again, perhaps with another configuration:   *)
(* the constructor of the store marks what was under way as interrupted.       *)
Restart(left) ==
  /\ failures < MaxFailures /\ failures' = failures + 1
  /\ files' = left
  /\ runs' = [r \in Requests |->
                IF runs[r].status \in Active THEN [runs[r] EXCEPT !.status = "INTERRUPTED"]
                ELSE runs[r]]
  /\ run' = NoRequest /\ captures' = NoCaptures /\ status' = "none"
  /\ phase' = "IDLE" /\ terminal' = "" /\ shot' = NoShot
  /\ sending' = NoPhoto /\ answer' = "none"
  /\ configured' \in BOOLEAN
  /\ UNCHANGED <<uploads, observers>>

Crash == Restart(files)

PowerCut ==
  \E left \in [Photos -> {"none", "torn", "synced", "renamed", "written", "kept"}] :
    /\ \A p \in Photos : left[p] \in Remains(files[p])
    /\ Restart(left)

Init ==
  /\ runs = [r \in Requests |-> NoRecord]
  /\ files = [p \in Photos |-> "none"] /\ uploads = [p \in Photos |-> "none"]
  /\ run = NoRequest /\ captures = NoCaptures /\ status = "none"
  /\ phase = "IDLE" /\ terminal = "" /\ shot = NoShot
  /\ configured \in BOOLEAN
  /\ sending = NoPhoto /\ answer = "none"
  /\ failures = 0
  /\ begun = [r \in Requests |-> 0] /\ of = [p \in Photos |-> <<>>]

Next ==
  \/ \E r \in Requests : Start(r)
  \/ \E written \in BOOLEAN :
       Pause(written) \/ Cancel(written) \/ StepThrows(written) \/ Resume(written)
         \/ Settle(written) \/ Succeed(written)
  \/ TakePhoto
  \/ Offer \/ (\E p \in Photos : PeerAccepts(p)) \/ PeerFails \/ Finish \/ FinishThrows
  \/ Crash \/ PowerCut

(* The upload thread runs.  A peer that is offered a photo again and again      *)
(* takes it some day and says so, and some day that can be written down.        *)
Spec ==
  /\ Init /\ [][Next]_vars
  /\ WF_vars(Offer \/ Finish \/ FinishThrows) /\ SF_vars(Finish /\ answer = "confirmed")
  /\ \A p \in Photos : SF_vars(PeerAccepts(p))

-----------------------------------------------------------------------------
(* Properties *)

Named(r) == {runs[r].captures[point] : point \in Points} \ {NoPhoto}

(* What the records say is true, whatever was cut off in the middle: a photo     *)
(* that a run or the queue names is on disk whole and under its final name.     *)
RecordsAreTrue ==
  \A p \in Photos :
    uploads[p] # "none" \/ (\E r \in Requests : p \in Named(r)) => files[p] = "kept"

(* However often a start is repeated, and whatever crashes or pauses come in     *)
(* between, a request drives the car once, and a run queues at most one photo   *)
(* of each point.                                                            *)
NothingTwice ==
  /\ \A r \in Requests : begun[r] <= 1
  /\ \A p, q \in Photos :
       uploads[p] # "none" /\ uploads[q] # "none" /\ of[p] = of[q] => p = q

(* A photo that is waiting to be sent is confirmed in the end, unless the car   *)
(* comes up without an upload address: no photo is lost from the queue.        *)
UploadsEnd ==
  \A p \in Photos :
    uploads[p] = "PENDING" /\ configured ~> uploads[p] = "CONFIRMED" \/ ~configured
=============================================================================
