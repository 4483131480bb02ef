------------------------ MODULE InspectionRecords_proof ------------------------
(***************************************************************************)
(* Proofs about the records of an inspection, for any number of requests,     *)
(* points, photos, crashes and power cuts.                                   *)
(***************************************************************************)
EXTENDS InspectionRecords, TLAPS

Shots ==
  [at: {"write", "sync", "rename", "link", "queue", "record"}, photo: Photos, point: Points]

Records ==
  [status: {"none", "INTERRUPTED"} \cup Active \cup Final,
   captures: [Points -> Photos \cup {NoPhoto}]]

Typed ==
  /\ TypeOK
  /\ shot = NoShot \/ shot \in Shots
  /\ of \in [Photos -> {<<>>} \cup (Requests \X Points)]

(* The types, in the groups the steps change them.                            *)
DiskTyped ==
  /\ runs \in [Requests -> Records]
  /\ files \in [Photos -> {"none", "written", "synced", "renamed", "kept", "torn"}]
  /\ uploads \in [Photos -> {"none", "PENDING", "PENDING_CONFIGURATION", "CONFIRMED"}]

MemoryTyped ==
  /\ run \in Requests \cup {NoRequest}
  /\ captures \in [Points -> Photos \cup {NoPhoto}]
  /\ status \in {"none"} \cup Active \cup Final
  /\ phase \in {"IDLE", "RUNNING", "PAUSED"}
  /\ terminal \in {"", "PAUSED", "CANCELED", "FAILED"}

ShotTyped ==
  /\ shot.at \in {"none", "write", "sync", "rename", "link", "queue", "record"}
  /\ shot = NoShot \/ shot \in Shots

OthersTyped ==
  /\ configured \in BOOLEAN
  /\ sending \in Photos \cup {NoPhoto} /\ answer \in {"none", "confirmed", "other"}
  /\ failures \in 0..MaxFailures
  /\ begun \in [Requests -> Nat]
  /\ of \in [Photos -> {<<>>} \cup (Requests \X Points)]

(* A run under way, or one that is settling, has a record; photos are taken     *)
(* only while it drives.                                                     *)
UnderWay ==
  /\ phase # "IDLE" \/ terminal # "" => run \in Requests /\ runs[run].status # "none"
  /\ shot # NoShot => phase = "RUNNING"

(* Whatever is named anywhere is on disk; the photo that is being taken is as   *)
(* far as its last step brought it.                                          *)
Reached(at) ==
  CASE at = "write" -> "written"
    [] at = "sync" -> "synced"
    [] at = "rename" -> "renamed"
    [] OTHER -> "kept"

Kept(named) == \A point \in Points : named[point] # NoPhoto => files[named[point]] = "kept"

OnDisk ==
  /\ \A p \in Photos : uploads[p] # "none" => files[p] = "kept"
  /\ \A r \in Requests : Kept(runs[r].captures)
  /\ Kept(captures)
  /\ shot # NoShot => files[shot.photo] = Reached(shot.at)

(* A request without a record has not driven the car.                         *)
Driven ==
  \A r \in Requests : begun[r] <= 1 /\ (runs[r].status = "none" => begun[r] = 0)

(* A photo in the queue belongs to a run that has a record.                    *)
Owned ==
  \A p \in Photos, r \in Requests, point \in Points :
    uploads[p] # "none" /\ of[p] = <<r, point>> => runs[r].status # "none"

(* What the run under way has queued it knows of, or is just about to.        *)
Known ==
  phase # "IDLE" =>
    \A p \in Photos, point \in Points :
      uploads[p] # "none" /\ of[p] = <<run, point>> =>
        captures[point] = p \/ (shot.at = "queue" /\ shot.photo = p /\ shot.point = point)

InHand ==
  shot # NoShot =>
    /\ of[shot.photo] = <<run, shot.point>>
    /\ shot.at # "record" => captures[shot.point] = NoPhoto
    /\ shot.at \notin {"queue", "record"} => uploads[shot.photo] = "none"

Single ==
  \A p, q \in Photos :
    uploads[p] # "none" /\ uploads[q] # "none" /\ of[p] = of[q] => p = q

Sending == sending \in Photos => uploads[sending] # "none"

Inv == UnderWay /\ OnDisk /\ Driven /\ Owned /\ Known /\ InHand /\ Single /\ Sending

LEMMA NoPhotoIsNone == NoPhoto \notin Photos
  BY ConstantsAssumption DEF NoPhoto

LEMMA TypedGroups ==
  ASSUME Typed PROVE DiskTyped /\ MemoryTyped /\ ShotTyped /\ OthersTyped
  BY Zenon DEF Typed, TypeOK, DiskTyped, MemoryTyped, ShotTyped, OthersTyped, Records

LEMMA GroupsTyped ==
  ASSUME DiskTyped', MemoryTyped', ShotTyped', OthersTyped' PROVE Typed'
  BY Zenon DEF Typed, TypeOK, DiskTyped, MemoryTyped, ShotTyped, OthersTyped, Records

(* A shot that is none, or one of the kinds, is at one of the steps.           *)
LEMMA ShotIsTyped ==
  ASSUME shot' = NoShot \/ shot' \in Shots PROVE ShotTyped'
<1>1. CASE shot' = NoShot
  BY <1>1 DEF ShotTyped, NoShot
<1>2. CASE shot' \in Shots
  <2>1. shot'.at \in {"write", "sync", "rename", "link", "queue", "record"}
    BY <1>2 DEF Shots
  <2> QED
    BY <1>2, <2>1 DEF ShotTyped
<1> QED
  BY <1>1, <1>2

LEMMA InitInv == Init => Typed /\ Inv
<1> SUFFICES ASSUME Init PROVE Typed /\ Inv
  OBVIOUS
<1>1. Typed
  <2>1. NoCaptures \in [Points -> Photos \cup {NoPhoto}]
    BY DEF NoCaptures
  <2>2. NoRecord \in Records
    BY <2>1 DEF NoRecord, Records
  <2>3. 0 \in 0..MaxFailures
    BY ConstantsAssumption
  <2> QED
    BY <2>1, <2>2, <2>3 DEF Init, Typed, TypeOK, NoShot, Records
<1>2. UnderWay /\ Known /\ InHand /\ Sending
  BY NoPhotoIsNone DEF Init, UnderWay, Known, InHand, Sending
<1>4. Driven
  <2>1. \A r \in Requests : begun[r] = 0
    BY DEF Init
  <2> QED
    BY <2>1 DEF Driven
<1>5. \A p \in Photos : uploads[p] = "none"
  BY DEF Init
<1>6. Owned /\ Single
  BY <1>5 DEF Owned, Single
<1>3. OnDisk
  BY DEF Init, OnDisk, Kept, NoRecord, NoCaptures
<1> QED
  BY <1>1, <1>2, <1>3, <1>4, <1>6 DEF Inv

(* The writes of the run's record that take no photo.                         *)
Writing ==
  /\ UNCHANGED <<files, uploads, run, captures, configured, upload, failures, observers>>
  /\ phase # "IDLE" \/ terminal # ""
  /\ phase' \in {"IDLE", "RUNNING", "PAUSED"} /\ terminal' \in {"", "PAUSED", "CANCELED", "FAILED"}
  /\ phase' # "IDLE" => phase # "IDLE" /\ shot = NoShot
  /\ shot' = NoShot
  /\ status' \in Active \cup Final
  /\ runs' = runs \/ runs' = [runs EXCEPT ![run] = [status |-> status', captures |-> captures]]

LEMMA WritingSteps ==
  ASSUME Typed, Inv, NEW written \in BOOLEAN,
         Pause(written) \/ Cancel(written) \/ StepThrows(written) \/ Resume(written)
           \/ Settle(written) \/ Succeed(written)
  PROVE  Writing
  BY DEF Typed, TypeOK, Inv, UnderWay, Writing, Pause, Cancel, StepThrows, Resume, Settle, Succeed,
         Stops, Persist, BetweenSteps, NoShot, Active, Final

LEMMA WritingKeeps == ASSUME Typed, Inv, Writing PROVE Typed' /\ Inv'
<1> USE DEF upload, observers
<1>1. run \in Requests /\ runs[run].status # "none"
  BY DEF Inv, UnderWay, Writing
<1> DEFINE record == [status |-> status', captures |-> captures]
<1>2. record \in Records /\ record.status # "none" /\ record.captures = captures
  BY DEF Typed, TypeOK, Writing, Records, Active, Final
<1>3. runs \in [Requests -> Records]
  BY DEF Typed, TypeOK, Records
<1>4. runs' = runs \/ runs' = [runs EXCEPT ![run] = record]
  BY DEF Writing
<1> HIDE DEF record
<1>5. /\ runs' \in [Requests -> Records]
      /\ \A r \in Requests : runs'[r].status = "none" <=> runs[r].status = "none"
      /\ \A r \in Requests : runs'[r].captures = runs[r].captures \/ runs'[r].captures = captures
  BY <1>1, <1>2, <1>3, <1>4
<1>6. Typed'
  <2>1. DiskTyped'
    BY <1>5, TypedGroups DEF DiskTyped, Writing
  <2>2. MemoryTyped'
    BY TypedGroups DEF MemoryTyped, Writing
  <2>3. ShotTyped'
    BY ShotIsTyped DEF Writing
  <2>4. OthersTyped'
    BY TypedGroups DEF OthersTyped, Writing
  <2> QED
    BY <2>1, <2>2, <2>3, <2>4, GroupsTyped
<1>7. (UnderWay /\ Driven /\ Owned)'
  BY <1>1, <1>5 DEF Inv, UnderWay, Driven, Owned, Writing
<1>8. OnDisk'
  <2>1. \A r \in Requests : Kept(runs'[r].captures)
    BY <1>5 DEF Inv, OnDisk, Kept
  <2> QED
    BY <2>1 DEF Inv, OnDisk, Kept, Writing
<1>9. (Known /\ InHand /\ Single /\ Sending)'
  <2>1. UNCHANGED <<uploads, of, run, captures, sending>> /\ shot' = NoShot
    BY DEF Writing
  <2>2. phase' # "IDLE" => phase # "IDLE" /\ shot = NoShot
    BY DEF Writing
  <2>3. Known'
    BY <2>1, <2>2 DEF Inv, Known, NoShot
  <2>4. InHand'
    BY <2>1 DEF InHand
  <2>5. (Single /\ Sending)'
    BY <2>1 DEF Inv, Single, Sending
  <2> QED
    BY <2>3, <2>4, <2>5
<1> QED
  BY <1>6, <1>7, <1>8, <1>9 DEF Inv

(* A request that has driven the car has a record, so no photo of it is queued. *)
LEMMA StartKeeps ==
  ASSUME Typed, Inv, NEW r \in Requests, Start(r) PROVE Typed' /\ Inv'
<1> USE DEF upload, observers
<1>1. shot = NoShot /\ runs[r].status = "none" /\ run' = r /\ captures' = NoCaptures
  <2>1. NoRecord.status = "none"
    BY DEF NoRecord
  <2> QED
    BY <2>1 DEF Start, BetweenSteps
<1> DEFINE record == [NoRecord EXCEPT !.status = "RUNNING"]
<1>2. /\ NoCaptures \in [Points -> Photos \cup {NoPhoto}]
      /\ \A point \in Points : NoCaptures[point] = NoPhoto
  BY DEF NoCaptures
<1>3. record \in Records /\ record.status = "RUNNING" /\ record.captures = NoCaptures
  BY <1>2 DEF NoRecord, Records, Active
<1>4. runs \in [Requests -> Records] /\ begun \in [Requests -> Nat]
  BY DEF Typed, TypeOK, Records
<1>5. \/ runs' = [runs EXCEPT ![r] = record] /\ begun' = [begun EXCEPT ![r] = @ + 1]
         /\ phase' = "RUNNING"
      \/ UNCHANGED <<runs, begun, phase>>
  BY DEF Start
<1>6. phase = "IDLE" /\ terminal = "" /\ terminal' = ""
  BY DEF Start
<1> HIDE DEF record
<1>7. runs' \in [Requests -> Records] /\ begun' \in [Requests -> Nat]
  BY <1>3, <1>4, <1>5
<1>8. Typed'
  <2>1. DiskTyped'
    BY <1>7, TypedGroups DEF DiskTyped, Start
  <2>2. MemoryTyped'
    BY <1>1, <1>2, <1>5, <1>6, TypedGroups DEF MemoryTyped, Start, Active
  <2>3. ShotTyped'
    BY <1>1, ShotIsTyped DEF Start
  <2>4. OthersTyped'
    BY <1>7, TypedGroups DEF OthersTyped, Start
  <2> QED
    BY <2>1, <2>2, <2>3, <2>4, GroupsTyped
<1>9. \A s \in Requests : runs[s].status # "none" => runs'[s].status # "none"
  BY <1>3, <1>4, <1>5
<1>10. UnderWay'
  BY <1>1, <1>3, <1>4, <1>5, <1>6 DEF Start, UnderWay
<1>11. Driven'
  BY <1>1, <1>3, <1>4, <1>5 DEF Inv, Driven
<1>12. OnDisk'
  <2>1. \A s \in Requests : Kept(runs'[s].captures)
    BY <1>2, <1>3, <1>4, <1>5 DEF Inv, OnDisk, Kept
  <2> QED
    BY <2>1, <1>1, <1>2 DEF Inv, OnDisk, Kept, Start
<1>13. Owned'
  BY <1>9 DEF Inv, Owned, Start
<1>14. (Known /\ InHand /\ Single /\ Sending)'
  <2>1. Known'
    <3>1. \A p \in Photos, point \in Points : ~(uploads[p] # "none" /\ of[p] = <<r, point>>)
      BY <1>1 DEF Inv, Owned
    <3>2. uploads' = uploads /\ of' = of
      BY DEF Start
    <3> QED
      BY <1>1, <3>1, <3>2 DEF Known
  <2>2. (InHand /\ Single /\ Sending)'
    BY <1>1 DEF Inv, InHand, Single, Sending, Start
  <2> QED
    BY <2>1, <2>2
<1> QED
  BY <1>8, <1>10, <1>11, <1>12, <1>13, <1>14 DEF Inv

(* The photo goes through its steps; nothing names it before it is kept.      *)
LEMMA InShots == ASSUME Typed, Inv, shot # NoShot PROVE shot \in Shots /\ run \in Requests
  BY DEF Typed, Inv, UnderWay

LEMMA WriteKeeps ==
  ASSUME Typed, Inv, NEW point \in Points, NEW p \in Photos, Write(point, p)
  PROVE  Typed' /\ Inv'
<1> USE DEF upload, Taking
<1> DEFINE new == [at |-> "write", photo |-> p, point |-> point]
<1>1. new \in Shots /\ new.at = "write" /\ new.photo = p /\ new.point = point
  BY DEF Shots
<1>2. shot = NoShot /\ shot' = new /\ run \in Requests /\ phase = "RUNNING"
  BY DEF Write, BetweenSteps, Inv, UnderWay
<1> HIDE DEF new
<1>3. of' = [of EXCEPT ![p] = <<run, point>>] /\ files' = [files EXCEPT ![p] = "written"]
  BY DEF Write
<1>4. uploads[p] = "none" /\ files[p] = "none" /\ captures[point] = NoPhoto
  BY DEF Write
<1>5. of' \in [Photos -> {<<>>} \cup (Requests \X Points)]
      /\ of'[p] = <<run, point>> /\ \A q \in Photos \ {p} : of'[q] = of[q]
  BY <1>2, <1>3 DEF Typed
<1>6. files' \in [Photos -> {"none", "written", "synced", "renamed", "kept", "torn"}]
      /\ files'[p] = "written" /\ \A q \in Photos : files[q] = "kept" => files'[q] = "kept"
  BY <1>3, <1>4 DEF Typed, TypeOK
<1>7. Typed'
  <2>1. DiskTyped'
    BY <1>6, TypedGroups DEF DiskTyped, Write
  <2>2. MemoryTyped'
    BY TypedGroups DEF MemoryTyped, Write
  <2>3. ShotTyped'
    BY <1>1, <1>2, ShotIsTyped
  <2>4. OthersTyped'
    BY <1>5, TypedGroups DEF OthersTyped, Write
  <2> QED
    BY <2>1, <2>2, <2>3, <2>4, GroupsTyped
<1>8. (UnderWay /\ Driven /\ Owned)'
  BY <1>2, <1>4, <1>5 DEF Inv, UnderWay, Driven, Owned, Write
<1>9. OnDisk'
  <2>1. \A named \in [Points -> Photos \cup {NoPhoto}] : Kept(named) => Kept(named)'
    BY <1>6 DEF Kept
  <2>2. /\ \A r \in Requests : runs[r].captures \in [Points -> Photos \cup {NoPhoto}]
        /\ captures \in [Points -> Photos \cup {NoPhoto}]
    BY DEF Typed, TypeOK
  <2>3. runs' = runs /\ captures' = captures /\ uploads' = uploads
    BY DEF Write
  <2> QED
    BY <1>1, <1>2, <1>6, <2>1, <2>2, <2>3 DEF Inv, OnDisk, Reached
<1>10. (Known /\ InHand /\ Single /\ Sending)'
  BY <1>1, <1>2, <1>4, <1>5 DEF Inv, Known, InHand, Single, Sending, Write, NoShot
<1> QED
  BY <1>7, <1>8, <1>9, <1>10 DEF Inv

LEMMA FileKeeps ==
  ASSUME Typed, Inv, NEW from \in {"write", "sync", "rename"}, NEW to \in {"sync", "rename", "link"},
         FileStep(from, to, Reached(to))
  PROVE  Typed' /\ Inv'
<1> USE DEF upload, Taking
<1>1. shot \in Shots /\ shot # NoShot /\ run \in Requests /\ phase = "RUNNING"
  <2>1. shot # NoShot
    BY DEF FileStep, NoShot
  <2> QED
    BY <2>1, InShots DEF Inv, UnderWay
<1> DEFINE p == shot.photo
<1>2. p \in Photos /\ shot.point \in Points
  BY <1>1 DEF Shots
<1>3. /\ shot' \in Shots /\ shot'.at = to /\ shot'.photo = p /\ shot'.point = shot.point
      /\ shot' # NoShot
  BY <1>1 DEF FileStep, Shots, NoShot
<1>4. files[p] # "kept"
  BY <1>1 DEF FileStep, Inv, OnDisk, Reached
<1>5. Reached(to) \in {"synced", "renamed", "kept"}
  BY DEF Reached
<1>6. files' \in [Photos -> {"none", "written", "synced", "renamed", "kept", "torn"}]
      /\ files'[p] = Reached(to) /\ \A q \in Photos : files[q] = "kept" => files'[q] = "kept"
  BY <1>2, <1>4, <1>5 DEF FileStep, Typed, TypeOK
<1> HIDE DEF p
<1>7. UNCHANGED <<run, status, phase, terminal, configured, upload, failures, begun, runs, uploads,
                  captures, of>>
  BY DEF FileStep
<1>8. Typed'
  <2>1. DiskTyped'
    BY <1>6, <1>7, TypedGroups DEF DiskTyped
  <2>2. MemoryTyped'
    BY <1>7, TypedGroups DEF MemoryTyped
  <2>3. ShotTyped'
    BY <1>3, ShotIsTyped
  <2>4. OthersTyped'
    BY <1>7, TypedGroups DEF OthersTyped
  <2> QED
    BY <2>1, <2>2, <2>3, <2>4, GroupsTyped
<1>9. (UnderWay /\ Driven /\ Owned /\ Single /\ Sending)'
  BY <1>1, <1>7 DEF Inv, UnderWay, Driven, Owned, Single, Sending
<1>10. OnDisk'
  <2>1. \A named \in [Points -> Photos \cup {NoPhoto}] : Kept(named) => Kept(named)'
    BY <1>6 DEF Kept
  <2>2. /\ \A r \in Requests : runs[r].captures \in [Points -> Photos \cup {NoPhoto}]
        /\ captures \in [Points -> Photos \cup {NoPhoto}]
    BY DEF Typed, TypeOK
  <2> QED
    BY <1>3, <1>6, <1>7, <2>1, <2>2 DEF Inv, OnDisk
<1>11. Known'
  BY <1>1, <1>3, <1>7 DEF FileStep, Inv, Known
<1>12. InHand'
  BY <1>1, <1>3, <1>7 DEF FileStep, Inv, InHand, p
<1> QED
  BY <1>8, <1>9, <1>10, <1>11, <1>12 DEF Inv

(* The photo is on disk, and the run has none of this point yet.              *)
LEMMA EnqueueKeeps == ASSUME Typed, Inv, Enqueue PROVE Typed' /\ Inv'
<1> USE DEF upload, Taking
<1>1. shot \in Shots /\ shot # NoShot /\ run \in Requests /\ phase = "RUNNING" /\ shot.at = "link"
  <2>1. shot # NoShot /\ shot.at = "link"
    BY DEF Enqueue, NoShot
  <2> QED
    BY <2>1, InShots DEF Inv, UnderWay
<1> DEFINE p == shot.photo
<1>2. p \in Photos /\ shot.point \in Points
  BY <1>1 DEF Shots
<1>3. /\ shot' \in Shots /\ shot'.at = "queue" /\ shot'.photo = p /\ shot'.point = shot.point
      /\ shot' # NoShot
  BY <1>1 DEF Enqueue, Shots, NoShot
<1>4. /\ files[p] = "kept" /\ of[p] = <<run, shot.point>> /\ captures[shot.point] = NoPhoto
      /\ uploads[p] = "none" /\ runs[run].status # "none"
  BY <1>1 DEF Inv, UnderWay, OnDisk, InHand, Reached
<1>5. /\ uploads' \in [Photos -> {"none", "PENDING", "PENDING_CONFIGURATION", "CONFIRMED"}]
      /\ uploads'[p] # "none" /\ \A q \in Photos \ {p} : uploads'[q] = uploads[q]
  BY <1>2 DEF Enqueue, Typed, TypeOK
<1>6. UNCHANGED <<run, status, phase, terminal, configured, upload, failures, begun, runs, files,
                  captures, of>>
  BY DEF Enqueue
<1>7. \A q \in Photos \ {p} : ~(uploads[q] # "none" /\ of[q] = of[p])
  BY <1>1, <1>2, <1>4, NoPhotoIsNone DEF Inv, Known
<1> HIDE DEF p
<1>8. Typed'
  <2>1. DiskTyped'
    BY <1>5, <1>6, TypedGroups DEF DiskTyped
  <2>2. MemoryTyped'
    BY <1>6, TypedGroups DEF MemoryTyped
  <2>3. ShotTyped'
    BY <1>3, ShotIsTyped
  <2>4. OthersTyped'
    BY <1>6, TypedGroups DEF OthersTyped
  <2> QED
    BY <2>1, <2>2, <2>3, <2>4, GroupsTyped
<1>9. (UnderWay /\ Driven)'
  BY <1>1, <1>6 DEF Inv, UnderWay, Driven
<1>10. OnDisk'
  BY <1>3, <1>4, <1>5, <1>6 DEF Inv, OnDisk, Kept, Reached
<1>11. Owned'
  BY <1>1, <1>2, <1>4, <1>5, <1>6 DEF Inv, Owned
<1>12. Known'
  BY <1>1, <1>2, <1>3, <1>4, <1>5, <1>6 DEF Inv, Known
<1>13. InHand'
  BY <1>3, <1>4, <1>6 DEF InHand
<1>14. Single'
  BY <1>5, <1>6, <1>7 DEF Inv, Single
<1>15. Sending'
  BY <1>5, <1>6 DEF Inv, Sending
<1> QED
  BY <1>8, <1>9, <1>10, <1>11, <1>12, <1>13, <1>14, <1>15 DEF Inv

LEMMA RecordKeeps == ASSUME Typed, Inv, Record PROVE Typed' /\ Inv'
<1> USE DEF upload, Taking
<1>1. shot \in Shots /\ shot # NoShot /\ run \in Requests /\ phase = "RUNNING" /\ shot.at = "queue"
  <2>1. shot # NoShot /\ shot.at = "queue"
    BY DEF Record, NoShot
  <2> QED
    BY <2>1, InShots DEF Inv, UnderWay
<1>2. shot.photo \in Photos /\ shot.point \in Points
  BY <1>1 DEF Shots
<1>3. captures' = [captures EXCEPT ![shot.point] = shot.photo]
  BY DEF Record
<1>4. captures \in [Points -> Photos \cup {NoPhoto}] /\ runs \in [Requests -> Records]
  BY DEF Typed, TypeOK, Records
<1>5. captures' \in [Points -> Photos \cup {NoPhoto}]
  BY <1>2, <1>3, <1>4
<1>6. /\ files[shot.photo] = "kept" /\ captures[shot.point] = NoPhoto
      /\ of[shot.photo] = <<run, shot.point>> /\ runs[run].status # "none"
  BY <1>1 DEF Inv, UnderWay, OnDisk, InHand, Reached
<1>7. Kept(captures')
  BY <1>2, <1>3, <1>4, <1>6 DEF Inv, OnDisk, Kept
<1> DEFINE record == [status |-> "RUNNING", captures |-> captures']
<1>8. record \in Records /\ record.status = "RUNNING" /\ record.captures = captures'
  BY <1>5 DEF Records, Active
<1>9. \/ shot' = NoShot /\ runs' = [runs EXCEPT ![run] = record]
      \/ shot' = [shot EXCEPT !.at = "record"] /\ runs' = runs
  BY DEF Record
<1> HIDE DEF record
<1>10. shot' # NoShot => /\ shot' \in Shots /\ shot'.at = "record" /\ shot'.photo = shot.photo
                         /\ shot'.point = shot.point
  BY <1>1, <1>9 DEF Shots
<1>11. /\ runs' \in [Requests -> Records]
       /\ \A r \in Requests : runs'[r].status = "none" <=> runs[r].status = "none"
       /\ \A r \in Requests : runs'[r].captures = runs[r].captures \/ runs'[r].captures = captures'
  BY <1>1, <1>4, <1>6, <1>8, <1>9
<1>12. UNCHANGED <<run, status, phase, terminal, configured, upload, failures, begun, files,
                   uploads, of>>
  BY DEF Record
<1>13. Typed'
  <2>1. DiskTyped'
    BY <1>11, <1>12, TypedGroups DEF DiskTyped
  <2>2. MemoryTyped'
    BY <1>5, <1>12, TypedGroups DEF MemoryTyped
  <2>3. ShotTyped'
    BY <1>10, ShotIsTyped
  <2>4. OthersTyped'
    BY <1>12, TypedGroups DEF OthersTyped
  <2> QED
    BY <2>1, <2>2, <2>3, <2>4, GroupsTyped
<1>14. (UnderWay /\ Driven /\ Owned)'
  BY <1>1, <1>11, <1>12 DEF Inv, UnderWay, Driven, Owned
<1>15. OnDisk'
  <2>1. \A r \in Requests : Kept(runs'[r].captures)
    BY <1>7, <1>11 DEF Inv, OnDisk, Kept
  <2>2. shot' # NoShot => files'[shot'.photo] = Reached(shot'.at)
    BY <1>6, <1>10, <1>12 DEF Reached
  <2>3. Kept(captures)' /\ \A r \in Requests : Kept(runs[r].captures)'
    BY <1>7, <1>12, <2>1 DEF Kept
  <2> QED
    BY <1>12, <2>2, <2>3 DEF Inv, OnDisk
<1>16. Known'
  BY <1>1, <1>2, <1>3, <1>4, <1>6, <1>12, NoPhotoIsNone DEF Inv, Known
<1>17. InHand'
  BY <1>1, <1>6, <1>10, <1>12 DEF InHand
<1>18. (Single /\ Sending)'
  BY <1>12 DEF Inv, Single, Sending
<1> QED
  BY <1>13, <1>14, <1>15, <1>16, <1>17, <1>18 DEF Inv

(* The upload thread marks what is in the queue.                              *)
LEMMA UploadKeeps ==
  ASSUME Typed, Inv,
         Offer \/ (\E p \in Photos : PeerAccepts(p)) \/ PeerFails \/ Finish \/ FinishThrows
  PROVE  Typed' /\ Inv'
<1> USE DEF disk, memory, observers
<1>1. /\ UNCHANGED <<runs, files, memory, configured, failures, observers>>
      /\ sending' \in Photos \cup {NoPhoto} /\ answer' \in {"none", "confirmed", "other"}
  BY DEF Typed, TypeOK, Offer, Pending, PeerAccepts, PeerFails, Finish, FinishThrows
<1>2. /\ uploads' \in [Photos -> {"none", "PENDING", "PENDING_CONFIGURATION", "CONFIRMED"}]
      /\ \A p \in Photos : uploads'[p] = "none" <=> uploads[p] = "none"
  <2>1. CASE UNCHANGED uploads
    BY <2>1 DEF Typed, TypeOK
  <2>2. CASE Finish
    BY <2>2 DEF Finish, Typed, TypeOK, Inv, Sending
  <2> QED
    BY <2>1, <2>2 DEF Offer, PeerAccepts, PeerFails, FinishThrows
<1>3. sending' \in Photos => uploads[sending'] # "none"
  BY NoPhotoIsNone DEF Inv, Sending, Offer, Pending, PeerAccepts, PeerFails, Finish, FinishThrows
<1>4. Typed'
  <2>1. DiskTyped'
    BY <1>1, <1>2, TypedGroups DEF DiskTyped
  <2>2. MemoryTyped'
    BY <1>1, TypedGroups DEF MemoryTyped
  <2>3. ShotTyped'
    BY <1>1, TypedGroups, ShotIsTyped DEF ShotTyped
  <2>4. OthersTyped'
    BY <1>1, TypedGroups DEF OthersTyped
  <2> QED
    BY <2>1, <2>2, <2>3, <2>4, GroupsTyped
<1>5. (UnderWay /\ Driven)'
  BY <1>1 DEF Inv, UnderWay, Driven
<1>6. OnDisk'
  BY <1>1, <1>2 DEF Inv, OnDisk, Kept
<1>7. (Owned /\ Known /\ Single)'
  BY <1>1, <1>2 DEF Inv, Owned, Known, Single
<1>8. InHand'
  BY <1>1, <1>2, InShots DEF Inv, InHand, Shots
<1>9. Sending'
  BY <1>2, <1>3 DEF Sending
<1> QED
  BY <1>4, <1>5, <1>6, <1>7, <1>8, <1>9 DEF Inv

(* A file that is kept stays; what the process knew is gone.                  *)
LEMMA RestartKeeps == ASSUME Typed, Inv, Crash \/ PowerCut PROVE Typed' /\ Inv'
<1> DEFINE States == {"none", "torn", "synced", "renamed", "written", "kept"}
<1>1. PICK left \in [Photos -> States] :
        /\ \A p \in Photos : files[p] = "kept" => left[p] = "kept"
        /\ Restart(left)
  BY DEF Crash, PowerCut, Remains, Typed, TypeOK
<1>2. /\ files' \in [Photos -> {"none", "written", "synced", "renamed", "kept", "torn"}]
      /\ \A p \in Photos : files[p] = "kept" => files'[p] = "kept"
  BY <1>1 DEF Restart
<1> DEFINE record(r) == IF runs[r].status \in Active
                        THEN [runs[r] EXCEPT !.status = "INTERRUPTED"] ELSE runs[r]
<1>3. runs \in [Requests -> Records]
  BY DEF Typed, TypeOK, Records
<1>4. \A r \in Requests :
        /\ record(r) \in Records /\ record(r).captures = runs[r].captures
        /\ record(r).status = "none" <=> runs[r].status = "none"
  BY <1>3 DEF Records, Active
<1>5. runs' = [r \in Requests |-> record(r)]
  BY <1>1 DEF Restart
<1> HIDE DEF record
<1>6. /\ runs' \in [Requests -> Records]
      /\ \A r \in Requests : runs'[r].captures = runs[r].captures
      /\ \A r \in Requests : runs'[r].status = "none" <=> runs[r].status = "none"
  BY <1>4, <1>5
<1>7. /\ run' = NoRequest /\ captures' = NoCaptures /\ status' = "none" /\ phase' = "IDLE"
      /\ terminal' = "" /\ shot' = NoShot /\ sending' = NoPhoto /\ answer' = "none"
      /\ configured' \in BOOLEAN
      /\ UNCHANGED <<uploads, begun, of>>
  BY <1>1 DEF Restart, observers
<1>8. failures' \in 0..MaxFailures
  <2>1. failures \in 0..MaxFailures /\ failures < MaxFailures /\ failures' = failures + 1
    BY <1>1 DEF Restart, Typed, TypeOK
  <2> QED
    BY <2>1, ConstantsAssumption
<1>9. NoCaptures \in [Points -> Photos \cup {NoPhoto}] /\ Kept(NoCaptures)'
  BY DEF NoCaptures, Kept
<1>10. Typed'
  <2>1. DiskTyped'
    BY <1>2, <1>6, <1>7, TypedGroups DEF DiskTyped
  <2>2. MemoryTyped'
    BY <1>7, <1>9 DEF MemoryTyped
  <2>3. ShotTyped'
    BY <1>7, ShotIsTyped
  <2>4. OthersTyped'
    BY <1>7, <1>8, TypedGroups DEF OthersTyped
  <2> QED
    BY <2>1, <2>2, <2>3, <2>4, GroupsTyped
<1>11. OnDisk'
  <2>1. \A named \in [Points -> Photos \cup {NoPhoto}] : Kept(named) => Kept(named)'
    BY <1>2 DEF Kept
  <2>2. \A r \in Requests : runs[r].captures \in [Points -> Photos \cup {NoPhoto}]
    BY DEF Typed, TypeOK
  <2>3. \A r \in Requests : Kept(runs[r].captures)'
    BY <1>6, <2>1, <2>2 DEF Inv, OnDisk, Kept
  <2>4. Kept(captures)'
    BY <1>7, <1>9 DEF Kept
  <2> QED
    BY <1>2, <1>7, <2>3, <2>4 DEF Inv, OnDisk
<1>12. (UnderWay /\ Known /\ InHand)'
  BY <1>7 DEF UnderWay, Known, InHand
<1>13. (Driven /\ Owned /\ Single)'
  BY <1>6, <1>7 DEF Inv, Driven, Owned, Single
<1>14. Sending'
  BY <1>7, NoPhotoIsNone DEF Sending
<1> QED
  BY <1>10, <1>11, <1>12, <1>13, <1>14 DEF Inv

LEMMA StutterKeeps == ASSUME Typed, Inv, UNCHANGED vars PROVE Typed' /\ Inv'
<1>1. UNCHANGED <<runs, files, uploads, run, captures, status, phase, terminal, shot, configured,
                  sending, answer, failures, begun, of>>
  BY DEF vars, disk, memory, upload, observers
<1>3. Typed'
  <2>1. DiskTyped'
    BY <1>1, TypedGroups DEF DiskTyped
  <2>2. MemoryTyped'
    BY <1>1, TypedGroups DEF MemoryTyped
  <2>3. ShotTyped'
    BY <1>1, TypedGroups, ShotIsTyped DEF ShotTyped
  <2>4. OthersTyped'
    BY <1>1, TypedGroups DEF OthersTyped
  <2> QED
    BY <2>1, <2>2, <2>3, <2>4, GroupsTyped
<1>4. (UnderWay /\ Driven /\ Owned)'
  BY <1>1 DEF Inv, UnderWay, Driven, Owned
<1>5. (Known /\ InHand /\ Single /\ Sending)'
  BY <1>1 DEF Inv, Known, InHand, Single, Sending
<1>6. OnDisk'
  BY <1>1 DEF Inv, OnDisk, Kept
<1> QED
  BY <1>3, <1>4, <1>5, <1>6 DEF Inv

LEMMA NextKeeps == ASSUME Typed, Inv, [Next]_vars PROVE Typed' /\ Inv'
<1>1. CASE \E r \in Requests : Start(r)
  BY <1>1, StartKeeps
<1>2. CASE \E written \in BOOLEAN :
             Pause(written) \/ Cancel(written) \/ StepThrows(written) \/ Resume(written)
               \/ Settle(written) \/ Succeed(written)
  BY <1>2, WritingSteps, WritingKeeps
<1>3. CASE \E point \in Points, p \in Photos : Write(point, p)
  BY <1>3, WriteKeeps
<1>4. CASE Sync \/ Rename \/ SyncDirectory
  BY <1>4, FileKeeps DEF Sync, Rename, SyncDirectory, Reached
<1>5. CASE Enqueue \/ Record
  BY <1>5, EnqueueKeeps, RecordKeeps
<1>6. CASE Offer \/ (\E p \in Photos : PeerAccepts(p)) \/ PeerFails \/ Finish \/ FinishThrows
  BY <1>6, UploadKeeps
<1>7. CASE Crash \/ PowerCut
  BY <1>7, RestartKeeps
<1>8. CASE UNCHANGED vars
  BY <1>8, StutterKeeps
<1> QED
  BY <1>1, <1>2, <1>3, <1>4, <1>5, <1>6, <1>7, <1>8 DEF Next, TakePhoto

(* The invariant all of the following rests on is inductive.                  *)
THEOREM Inductive == Spec => [](Typed /\ Inv)
  BY InitInv, NextKeeps, PTL DEF Spec

(* The state keeps its type.                                                 *)
THEOREM TypeCorrect == Spec => []TypeOK
<1>1. Typed /\ Inv => TypeOK
  BY DEF Typed
<1> QED
  BY <1>1, Inductive, PTL

(* A photo that a record or the queue names is on disk whole, whichever write   *)
(* fails and wherever a crash or a power cut comes in between.                 *)
THEOREM RecordsTrue == Spec => []RecordsAreTrue
<1>1. Typed /\ Inv => RecordsAreTrue
  <2> SUFFICES ASSUME Typed, Inv, NEW p \in Photos,
                      uploads[p] # "none" \/ \E r \in Requests : p \in Named(r)
               PROVE  files[p] = "kept"
    BY DEF RecordsAreTrue
  <2>1. CASE uploads[p] # "none"
    BY <2>1 DEF Inv, OnDisk
  <2>2. CASE \E r \in Requests : p \in Named(r)
    BY <2>2 DEF Inv, OnDisk, Kept, Named
  <2> QED
    BY <2>1, <2>2
<1> QED
  BY <1>1, Inductive, PTL

(* A request drives the car once, and queues at most one photo of each point.  *)
THEOREM NothingIsTwice == Spec => []NothingTwice
<1>1. Typed /\ Inv => NothingTwice
  BY DEF Inv, Driven, Single, NothingTwice
<1> QED
  BY <1>1, Inductive, PTL
=============================================================================
