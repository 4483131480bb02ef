------------------------ MODULE RecoveryActions_proof ------------------------
(***************************************************************************)
(* Proofs about one action session, for any number of goals and any limits,  *)
(* and about the ledger that the sessions of a recovery draw on, for every    *)
(* choice of its distances.                                                *)
(***************************************************************************)
EXTENDS BoundedAction, RecoveryBudget, TLAPS

(* Consistent, of a record rather than of an index.                          *)
Ordered(rec, r, rev) ==
  /\ rec.cancel_ack => rec.cancel_response_done
  /\ rec.cancel_response_done => rec.cancel_sent
  /\ rec.cancel_sent => rec.handle
  /\ rec.handle => rec.response_done
  /\ rec.present => r <= rev
  /\ rec.present /\ r < rev => rec.superseded_at # NoTime
  /\ r >= rev => rec.superseded_at = NoTime

(* What cancel_record() leaves alone, and what it guarantees.                *)
LEMMA CancelRecordLemma ==
  ASSUME NEW rec \in Record, NEW r, NEW rev, Ordered(rec, r, rev)
  PROVE  /\ CancelRecord(rec) \in Record
         /\ Ordered(CancelRecord(rec), r, rev)
         /\ CancelRecord(rec).handle => CancelRecord(rec).cancel_sent
         /\ CancelRecord(rec).handle = rec.handle
         /\ CancelRecord(rec).present = rec.present
         /\ CancelRecord(rec).terminal = rec.terminal
         /\ CancelRecord(rec).superseded_at = rec.superseded_at
         /\ CancelRecord(rec).response_done = rec.response_done
  BY DEF CancelRecord, Record, Ordered

(* A record that comes to its end stays a well-formed record.                *)
LEMMA EndedRecordLemma ==
  ASSUME NEW rec \in Record, NEW r, NEW rev, Ordered(rec, r, rev)
  PROVE  /\ [rec EXCEPT !.terminal = TRUE] \in Record
         /\ Ordered([rec EXCEPT !.terminal = TRUE], r, rev)
  BY DEF Record, Ordered

-----------------------------------------------------------------------------
(* OverMeansEnded is not inductive: what makes it true when terminal is       *)
(* recomputed is the same fact about each record.                            *)
OverInv ==
  /\ terminal => \A r \in Present(records) : records[r].terminal
  /\ \A r \in Present(records) :
       records[r].terminal /\ Running(r) =>
         /\ r < revision
         /\ now - records[r].superseded_at > ResponseTimeout + CancelTimeout

IInv ==
  /\ TypeOK
  /\ CancelReachesEveryHandle
  /\ SuccessIsOfCurrentGoal
  /\ OverInv

LEMMA InitIInv == Init => IInv
<1> SUFFICES ASSUME Init PROVE IInv
  OBVIOUS
<1> USE ConstantsAssumption DEF Init
<1>1. records \in [Revisions -> Record]
  BY DEF Absent, Record, NoTime
<1>2. \A r \in Revisions : Consistent(r)
  BY DEF Consistent, Absent, Revisions, NoTime
<1>3. TypeOK
  <2>1. revision \in 0..MaxRevision
    BY DEF Revisions
  <2>2. goal \in [Revisions -> {"none", "submitted", "executing", "refused"} \cup Outcomes]
    OBVIOUS
  <2>3. cancel \in [Revisions -> {"none", "accepted", "refused"}]
    OBVIOUS
  <2> QED
    BY <1>1, <1>2, <2>1, <2>2, <2>3 DEF TypeOK
<1>4. Present(records) = {}
  BY DEF Present, Absent
<1> QED
  BY <1>3, <1>4 DEF IInv, CancelReachesEveryHandle, SuccessIsOfCurrentGoal, OverInv

(* What cancel() does to the records, whoever calls it.                      *)
LEMMA CancelKeepsRecords ==
  ASSUME IInv, DoCancel, UNCHANGED revision
  PROVE  /\ records' \in [Revisions -> Record]
         /\ \A r \in Revisions : Consistent(r)'
         /\ cancel_requested' \in BOOLEAN /\ cancel_at' \in Nat
         /\ \A r \in Revisions :
              /\ records'[r].present = records[r].present
              /\ records'[r].handle = records[r].handle
              /\ records'[r].terminal = records[r].terminal
              /\ records'[r].superseded_at = records[r].superseded_at
         /\ cancel_requested' =>
              \A r \in Present(records) :
                records'[r].handle => records'[r].terminal \/ records'[r].cancel_sent
<1> USE DEF IInv, TypeOK
<1>1. CASE terminal \/ revision = 0
  BY <1>1 DEF DoCancel, Consistent, CancelReachesEveryHandle
<1>2. CASE ~(terminal \/ revision = 0)
  <2>1. records' = CancelAll /\ cancel_requested' = TRUE /\ cancel_at' \in Nat
    BY <1>2 DEF DoCancel
  <2>2. ASSUME NEW r \in Revisions
        PROVE  /\ records'[r] \in Record
               /\ Ordered(records'[r], r, revision)
               /\ records'[r].present = records[r].present
               /\ records'[r].handle = records[r].handle
               /\ records'[r].terminal = records[r].terminal
               /\ records'[r].superseded_at = records[r].superseded_at
               /\ records[r].present => (records'[r].handle => records'[r].cancel_sent)
    <3>1. records[r] \in Record /\ Ordered(records[r], r, revision)
      BY DEF Consistent, Ordered
    <3>2. records'[r] = IF records[r].present THEN CancelRecord(records[r]) ELSE records[r]
      BY <2>1 DEF CancelAll
    <3> QED
      BY <3>1, <3>2, CancelRecordLemma
  <2>3. records' \in [Revisions -> Record]
    BY <2>1, <2>2 DEF CancelAll
  <2>4. \A r \in Revisions : Consistent(r)'
    BY <2>2 DEF Ordered, Consistent
  <2> QED
    BY <2>1, <2>2, <2>3, <2>4 DEF Present
<1> QED
  BY <1>1, <1>2

(* The steps, one lemma per group of actions.                                *)
LEMMA SendStep ==
  ASSUME IInv, NEW thrown \in BOOLEAN, NEW reached \in BOOLEAN, Send(thrown, reached)
  PROVE  IInv'
<1> USE ConstantsAssumption DEF IInv, TypeOK, Send
<1>1. revision + 1 \in Revisions /\ revision' \in 0..MaxRevision
  BY DEF Revisions
<1>2. ASSUME NEW r \in Revisions, r # revision + 1
      PROVE  /\ records'[r] \in Record
             /\ Ordered(records'[r], r, revision')
             /\ records'[r].terminal = records[r].terminal
             /\ records'[r].present => records[r].present
             /\ records'[r].handle = records[r].handle
             /\ records'[r].cancel_sent = records[r].cancel_sent
             /\ r # revision => records'[r].superseded_at = records[r].superseded_at
  <2> DEFINE rec == records[r]
             kept == [rec EXCEPT !.present = @ /\ ~Settled(rec)]
  <2>1. rec \in Record /\ Ordered(rec, r, revision)
    BY DEF Consistent, Ordered
  <2>2. /\ kept \in Record
        /\ kept.present => rec.present
        /\ kept.terminal = rec.terminal /\ kept.handle = rec.handle
        /\ kept.cancel_sent = rec.cancel_sent /\ kept.cancel_ack = rec.cancel_ack
        /\ kept.response_done = rec.response_done
        /\ kept.cancel_response_done = rec.cancel_response_done
        /\ kept.superseded_at = rec.superseded_at
    BY <2>1 DEF Record, Settled
  <2>3. records'[r] = Superseded(kept, r)
    BY <1>2 DEF AfterSend
  <2> HIDE DEF rec, kept
  <2>4. CASE r = revision /\ kept.present
    <3>1. Superseded(kept, r) = [kept EXCEPT !.superseded_at = now]
      BY <2>1, <2>2, <2>4 DEF Superseded, Ordered
    <3>2. Superseded(kept, r) \in Record
      BY <2>2, <3>1 DEF Record
    <3> QED
      BY <2>1, <2>2, <2>3, <2>4, <3>1, <3>2 DEF Ordered, rec, NoTime, Record, Revisions
  <2>5. CASE ~(r = revision /\ kept.present)
    <3>1. Superseded(kept, r) = kept
      BY <2>5 DEF Superseded
    <3> QED
      BY <2>1, <2>2, <2>3, <2>5, <3>1 DEF Ordered, rec, Revisions
  <2> QED
    BY <2>4, <2>5
<1>3. /\ records'[revision + 1] = [Absent EXCEPT !.present = TRUE]
      /\ records'[revision + 1] \in Record
      /\ Ordered(records'[revision + 1], revision + 1, revision')
      /\ ~records'[revision + 1].terminal
      /\ ~records'[revision + 1].handle
  <2> DEFINE new == [Absent EXCEPT !.present = TRUE]
  <2>1. records'[revision + 1] = new
    BY <1>1 DEF AfterSend
  <2>2. new \in Record /\ ~new.terminal /\ ~new.handle
    BY DEF Absent, Record, NoTime
  <2>3. Ordered(new, revision + 1, revision')
    BY DEF Absent, Ordered, NoTime
  <2> QED
    BY <2>1, <2>2, <2>3
<1>4. TypeOK'
  <2>1. records' \in [Revisions -> Record]
    BY <1>2, <1>3 DEF AfterSend
  <2>2. \A r \in Revisions : Consistent(r)'
    BY <1>2, <1>3 DEF Ordered, Consistent
  <2>3. goal' \in [Revisions -> {"none", "submitted", "executing", "refused"} \cup Outcomes]
    BY <1>1
  <2>4. accepted' \in BOOLEAN /\ timed_out' \in BOOLEAN /\ unconfirmed' \in BOOLEAN
    BY Zenon
  <2> QED
    BY <1>1, <2>1, <2>2, <2>3, <2>4 DEF TypeOK, thread
<1>5. CancelReachesEveryHandle'
  BY DEF CancelReachesEveryHandle
<1>6. SuccessIsOfCurrentGoal'
  BY DEF SuccessIsOfCurrentGoal
<1>7. OverInv'
  <2> SUFFICES ASSUME NEW r \in Present(records)', records'[r].terminal, Running(r)'
               PROVE  r < revision' /\ now' - records'[r].superseded_at > ResponseTimeout + CancelTimeout
    BY DEF OverInv
  <2>1. r \in Revisions /\ r # revision + 1
    BY <1>3 DEF Present
  <2>2. r \in Present(records) /\ records[r].terminal /\ Running(r)
    BY <1>2, <2>1 DEF Present, Running
  <2>3. r < revision /\ now - records[r].superseded_at > ResponseTimeout + CancelTimeout
    BY <2>2 DEF OverInv
  <2> QED
    BY <1>2, <2>1, <2>3 DEF Revisions
<1> QED
  BY <1>4, <1>5, <1>6, <1>7

LEMMA CancelStep ==
  ASSUME IInv, DoCancel, UNCHANGED <<revision, accepted, terminal, success, rejected,
           cancel_ack, timed_out, unconfirmed, now, sent, server, polled, dropped>>,
         polling' \in BOOLEAN, updatable' \in BOOLEAN
  PROVE  IInv'
<1> USE CancelKeepsRecords DEF IInv
<1>1. TypeOK'
  BY DEF TypeOK, server
<1>2. Present(records)' = Present(records)
  BY DEF Present
<1>3. CancelReachesEveryHandle'
  BY <1>2 DEF CancelReachesEveryHandle
<1>4. SuccessIsOfCurrentGoal'
  BY DEF SuccessIsOfCurrentGoal, server
<1>5. OverInv'
  BY <1>2 DEF OverInv, Present, Running, server
<1> QED
  BY <1>1, <1>3, <1>4, <1>5

(* A callback or a poll rewrites records and recomputes terminal: enough that *)
(* each record it leaves terminal has ended or was replaced long ago, and     *)
(* that no handle escapes the cancel.                                        *)
LEMMA RewriteStep ==
  ASSUME IInv, TypeOK', UNCHANGED <<revision, now, goal, cancel_requested>>,
         RefreshTerminal(records'),
         SuccessIsOfCurrentGoal',
         \A r \in Revisions :
           /\ records'[r].present = records[r].present
           /\ records'[r].superseded_at = records[r].superseded_at
           /\ records'[r].present /\ records'[r].terminal /\ Running(r) =>
                \/ records[r].terminal
                \/ r < revision /\ now - records[r].superseded_at > ResponseTimeout + CancelTimeout
           /\ cancel_requested /\ records'[r].present /\ records'[r].handle =>
                records'[r].terminal \/ records'[r].cancel_sent
  PROVE  IInv'
<1>1. Present(records)' = Present(records)
  BY DEF Present
<1>2. CancelReachesEveryHandle'
  BY DEF CancelReachesEveryHandle, Present
<1>3. OverInv'
  <2>1. terminal' => \A r \in Present(records)' : records'[r].terminal
    BY DEF RefreshTerminal
  <2>2. ASSUME NEW r \in Present(records)', records'[r].terminal, Running(r)'
        PROVE  r < revision' /\ now' - records'[r].superseded_at > ResponseTimeout + CancelTimeout
    BY <1>1, <2>2 DEF IInv, OverInv, Present, Running
  <2> QED
    BY <2>1, <2>2 DEF OverInv
<1> QED
  BY <1>2, <1>3 DEF IInv

LEMMA PollStep ==
  ASSUME IInv, Poll
  PROVE  IInv'
<1> USE ConstantsAssumption DEF Poll
<1>1. CASE PollIdle
  <2>1. TypeOK'
    BY <1>1 DEF PollIdle, IInv, TypeOK, status, clocks, server, Consistent
  <2>2. CancelReachesEveryHandle' /\ SuccessIsOfCurrentGoal' /\ OverInv'
    BY <1>1 DEF PollIdle, IInv, CancelReachesEveryHandle, SuccessIsOfCurrentGoal, OverInv,
      Present, Running, status, clocks, server
  <2> QED
    BY <2>1, <2>2 DEF IInv
<1>2. CASE PollLive
  <2> USE <1>2 DEF PollLive, IInv, TypeOK
  <2>1. ASSUME NEW r \in Revisions
        PROVE  /\ records'[r] \in Record
               /\ Ordered(records'[r], r, revision)
               /\ records'[r].present = records[r].present
               /\ records'[r].superseded_at = records[r].superseded_at
               /\ Orphaned(r) \/ records'[r] = records[r]
               /\ Orphaned(r) => records'[r].terminal
    <3> DEFINE asked == CancelRecord(records[r])
    <3>1. records[r] \in Record /\ Ordered(records[r], r, revision)
      BY DEF Consistent, Ordered
    <3>2. asked \in Record /\ Ordered(asked, r, revision)
          /\ asked.present = records[r].present
          /\ asked.superseded_at = records[r].superseded_at
      BY <3>1, CancelRecordLemma
    <3>3. records'[r] = IF Orphaned(r) THEN [asked EXCEPT !.terminal = TRUE] ELSE records[r]
      BY DEF AfterPoll
    <3> HIDE DEF asked
    <3>4. [asked EXCEPT !.terminal = TRUE] \in Record
          /\ Ordered([asked EXCEPT !.terminal = TRUE], r, revision)
      BY <3>2, EndedRecordLemma
    <3>5. [asked EXCEPT !.terminal = TRUE].present = asked.present
          /\ [asked EXCEPT !.terminal = TRUE].superseded_at = asked.superseded_at
          /\ [asked EXCEPT !.terminal = TRUE].terminal
      BY <3>2 DEF Record
    <3> QED
      BY <3>1, <3>2, <3>3, <3>4, <3>5
  <2>2. TypeOK'
    <3>1. records' \in [Revisions -> Record]
      BY <2>1 DEF AfterPoll
    <3>2. \A r \in Revisions : Consistent(r)'
      BY <2>1 DEF Ordered, Consistent
    <3>3. terminal' \in BOOLEAN /\ cancel_ack' \in BOOLEAN
      BY Zenon DEF RefreshTerminal
    <3>4. timed_out' \in BOOLEAN /\ unconfirmed' \in BOOLEAN /\ accepted' \in BOOLEAN
          /\ polling' \in BOOLEAN
      BY Zenon
    <3>5. updatable' \in BOOLEAN
      BY Zenon
    <3> QED
      BY <3>1, <3>2, <3>3, <3>4, <3>5 DEF clocks, server
  <2>3. SuccessIsOfCurrentGoal'
    BY DEF SuccessIsOfCurrentGoal, server
  <2>4. ASSUME NEW r \in Revisions
        PROVE  /\ records'[r].present /\ records'[r].terminal /\ Running(r) =>
                    \/ records[r].terminal
                    \/ r < revision /\ now - records[r].superseded_at > ResponseTimeout + CancelTimeout
               /\ cancel_requested /\ records'[r].present /\ records'[r].handle =>
                    records'[r].terminal \/ records'[r].cancel_sent
    <3>1. CASE Orphaned(r)
      <4>1. records[r].superseded_at # NoTime
        BY <3>1 DEF Orphaned, Consistent
      <4> QED
        BY <2>1, <3>1, <4>1 DEF Orphaned
    <3>2. CASE ~Orphaned(r)
      BY <2>1, <3>2 DEF CancelReachesEveryHandle, Present
    <3> QED
      BY <3>1, <3>2
  <2>5. UNCHANGED <<revision, now, goal, cancel_requested>> /\ RefreshTerminal(records')
    BY DEF clocks, server
  <2> HIDE DEF PollLive, IInv, TypeOK
  <2> QED
    BY <2>1, <2>2, <2>3, <2>4, <2>5, RewriteStep
<1> QED
  BY <1>1, <1>2

LEMMA GoalResponseStep ==
  ASSUME IInv, NEW r \in Revisions, GoalResponse(r)
  PROVE  IInv'
<1> USE ConstantsAssumption DEF GoalResponse
<1> DEFINE old == records[r]
           new == records'[r]
<1>1. old \in Record /\ Ordered(old, r, revision) /\ ~old.handle /\ old.present
  BY DEF IInv, TypeOK, Consistent, Ordered
<1>2. /\ new \in Record /\ Ordered(new, r, revision)
      /\ new.present = old.present /\ new.superseded_at = old.superseded_at
      /\ goal[r] = "refused" => new.terminal
      /\ goal[r] # "refused" => new.terminal = old.terminal
      /\ cancel_requested /\ new.handle => new.cancel_sent
  <2> DEFINE rec == [old EXCEPT !.response_done = TRUE]
             known == [rec EXCEPT !.handle = TRUE]
             ended == [rec EXCEPT !.terminal = TRUE]
  <2>1. /\ known \in Record /\ Ordered(known, r, revision)
        /\ known.present = old.present /\ known.superseded_at = old.superseded_at
        /\ known.terminal = old.terminal
    BY <1>1 DEF Record, Ordered
  <2>2. /\ ended \in Record /\ Ordered(ended, r, revision)
        /\ ended.present = old.present /\ ended.superseded_at = old.superseded_at
        /\ ended.terminal /\ ~ended.handle
    BY <1>1 DEF Record, Ordered
  <2>3. new = IF goal[r] = "refused" THEN ended
              ELSE IF ResponseCancels(r) THEN CancelRecord(known) ELSE known
    BY DEF IInv, TypeOK
  <2> HIDE DEF known, ended, old, new
  <2>4. CASE goal[r] = "refused"
    BY <2>2, <2>3, <2>4
  <2>5. CASE goal[r] # "refused" /\ ResponseCancels(r)
    BY <2>1, <2>3, <2>5, CancelRecordLemma
  <2>6. CASE goal[r] # "refused" /\ ~ResponseCancels(r)
    BY <2>1, <2>3, <2>6 DEF ResponseCancels
  <2> QED
    BY <2>4, <2>5, <2>6
<1>3. \A q \in Revisions \ {r} : records'[q] = records[q]
  BY DEF IInv, TypeOK
<1>4. records' \in [Revisions -> Record]
  <2>1. records' = [records EXCEPT ![r] = new]
    BY DEF IInv, TypeOK
  <2> HIDE DEF new
  <2> QED
    BY <1>2, <2>1 DEF IInv, TypeOK
<1> HIDE DEF old, new
<1>5. TypeOK'
  <2>1. \A q \in Revisions : Consistent(q)'
    BY <1>2, <1>3 DEF new, IInv, TypeOK, Ordered, Consistent
  <2>2. terminal' \in BOOLEAN /\ cancel_ack' \in BOOLEAN
    BY Zenon DEF RefreshTerminal
  <2>3. accepted' \in BOOLEAN /\ rejected' \in BOOLEAN /\ unconfirmed' \in BOOLEAN
    BY Zenon DEF IInv, TypeOK
  <2> QED
    BY <1>4, <2>1, <2>2, <2>3 DEF IInv, TypeOK, clocks, server, thread
<1>6. SuccessIsOfCurrentGoal'
  BY DEF IInv, SuccessIsOfCurrentGoal, server
<1>7. ASSUME NEW q \in Revisions
      PROVE  /\ records'[q].present = records[q].present
             /\ records'[q].superseded_at = records[q].superseded_at
             /\ records'[q].present /\ records'[q].terminal /\ Running(q) =>
                  \/ records[q].terminal
                  \/ q < revision /\ now - records[q].superseded_at > ResponseTimeout + CancelTimeout
             /\ cancel_requested /\ records'[q].present /\ records'[q].handle =>
                  records'[q].terminal \/ records'[q].cancel_sent
  <2>1. CASE q = r
    BY <1>2, <2>1 DEF Running, old, new
  <2>2. CASE q # r
    BY <1>3, <2>2 DEF IInv, CancelReachesEveryHandle, Present
  <2> QED
    BY <2>1, <2>2
<1>8. UNCHANGED <<revision, now, goal, cancel_requested>> /\ RefreshTerminal(records')
  BY DEF clocks, server
<1> QED
  BY <1>5, <1>6, <1>7, <1>8, RewriteStep

LEMMA ResultStep ==
  ASSUME IInv, NEW r \in Revisions, Result(r)
  PROVE  IInv'
<1> USE ConstantsAssumption DEF Result
<1>1. records[r] \in Record /\ Ordered(records[r], r, revision)
  BY DEF IInv, TypeOK, Consistent, Ordered
<1>2. records' = [records EXCEPT ![r] = [records[r] EXCEPT !.terminal = TRUE]]
  BY DEF IInv, TypeOK
<1>3. /\ records'[r] \in Record /\ Ordered(records'[r], r, revision)
      /\ records'[r].present = records[r].present
      /\ records'[r].superseded_at = records[r].superseded_at
      /\ records'[r].terminal
  <2> DEFINE new == [records[r] EXCEPT !.terminal = TRUE]
  <2>1. records'[r] = new
    BY <1>2 DEF IInv, TypeOK
  <2>2. new \in Record /\ Ordered(new, r, revision)
    BY <1>1, EndedRecordLemma
  <2>3. new.present = records[r].present /\ new.superseded_at = records[r].superseded_at
        /\ new.terminal
    BY <1>1 DEF Record
  <2> QED
    BY <2>1, <2>2, <2>3
<1>4. \A q \in Revisions \ {r} : records'[q] = records[q]
  BY DEF IInv, TypeOK
<1>5. TypeOK'
  <2>1. records' \in [Revisions -> Record]
    BY <1>1, <1>2, EndedRecordLemma DEF IInv, TypeOK
  <2>2. \A q \in Revisions : Consistent(q)'
    BY <1>3, <1>4 DEF IInv, TypeOK, Ordered, Consistent
  <2>3. terminal' \in BOOLEAN /\ cancel_ack' \in BOOLEAN
    BY Zenon DEF RefreshTerminal
  <2>4. success' \in BOOLEAN /\ unconfirmed' \in BOOLEAN
    BY Zenon DEF IInv, TypeOK
  <2> QED
    BY <2>1, <2>2, <2>3, <2>4 DEF IInv, TypeOK, clocks, server, thread
<1>6. SuccessIsOfCurrentGoal'
  <2>1. CASE r = revision
    BY <2>1 DEF IInv, TypeOK, SuccessIsOfCurrentGoal, server, Revisions
  <2>2. CASE r # revision
    BY <2>2 DEF IInv, SuccessIsOfCurrentGoal, server
  <2> QED
    BY <2>1, <2>2
<1>7. ASSUME NEW q \in Revisions
      PROVE  /\ records'[q].present = records[q].present
             /\ records'[q].superseded_at = records[q].superseded_at
             /\ records'[q].present /\ records'[q].terminal /\ Running(q) =>
                  \/ records[q].terminal
                  \/ q < revision /\ now - records[q].superseded_at > ResponseTimeout + CancelTimeout
             /\ cancel_requested /\ records'[q].present /\ records'[q].handle =>
                  records'[q].terminal \/ records'[q].cancel_sent
  <2>1. CASE q = r
    BY <1>3, <2>1 DEF Running, Outcomes
  <2>2. CASE q # r
    BY <1>4, <2>2 DEF IInv, CancelReachesEveryHandle, Present
  <2> QED
    BY <2>1, <2>2
<1>8. UNCHANGED <<revision, now, goal, cancel_requested>> /\ RefreshTerminal(records')
  BY DEF clocks, server
<1> QED
  BY <1>5, <1>6, <1>7, <1>8, RewriteStep

LEMMA CancelResponseStep ==
  ASSUME IInv, NEW r \in Revisions, CancelResponse(r)
  PROVE  IInv'
<1> USE ConstantsAssumption DEF CancelResponse
<1> DEFINE new == [records[r] EXCEPT !.cancel_response_done = TRUE,
                                     !.cancel_ack = cancel[r] = "accepted"]
<1>1. records[r] \in Record /\ Ordered(records[r], r, revision)
  BY DEF IInv, TypeOK, Consistent, Ordered
<1>2. records' = [records EXCEPT ![r] = new]
  BY DEF IInv, TypeOK
<1>3. /\ new \in Record /\ Ordered(new, r, revision)
      /\ new.present = records[r].present /\ new.handle = records[r].handle
      /\ new.superseded_at = records[r].superseded_at
      /\ new.terminal = records[r].terminal
      /\ new.cancel_sent = records[r].cancel_sent
  BY <1>1 DEF Record, Ordered
<1> HIDE DEF new
<1>4. records' \in [Revisions -> Record] /\ records'[r] = new
      /\ \A q \in Revisions \ {r} : records'[q] = records[q]
  <2>1. records \in [Revisions -> Record]
    BY DEF IInv, TypeOK
  <2> QED
    BY <1>2, <1>3, <2>1
<1>5. TypeOK'
  <2>1. \A q \in Revisions : Consistent(q)'
    BY <1>3, <1>4 DEF IInv, TypeOK, Ordered, Consistent
  <2>2. terminal' \in BOOLEAN /\ cancel_ack' \in BOOLEAN
    BY Zenon DEF RefreshTerminal
  <2> QED
    BY <1>4, <2>1, <2>2 DEF IInv, TypeOK, clocks, server, thread
<1>6. SuccessIsOfCurrentGoal'
  BY DEF IInv, SuccessIsOfCurrentGoal, server
<1>7. ASSUME NEW q \in Revisions
      PROVE  /\ records'[q].present = records[q].present
             /\ records'[q].superseded_at = records[q].superseded_at
             /\ records'[q].present /\ records'[q].terminal /\ Running(q) =>
                  \/ records[q].terminal
                  \/ q < revision /\ now - records[q].superseded_at > ResponseTimeout + CancelTimeout
             /\ cancel_requested /\ records'[q].present /\ records'[q].handle =>
                  records'[q].terminal \/ records'[q].cancel_sent
  BY <1>3, <1>4 DEF IInv, CancelReachesEveryHandle, Present
<1>8. UNCHANGED <<revision, now, goal, cancel_requested>> /\ RefreshTerminal(records')
  BY DEF clocks, server
<1> QED
  BY <1>5, <1>6, <1>7, <1>8, RewriteStep

(* Steps that write no record: the server's, the clock's, and letting go.     *)
LEMMA OtherSteps ==
  ASSUME IInv,
         \/ Drop
         \/ Tick
         \/ \E r \in Revisions : ServerAnswers(r) \/ ServerEnds(r) \/ ServerCancels(r)
         \/ UNCHANGED vars
  PROVE  IInv'
<1>1. UNCHANGED <<revision, records, success, terminal, cancel_requested>>
  BY DEF Drop, Tick, ServerAnswers, ServerEnds, ServerCancels, vars, status
<1>2. /\ now' \in Nat /\ now' >= now
      /\ goal' \in [Revisions -> {"none", "submitted", "executing", "refused"} \cup Outcomes]
      /\ \A r \in Revisions : Running(r)' => Running(r)
      /\ \A r \in Revisions : goal[r] = "succeeded" => goal'[r] = "succeeded"
  <2>1. CASE Drop
    BY <2>1 DEF IInv, TypeOK, Drop, clocks, server, Running
  <2>2. CASE Tick
    BY <2>2 DEF IInv, TypeOK, Tick, server, Running
  <2>3. CASE \E r \in Revisions : ServerAnswers(r) \/ ServerEnds(r) \/ ServerCancels(r)
    BY <2>3 DEF IInv, TypeOK, ServerAnswers, ServerEnds, ServerCancels, clocks, Running,
      Outcomes
  <2>4. CASE UNCHANGED vars
    BY <2>4 DEF IInv, TypeOK, vars, clocks, server, Running
  <2> QED
    BY <2>1, <2>2, <2>3, <2>4
<1>3. cancel' \in [Revisions -> {"none", "accepted", "refused"}]
  BY DEF IInv, TypeOK, Drop, Tick, ServerAnswers, ServerEnds, ServerCancels, vars, server
<1>4. TypeOK'
  <2>1. UNCHANGED <<status, sent, cancel_at, polling>>
    BY DEF Drop, Tick, ServerAnswers, ServerEnds, ServerCancels, vars, clocks, thread
  <2>2. polled' \in BOOLEAN /\ updatable' \in BOOLEAN /\ dropped' \in BOOLEAN
    BY Zenon
    DEF IInv, TypeOK, Drop, Tick, ServerAnswers, ServerEnds, ServerCancels, vars, thread
  <2>3. \A r \in Revisions : Consistent(r)'
    BY <1>1 DEF IInv, TypeOK, Consistent
  <2> QED
    BY <1>1, <1>2, <1>3, <2>1, <2>2, <2>3 DEF IInv, TypeOK, status
<1>5. Present(records)' = Present(records)
  BY <1>1 DEF Present
<1>6. CancelReachesEveryHandle'
  BY <1>1, <1>5 DEF IInv, CancelReachesEveryHandle
<1>7. SuccessIsOfCurrentGoal'
  BY <1>1, <1>2 DEF IInv, TypeOK, SuccessIsOfCurrentGoal, Revisions
<1>8. OverInv'
  <2>1. terminal' => \A r \in Present(records)' : records'[r].terminal
    BY <1>1, <1>5 DEF IInv, OverInv
  <2>2. ASSUME NEW r \in Present(records)', records'[r].terminal, Running(r)'
        PROVE  r < revision' /\ now' - records'[r].superseded_at > ResponseTimeout + CancelTimeout
    <3>1. r < revision /\ now - records[r].superseded_at > ResponseTimeout + CancelTimeout
      BY <1>1, <1>2, <1>5, <2>2 DEF IInv, OverInv, Present
    <3>2. records[r].superseded_at \in Int /\ now \in Nat /\ now' \in Nat
      BY <1>2, <2>2 DEF IInv, TypeOK, Present, Record, NoTime
    <3> QED
      BY <1>1, <1>2, <3>1, <3>2, ConstantsAssumption
  <2> QED
    BY <2>1, <2>2 DEF OverInv
<1> QED
  BY <1>4, <1>6, <1>7, <1>8 DEF IInv

(* The inductive invariant of one session.                                   *)
THEOREM Inductive == Spec => []IInv
<1>1. IInv /\ [Next]_vars => IInv'
  <2> SUFFICES ASSUME IInv, [Next]_vars PROVE IInv'
    OBVIOUS
  <2>1. ASSUME NEW thrown \in BOOLEAN, NEW reached \in BOOLEAN, Send(thrown, reached)
        PROVE  IInv'
    BY <2>1, SendStep
  <2>2. CASE Cancel
    BY <2>2, CancelStep DEF Cancel, IInv, TypeOK
  <2>3. CASE Poll
    BY <2>3, PollStep
  <2>4. CASE PollCancels
    BY <2>4, CancelStep DEF PollCancels, IInv, TypeOK
  <2>5. ASSUME NEW r \in Revisions, GoalResponse(r) PROVE IInv'
    BY <2>5, GoalResponseStep
  <2>6. ASSUME NEW r \in Revisions, Result(r) PROVE IInv'
    BY <2>6, ResultStep
  <2>7. ASSUME NEW r \in Revisions, CancelResponse(r) PROVE IInv'
    BY <2>7, CancelResponseStep
  <2> QED
    BY <2>1, <2>2, <2>3, <2>4, <2>5, <2>6, <2>7, OtherSteps DEF Next
<1> QED
  BY <1>1, InitIInv, PTL DEF Spec

(* The fields keep their types and their causal order.                       *)
THEOREM TypeCorrect == Spec => []TypeOK
<1>1. IInv => TypeOK
  BY DEF IInv
<1> QED
  BY <1>1, Inductive, PTL

(* A requested cancel reaches every goal whose handle is known, late and      *)
(* replaced ones included, for any number of replacements.                   *)
THEOREM CancelIsComplete == Spec => []CancelReachesEveryHandle
<1>1. IInv => CancelReachesEveryHandle
  BY DEF IInv
<1> QED
  BY <1>1, Inductive, PTL

(* No result of a replaced goal completes the session.                       *)
THEOREM SuccessIsCurrent == Spec => []SuccessIsOfCurrentGoal
<1>1. IInv => SuccessIsOfCurrentGoal
  BY DEF IInv
<1> QED
  BY <1>1, Inductive, PTL

(* A session that is over has no goal running, but for one that was replaced  *)
(* longer ago than both limits.                                              *)
THEOREM OverIsEnded == Spec => []OverMeansEnded
<1>1. IInv => OverMeansEnded
  BY DEF IInv, OverInv, OverMeansEnded
<1> QED
  BY <1>1, Inductive, PTL

-----------------------------------------------------------------------------
(* WaitIsBounded: a poll of every period finds the result limit passed, and    *)
(* then the cancel limit, at most one period late.                           *)
Asked ==
  /\ now - sent > ResultTimeout + 1 =>
       cancel_requested /\ cancel_at <= sent + ResultTimeout + 1
  /\ polled /\ ~polling /\ now - sent > ResultTimeout => cancel_requested

Reported ==
  cancel_requested =>
    /\ now - cancel_at > CancelTimeout + 1 => unconfirmed
    /\ polled /\ now - cancel_at > CancelTimeout => unconfirmed

Waiting ==
  /\ sent <= now /\ cancel_at <= now
  /\ dropped => terminal
  /\ polling => ~cancel_requested
  /\ terminal => Present(records) # {}
  /\ revision = 1 /\ ResultTimeout > 0 /\ ~terminal => Asked /\ Reported

LEMMA InitWaiting == Init => Waiting
<1> SUFFICES ASSUME Init PROVE Waiting
  OBVIOUS
<1>1. now = 0 /\ sent = 0 /\ cancel_at = 0 /\ revision = 0 /\ ~dropped /\ ~polling /\ ~terminal
  BY DEF Init
<1> QED
  BY <1>1 DEF Waiting

LEMMA SendWaits ==
  ASSUME IInv, Waiting, NEW thrown \in BOOLEAN, NEW reached \in BOOLEAN, Send(thrown, reached)
  PROVE  Waiting'
<1>1. now \in Nat /\ cancel_at <= now /\ ~polling /\ ~dropped /\ ~cancel_requested
  BY DEF IInv, TypeOK, Waiting, Send
<1>2. /\ sent' = now /\ now' = now /\ cancel_at' = cancel_at /\ ~polling' /\ ~dropped'
      /\ ~cancel_requested' /\ ~terminal'
  BY <1>1 DEF Send
<1>3. ResultTimeout > 0 => Asked' /\ Reported'
  BY <1>1, <1>2, ConstantsAssumption DEF Asked, Reported
<1> QED
  BY <1>1, <1>2, <1>3 DEF Waiting

LEMMA CancelWaits ==
  ASSUME IInv, Waiting, DoCancel, ~polling',
         UNCHANGED <<revision, terminal, unconfirmed, now, sent, polled, dropped>>
  PROVE  Waiting'
<1>1. now \in Nat /\ sent \in Nat /\ cancel_at \in Nat /\ now' = now /\ sent' = sent
  BY DEF IInv, TypeOK
<1>2. CASE terminal \/ revision = 0
  BY <1>1, <1>2 DEF DoCancel, Waiting
<1>3. CASE ~(terminal \/ revision = 0)
  <2>1. cancel_requested' /\ cancel_at' = IF cancel_requested THEN cancel_at ELSE now
    BY <1>3 DEF DoCancel
  <2>2. revision = 1 /\ ResultTimeout > 0 => Asked' /\ Reported'
    BY <1>1, <1>3, <2>1, ConstantsAssumption DEF Waiting, Asked, Reported
  <2> QED
    BY <1>1, <1>3, <2>1, <2>2 DEF Waiting
<1> QED
  BY <1>2, <1>3

LEMMA PollWaits == ASSUME IInv, Waiting, Poll PROVE Waiting'
<1>1. /\ now \in Nat /\ sent \in Nat /\ cancel_at \in Nat /\ ~polling /\ ~dropped
      /\ UNCHANGED <<revision, now, sent, cancel_at, cancel_requested, dropped>>
  BY DEF IInv, TypeOK, Poll, PollIdle, PollLive, clocks, status
<1>2. CASE PollIdle
  <2>1. UNCHANGED <<records, terminal, polling, unconfirmed>>
    BY <1>2 DEF PollIdle, status
  <2> QED
    BY <1>1, <1>2, <2>1 DEF PollIdle, Waiting
<1>3. CASE PollLive
  <2>1. terminal' => Present(records') # {}
    BY <1>3 DEF PollLive, RefreshTerminal
  <2>2. ~terminal /\ (~terminal' =>
          /\ polling' = (~cancel_requested /\ Expired)
          /\ unconfirmed' = (CancelLapsed \/ (unconfirmed /\ ~(~cancel_requested /\ Expired))))
    BY <1>3 DEF PollLive
  <2>3. polling' => ~cancel_requested
    BY <1>3 DEF PollLive
  <2>4. ASSUME revision = 1, ResultTimeout > 0, ~terminal' PROVE Asked' /\ Reported'
    <3>1. now - sent > ResultTimeout /\ ~polling' => cancel_requested
      BY <2>2, <2>4 DEF Expired
    <3>2. cancel_requested /\ (unconfirmed \/ now - cancel_at > CancelTimeout) => unconfirmed'
      BY <2>2, <2>4 DEF CancelLapsed
    <3>3. Asked /\ Reported
      BY <2>2, <2>4 DEF Waiting
    <3> QED
      BY <1>1, <3>1, <3>2, <3>3 DEF Asked, Reported
  <2> QED
    BY <1>1, <2>1, <2>3, <2>4 DEF Waiting
<1> QED
  BY <1>2, <1>3 DEF Poll

(* A callback ends the session or leaves its waiting alone.                   *)
LEMMA CallbackWaits ==
  ASSUME IInv, Waiting, RefreshTerminal(records'),
         \A r \in Revisions :
           /\ records'[r].present = records[r].present
           /\ records[r].terminal => records'[r].terminal,
         UNCHANGED <<revision, cancel_requested, clocks, thread>>,
         \/ unconfirmed' = unconfirmed
         \/ records[revision].present /\ records'[revision].terminal
  PROVE  Waiting'
<1>1. UNCHANGED <<revision, cancel_requested, now, sent, cancel_at, polling, polled, dropped>>
  BY DEF clocks, thread
<1>2. terminal => terminal'
  BY DEF IInv, OverInv, RefreshTerminal, Present, Waiting
<1>3. terminal' => Present(records') # {}
  BY DEF RefreshTerminal
<1>4. revision = 1 /\ ~terminal' => unconfirmed' = unconfirmed
  <2>1. SUFFICES ASSUME revision = 1, records[1].present, records'[1].terminal PROVE terminal'
    OBVIOUS
  <2>2. 1 \in Revisions
    BY ConstantsAssumption DEF Revisions
  <2>3. \A r \in Present(records) : r = 1
    BY <2>1 DEF IInv, TypeOK, Consistent, Present, Revisions
  <2>4. Present(records') = Present(records) /\ 1 \in Present(records)
    BY <2>1, <2>2 DEF Present
  <2> QED
    BY <2>1, <2>3, <2>4 DEF RefreshTerminal
<1> QED
  BY <1>1, <1>2, <1>3, <1>4 DEF Waiting, Asked, Reported

LEMMA CallbacksWait ==
  ASSUME IInv, Waiting, NEW r \in Revisions,
         GoalResponse(r) \/ Result(r) \/ CancelResponse(r)
  PROVE  Waiting'
<1>1. records \in [Revisions -> Record] /\ records[r] \in Record
  BY DEF IInv, TypeOK
<1>2. CASE GoalResponse(r)
  <2> DEFINE refused == goal[r] = "refused"
  <2>1. /\ records'[r].present = records[r].present
        /\ records[r].terminal => records'[r].terminal
        /\ refused => records[r].present /\ records'[r].terminal
    BY <1>1, <1>2 DEF GoalResponse, CancelRecord, Record
  <2>2. \A q \in Revisions : q # r => records'[q] = records[q]
    BY <1>1, <1>2 DEF GoalResponse
  <2>3. /\ RefreshTerminal(records') /\ UNCHANGED <<revision, cancel_requested, clocks, thread>>
        /\ unconfirmed' = unconfirmed \/ (refused /\ r = revision)
    BY <1>2 DEF GoalResponse, IInv, TypeOK
  <2> QED
    BY <2>1, <2>2, <2>3, CallbackWaits
<1>3. CASE Result(r)
  <2>1. /\ records'[r].present = records[r].present /\ records[r].present
        /\ records'[r].terminal
        /\ \A q \in Revisions : q # r => records'[q] = records[q]
    BY <1>1, <1>3 DEF Result, Record
  <2>2. /\ RefreshTerminal(records') /\ UNCHANGED <<revision, cancel_requested, clocks, thread>>
        /\ unconfirmed' = unconfirmed \/ r = revision
    BY <1>3 DEF Result, IInv, TypeOK
  <2> QED
    BY <2>1, <2>2, CallbackWaits
<1>4. CASE CancelResponse(r)
  <2>1. /\ records'[r].present = records[r].present
        /\ records[r].terminal => records'[r].terminal
        /\ \A q \in Revisions : q # r => records'[q] = records[q]
    BY <1>1, <1>4 DEF CancelResponse, Record
  <2>2. /\ RefreshTerminal(records') /\ UNCHANGED <<revision, cancel_requested, clocks, thread>>
        /\ unconfirmed' = unconfirmed
    BY <1>4 DEF CancelResponse
  <2> QED
    BY <2>1, <2>2, CallbackWaits
<1> QED
  BY <1>2, <1>3, <1>4

(* The clock goes on only from a session that has been polled, or let go of.   *)
LEMMA TickWaits == ASSUME IInv, Waiting, Tick PROVE Waiting'
<1>1. /\ now \in Nat /\ sent \in Nat /\ cancel_at \in Nat /\ now' = now + 1 /\ ~polled'
      /\ ~polling /\ (polled \/ dropped)
      /\ UNCHANGED <<revision, records, terminal, cancel_requested, unconfirmed, sent, cancel_at,
                     polling, dropped>>
  BY DEF IInv, TypeOK, Tick, status
<1>2. ASSUME revision = 1, ResultTimeout > 0, ~terminal PROVE Asked' /\ Reported'
  <2>1. polled /\ Asked /\ Reported
    BY <1>1, <1>2 DEF Waiting
  <2> QED
    BY <1>1, <2>1, ConstantsAssumption DEF Waiting, Asked, Reported
<1> QED
  BY <1>1, <1>2 DEF Waiting

LEMMA NextWaits == ASSUME IInv, Waiting, [Next]_vars PROVE Waiting'
<1>1. ASSUME NEW thrown \in BOOLEAN, NEW reached \in BOOLEAN, Send(thrown, reached)
      PROVE  Waiting'
  BY <1>1, SendWaits
<1>2. CASE Cancel
  BY <1>2, CancelWaits DEF Cancel
<1>3. CASE Poll
  BY <1>3, PollWaits
<1>4. CASE PollCancels
  BY <1>4, CancelWaits DEF PollCancels
<1>5. ASSUME NEW r \in Revisions, GoalResponse(r) \/ Result(r) \/ CancelResponse(r)
      PROVE  Waiting'
  BY <1>5, CallbacksWait
<1>6. CASE Tick
  BY <1>6, TickWaits
<1>7. CASE UNCHANGED <<revision, records, status, clocks, polling, polled>> /\ (dropped' => dropped \/ terminal)
  <2>1. UNCHANGED <<revision, records, terminal, cancel_requested, unconfirmed, now, sent, cancel_at,
                    polling, polled>>
    BY <1>7 DEF status, clocks
  <2>2. Asked' = Asked /\ Reported' = Reported
    BY <2>1 DEF Asked, Reported
  <2> QED
    BY <1>7, <2>1, <2>2 DEF Waiting
<1> QED
  BY <1>1, <1>2, <1>3, <1>4, <1>5, <1>6, <1>7
     DEF Next, Drop, ServerAnswers, ServerEnds, ServerCancels, vars, thread

(* No server can make the tree wait for a single goal beyond its limits.      *)
THEOREM WaitBounded == Spec => []WaitIsBounded
<1>1. IInv /\ Waiting => WaitIsBounded
  BY ConstantsAssumption DEF IInv, TypeOK, Waiting, Asked, Reported, WaitIsBounded
<1> QED
  BY <1>1, Inductive, InitWaiting, NextWaits, PTL DEF Spec

-----------------------------------------------------------------------------
(* The ledger of the recoveries that these sessions carry out.  What makes the *)
(* bound hold through halts and lost odometry is that it always charges at      *)
(* least the distance travelled, plus the rest of a backup that may still be    *)
(* under way.                                                               *)

(* The distance the robot may still back up without asking again.            *)
Pending == IF leaf = "backup" THEN reserved - moved ELSE 0

(* Inductive: the ledger covers what was and what may yet be travelled, and a  *)
(* spin that has begun is on the ledger.                                     *)
Covered ==
  /\ reversed + Pending <= backup_used
  /\ moved <= reserved \/ leaf # "backup"
  /\ leaf = "backup" => reserved <= backup_used
  /\ turns <= 1
  /\ ~spin_used => turns = 0
  /\ leaf = "spin" => spin_used /\ turns = moved /\ moved <= 1
  /\ leaf = "none" => moved = 0 /\ reserved = 0
  /\ forward_distance <= ahead
  /\ leaf = "backup" => forward_distance = 0

LedgerInv == LedgerTypeOK /\ Covered

(* TypeOK in two halves: what is counted, and what is not.                    *)
LedgerFlags ==
  /\ spin_used \in BOOLEAN /\ recovery_active \in BOOLEAN /\ attended \in BOOLEAN
  /\ leaf \in {"none", "backup", "spin"}

LedgerNumbers ==
  /\ backup_used \in 0..MaxBudget
  /\ observe_replans_used \in 0..MaxReplans
  /\ forward_distance \in 0..ForwardReset
  /\ since_backup \in 0..Cooldown
  /\ reserved \in 0..MaxSingle /\ moved \in 0..MaxSingle
  /\ reversed \in Nat /\ turns \in Nat /\ ahead \in 0..ForwardReset

LEMMA LedgerSplit ==
  /\ LedgerTypeOK <=> LedgerFlags /\ LedgerNumbers
  /\ LedgerTypeOK' <=> LedgerFlags' /\ LedgerNumbers'
  BY Zenon DEF LedgerTypeOK, LedgerFlags, LedgerNumbers

(* The robot begins with a clean ledger.                                     *)
LEMMA LedgerBegins == LedgerInit => LedgerInv
<1> SUFFICES ASSUME LedgerInit PROVE LedgerInv
  OBVIOUS
<1> USE LedgerAssumption
<1>1. LedgerFlags
  BY Zenon DEF LedgerInit, LedgerFlags
<1>2. LedgerNumbers
  BY DEF LedgerInit, LedgerNumbers
<1>3. Covered
  BY DEF LedgerInit, Covered, Pending
<1> QED
  BY <1>1, <1>2, <1>3, LedgerSplit DEF LedgerInv

(* A backup takes its whole distance from what is left of the budget.        *)
LEMMA BackUpInv ==
  ASSUME LedgerInv,
         NEW d \in MinBackup..MaxSingle, BackUp(d)
  PROVE  LedgerInv'
<1> USE LedgerSplit, LedgerAssumption
    DEF LedgerInv, action, ledger, observer, LeafOver, NoteBackup
<1>1. LedgerFlags'
  BY Zenon DEF LedgerFlags, BackUp
<1>2. LedgerNumbers'
  BY DEF LedgerNumbers, LedgerFlags, Covered, BackUp, Selectable
<1>3. Covered'
  BY DEF LedgerNumbers, LedgerFlags, Covered, Pending, BackUp, Selectable
<1> QED
  BY <1>1, <1>2, <1>3

(* However a backup ends, the ledger keeps what was travelled.               *)
LEMMA BackUpEndsInv ==
  ASSUME LedgerInv,
         \/ BackUpRejected
         \/ \E succeeded, odom_fresh \in BOOLEAN : BackUpOver(succeeded, odom_fresh)
  PROVE  LedgerInv'
<1> USE LedgerSplit, LedgerAssumption
    DEF LedgerInv, action, ledger, observer, LeafOver, NoteBackup
<1>1. CASE BackUpRejected
  <2>1. LedgerFlags'
    BY <1>1, Zenon DEF LedgerFlags, BackUpRejected
  <2>2. LedgerNumbers'
    BY <1>1 DEF LedgerNumbers, LedgerFlags, Covered, BackUpRejected
  <2>3. Covered'
    BY <1>1 DEF LedgerNumbers, LedgerFlags, Covered, Pending, BackUpRejected
  <2> QED
    BY <2>1, <2>2, <2>3
<1>2. ASSUME NEW succeeded \in BOOLEAN, NEW odom_fresh \in BOOLEAN,
             BackUpOver(succeeded, odom_fresh)
      PROVE LedgerInv'
  <2>0. backup_used' \in {backup_used, backup_used - reserved + moved}
    BY <1>2, Zenon DEF BackUpOver, Reconciled
  <2>1. LedgerFlags'
    BY <1>2, <2>0, Zenon DEF LedgerFlags, BackUpOver
  <2>2. LedgerNumbers'
    BY <1>2, <2>0 DEF LedgerNumbers, LedgerFlags, Covered, BackUpOver
  <2>3. Covered'
    BY <1>2, <2>0 DEF LedgerNumbers, LedgerFlags, Covered, Pending, BackUpOver
  <2> QED
    BY <2>1, <2>2, <2>3
<1> QED
  BY <1>1, <1>2

(* A spin is on the ledger from the moment it is chosen.                     *)
LEMMA SpinInv ==
  ASSUME LedgerInv,
         \/ \E begun \in BOOLEAN : Spin(begun)
         \/ SpinRejected
         \/ \E succeeded \in BOOLEAN : SpinOver(succeeded)
  PROVE  LedgerInv'
<1> USE LedgerSplit, LedgerAssumption
    DEF LedgerInv, action, ledger, observer, LeafOver, NoteBackup
<1>1. ASSUME NEW begun \in BOOLEAN, Spin(begun) PROVE LedgerInv'
  <2>1. LedgerFlags'
    BY <1>1, Zenon DEF LedgerFlags, Spin
  <2>2. LedgerNumbers'
    BY <1>1 DEF LedgerNumbers, LedgerFlags, Covered, Spin
  <2>3. Covered'
    BY <1>1 DEF LedgerNumbers, LedgerFlags, Covered, Pending, Spin
  <2> QED
    BY <2>1, <2>2, <2>3
<1>2. CASE SpinRejected
  <2>1. LedgerFlags'
    BY <1>2, Zenon DEF LedgerFlags, SpinRejected
  <2>2. LedgerNumbers'
    BY <1>2 DEF LedgerNumbers, LedgerFlags, Covered, SpinRejected
  <2>3. Covered'
    BY <1>2 DEF LedgerNumbers, LedgerFlags, Covered, Pending, SpinRejected
  <2> QED
    BY <2>1, <2>2, <2>3
<1>3. ASSUME NEW succeeded \in BOOLEAN, SpinOver(succeeded) PROVE LedgerInv'
  <2>1. LedgerFlags'
    BY <1>3, Zenon DEF LedgerFlags, SpinOver
  <2>2. LedgerNumbers'
    BY <1>3 DEF LedgerNumbers, LedgerFlags, Covered, SpinOver
  <2>3. Covered'
    BY <1>3 DEF LedgerNumbers, LedgerFlags, Covered, Pending, SpinOver
  <2> QED
    BY <2>1, <2>2, <2>3
<1> QED
  BY <1>1, <1>2, <1>3

(* The ledger is renewed while no leaf runs, so nothing is pending.           *)
LEMMA RenewInv ==
  ASSUME LedgerInv,
         NewTask \/ \E step \in -MaxStep..MaxStep : Advance(step)
  PROVE  LedgerInv'
<1> USE LedgerSplit, LedgerAssumption
    DEF LedgerInv, action, ledger, observer, LeafOver, NoteBackup
<1>1. CASE NewTask
  <2>1. LedgerFlags'
    BY <1>1, Zenon DEF LedgerFlags, NewTask
  <2>2. LedgerNumbers'
    BY <1>1 DEF LedgerNumbers, LedgerFlags, Covered, NewTask
  <2>3. Covered'
    BY <1>1 DEF LedgerNumbers, LedgerFlags, Covered, Pending, NewTask
  <2> QED
    BY <2>1, <2>2, <2>3
<1>2. ASSUME NEW step \in -MaxStep..MaxStep, Advance(step) PROVE LedgerInv'
  <2>1. LedgerFlags'
    BY <1>2, Zenon DEF LedgerFlags, Advance
  <2>2. LedgerNumbers'
    BY <1>2
    DEF LedgerNumbers, LedgerFlags, Covered, Advance, Renews, Floor, Capped
  <2>3. Covered'
    BY <1>2
    DEF LedgerNumbers, LedgerFlags, Covered, Pending, Advance, Renews, Floor, Capped
  <2> QED
    BY <2>1, <2>2, <2>3
<1> QED
  BY <1>1, <1>2

(* The robot, the clock and the steps that leave the ledger alone.           *)
LEMMA OtherInv ==
  ASSUME LedgerInv,
         \/ LetGo \/ ActionOver \/ ObserveReplan
         \/ BeginRecovery \/ Reverses \/ Turns \/ CoolDown
  PROVE  LedgerInv'
<1> USE LedgerSplit, LedgerAssumption
    DEF LedgerInv, action, ledger, observer, LeafOver, NoteBackup
<1>1. CASE LetGo
  <2>1. LedgerFlags'
    BY <1>1, Zenon DEF LedgerFlags, LetGo
  <2>2. LedgerNumbers'
    BY <1>1 DEF LedgerNumbers, LedgerFlags, Covered, LetGo
  <2>3. Covered'
    BY <1>1 DEF LedgerNumbers, LedgerFlags, Covered, Pending, LetGo
  <2> QED
    BY <2>1, <2>2, <2>3
<1>2. CASE ActionOver
  <2>1. LedgerFlags'
    BY <1>2, Zenon DEF LedgerFlags, ActionOver
  <2>2. LedgerNumbers'
    BY <1>2 DEF LedgerNumbers, LedgerFlags, Covered, ActionOver
  <2>3. Covered'
    BY <1>2 DEF LedgerNumbers, LedgerFlags, Covered, Pending, ActionOver
  <2> QED
    BY <2>1, <2>2, <2>3
<1>3. CASE ObserveReplan
  <2>1. LedgerFlags'
    BY <1>3, Zenon DEF LedgerFlags, ObserveReplan
  <2>2. LedgerNumbers'
    BY <1>3 DEF LedgerNumbers, LedgerFlags, Covered, ObserveReplan
  <2>3. Covered'
    BY <1>3 DEF LedgerNumbers, LedgerFlags, Covered, Pending, ObserveReplan
  <2> QED
    BY <2>1, <2>2, <2>3
<1>4. CASE BeginRecovery
  <2>1. LedgerFlags'
    BY <1>4, Zenon DEF LedgerFlags, BeginRecovery
  <2>2. LedgerNumbers'
    BY <1>4 DEF LedgerNumbers, LedgerFlags, Covered, BeginRecovery
  <2>3. Covered'
    BY <1>4 DEF LedgerNumbers, LedgerFlags, Covered, Pending, BeginRecovery
  <2> QED
    BY <2>1, <2>2, <2>3
<1>5. CASE Reverses
  <2>1. LedgerFlags'
    BY <1>5, Zenon DEF LedgerFlags, Reverses
  <2>2. LedgerNumbers'
    BY <1>5 DEF LedgerNumbers, LedgerFlags, Covered, Reverses
  <2>3. Covered'
    BY <1>5 DEF LedgerNumbers, LedgerFlags, Covered, Pending, Reverses
  <2> QED
    BY <2>1, <2>2, <2>3
<1>6. CASE Turns
  <2>1. LedgerFlags'
    BY <1>6, Zenon DEF LedgerFlags, Turns
  <2>2. LedgerNumbers'
    BY <1>6 DEF LedgerNumbers, LedgerFlags, Covered, Turns
  <2>3. Covered'
    BY <1>6 DEF LedgerNumbers, LedgerFlags, Covered, Pending, Turns
  <2> QED
    BY <2>1, <2>2, <2>3
<1>7. CASE CoolDown
  <2>1. LedgerFlags'
    BY <1>7, Zenon DEF LedgerFlags, CoolDown, backup_cooling
  <2>2. LedgerNumbers'
    BY <1>7 DEF LedgerNumbers, LedgerFlags, Covered, CoolDown, backup_cooling
  <2>3. Covered'
    BY <1>7
    DEF LedgerNumbers, LedgerFlags, Covered, Pending, CoolDown, backup_cooling
  <2> QED
    BY <2>1, <2>2, <2>3
<1> QED
  BY <1>1, <1>2, <1>3, <1>4, <1>5, <1>6, <1>7

(* Every state the robot reaches has its ledger covering its movements.      *)
THEOREM LedgerInductive == LedgerSpec => []LedgerInv
<1>1. LedgerInv /\ [LedgerNext]_ledger_vars => LedgerInv'
  <2> SUFFICES ASSUME LedgerInv, [LedgerNext]_ledger_vars PROVE LedgerInv'
    OBVIOUS
  <2>1. CASE LedgerNext
    BY <2>1, BackUpInv, BackUpEndsInv, SpinInv, RenewInv, OtherInv DEF LedgerNext
  <2>2. CASE UNCHANGED ledger_vars
    BY <2>2
    DEF ledger_vars, ledger, action, observer, LedgerInv, LedgerTypeOK,
        Covered, Pending
  <2> QED
    BY <2>1, <2>2
<1> QED
  BY LedgerBegins, <1>1, PTL DEF LedgerSpec

(* The fields of the runtime and of its leaves keep their types.              *)
THEOREM LedgerTypeCorrect == LedgerSpec => []LedgerTypeOK
  BY LedgerInductive, PTL DEF LedgerInv

(* For every choice of distances, the robot backs up by no more than the      *)
(* budget before it gets away, through halts, refusals and lost odometry.     *)
THEOREM BudgetIsKept == LedgerSpec => []BudgetHolds
<1>1. LedgerInv => BudgetHolds
  BY LedgerAssumption DEF LedgerInv, LedgerTypeOK, Covered, Pending, BudgetHolds
<1> QED
  BY LedgerInductive, <1>1, PTL

(* And it spins at most once.                                                *)
THEOREM SpinIsSingle == LedgerSpec => []OneSpin
<1>1. LedgerInv => OneSpin
  BY DEF LedgerInv, Covered, OneSpin
<1> QED
  BY LedgerInductive, <1>1, PTL

(* The ledger is renewed only well ahead of the rearmost place.              *)
THEOREM RenewalEarned == LedgerSpec => RenewalIsEarned
<1>1. ASSUME LedgerInv, NEW step \in -MaxStep..MaxStep, Renews(step)
      PROVE  ahead + step >= ForwardReset
  BY <1>1, LedgerAssumption DEF LedgerInv, LedgerTypeOK, Covered, Renews, Floor
<1>2. LedgerInv => \A step \in -MaxStep..MaxStep :
               Advance(step) /\ Renews(step) => ahead + step >= ForwardReset
  BY <1>1
<1> QED
  BY LedgerInductive, <1>2, PTL DEF RenewalIsEarned
=============================================================================
