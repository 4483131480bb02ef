---------------------------- MODULE RecoveryBudget ----------------------------
(***************************************************************************)
(* The escape ladder of the recovery tree and the ledger that bounds it:     *)
(* RecoveryRuntime's backup_used, spin_used and observe_replans_used, the     *)
(* leaves SafeBackUp, ControlledSpin and ParkAndObserve that draw on it, and  *)
(* ProgressGuard, which renews it once the robot has got away.                *)
(*                                                                          *)
(* A backup reserves its whole distance before the action is sent; what it    *)
(* did not travel is given back when the leaf sees it end, if the odometry    *)
(* can be trusted.  A leaf that is halted gives nothing back.  Distances are   *)
(* in a common unit, times in ticks.                                         *)
(***************************************************************************)
EXTENDS Integers

CONSTANTS
  MinBackup,     \* kMinAdaptiveBackupDistance
  MaxSingle,     \* kMaxSingleBackupDistance
  MaxBudget,     \* kMaxBackupBudget
  ForwardReset,  \* net forward progress that renews the ledger, 0.20 m
  MaxStep,       \* max_step of classify_forward_progress
  MaxReplans,    \* recovery.max_observe_replans
  Cooldown       \* recovery.backup_cooldown, in ticks

ASSUME LedgerAssumption ==
  /\ MinBackup \in Nat \ {0} /\ MaxSingle \in Nat \ {0} /\ MaxBudget \in Nat
  /\ ForwardReset \in Nat \ {0} /\ MaxStep \in Nat \ {0}
  /\ MaxReplans \in Nat /\ Cooldown \in Nat

VARIABLES
  backup_used, spin_used, observe_replans_used,
  forward_distance,
  recovery_active,
  since_backup,     \* ticks since last_backup_at_, Cooldown if there is none
  leaf,             \* the motion leaf whose action may be running
  attended,         \* that leaf has not been halted, nor given up on its action
  reserved, moved,  \* its distance, and how much of it the robot has done
  reversed,         \* observer: distance backed up since the ledger was renewed
  turns,            \* observer: spins begun since then
  ahead             \* observer: distance ahead of the rearmost place since then

ledger == <<backup_used, spin_used, observe_replans_used, forward_distance, recovery_active,
            since_backup>>
action == <<leaf, attended, reserved, moved>>
observer == <<reversed, turns, ahead>>
ledger_vars == <<ledger, action, observer>>

LedgerTypeOK ==
  /\ backup_used \in 0..MaxBudget
  /\ spin_used \in BOOLEAN /\ recovery_active \in BOOLEAN
  /\ observe_replans_used \in 0..MaxReplans
  /\ forward_distance \in 0..ForwardReset
  /\ since_backup \in 0..Cooldown
  /\ leaf \in {"none", "backup", "spin"} /\ attended \in BOOLEAN
  /\ reserved \in 0..MaxSingle /\ moved \in 0..MaxSingle
  /\ reversed \in Nat /\ turns \in Nat /\ ahead \in 0..ForwardReset

-----------------------------------------------------------------------------
(* SafeBackUp *)

backup_cooling == since_backup < Cooldown

(* A select_backup_distance() that forgets what has been used already.        *)
SelectableSingle == {d \in MinBackup..MaxSingle : d <= MaxBudget}

(* select_backup_distance(): any length the sensors find clear, within the     *)
(* single limit and what is left of the budget.                              *)
Selectable == {d \in MinBackup..MaxSingle : d <= MaxBudget - backup_used}

(* A reserve() that keeps the progress made before the backup.                *)
BackUpKeepsProgress(d) ==
  /\ leaf = "none" /\ recovery_active /\ ~backup_cooling
  /\ d \in Selectable
  /\ backup_used' = backup_used + d
  /\ leaf' = "backup" /\ attended' = TRUE /\ reserved' = d /\ moved' = 0
  /\ UNCHANGED <<spin_used, observe_replans_used, forward_distance, recovery_active,
                 since_backup, observer>>

(* RearClear, prepare() and reserve(), then the goal is sent.                 *)
BackUp(d) ==
  /\ leaf = "none" /\ recovery_active /\ ~backup_cooling
  /\ d \in Selectable
  /\ backup_used' = backup_used + d /\ forward_distance' = 0
  /\ leaf' = "backup" /\ attended' = TRUE /\ reserved' = d /\ moved' = 0
  /\ UNCHANGED <<spin_used, observe_replans_used, recovery_active, since_backup, observer>>

LeafOver == leaf' = "none" /\ attended' = FALSE /\ reserved' = 0 /\ moved' = 0

NoteBackup == since_backup' = 0

(* rejected(): the server refused the goal, so the robot has not moved.       *)
BackUpRejected ==
  /\ leaf = "backup" /\ attended /\ moved = 0
  /\ backup_used' = backup_used - reserved
  /\ NoteBackup /\ LeafOver
  /\ UNCHANGED <<spin_used, observe_replans_used, forward_distance, recovery_active, observer>>

(* reconcile_backup() that takes missing odometry for no movement.            *)
ReconciledBlindly(reliable) == backup_used - reserved + (IF reliable THEN moved ELSE 0)

(* reconcile_backup(): the rest is given back on reliable odometry only.      *)
Reconciled(reliable) == IF reliable THEN backup_used - reserved + moved ELSE backup_used

(* completed() and failed().  A success the odometry does not confirm counts   *)
(* as unreliable.                                                            *)
BackUpOver(success, odom_fresh) ==
  /\ leaf = "backup" /\ attended
  /\ backup_used' = Reconciled(odom_fresh /\ (success => moved > 0))
  /\ NoteBackup /\ LeafOver
  /\ UNCHANGED <<spin_used, observe_replans_used, forward_distance, recovery_active, observer>>

-----------------------------------------------------------------------------
(* ControlledSpin *)

(* A turn of less than 0.10 rad is spent without being sent.                  *)
Spin(sent) ==
  /\ leaf = "none" /\ recovery_active /\ ~spin_used
  /\ spin_used' = TRUE
  /\ leaf' = (IF sent THEN "spin" ELSE "none") /\ attended' = sent
  /\ reserved' = 0 /\ moved' = 0
  /\ UNCHANGED <<backup_used, observe_replans_used, forward_distance, recovery_active,
                 since_backup, observer>>

SpinRejected ==
  /\ leaf = "spin" /\ attended /\ moved = 0
  /\ spin_used' = FALSE
  /\ LeafOver
  /\ UNCHANGED <<backup_used, observe_replans_used, forward_distance, recovery_active,
                 since_backup, observer>>

(* A spin that gives its turn back unless it succeeds.                        *)
SpinOverReleases(success) ==
  /\ leaf = "spin" /\ attended
  /\ spin_used' = success
  /\ LeafOver
  /\ UNCHANGED <<backup_used, observe_replans_used, forward_distance, recovery_active,
                 since_backup, observer>>

(* A spin neither fails nor completes to any effect on the ledger.            *)
SpinOver(success) ==
  /\ leaf = "spin" /\ attended
  /\ LeafOver
  /\ UNCHANGED <<ledger, observer>>

-----------------------------------------------------------------------------
(* onHalted(), and the leaf that reports CANCEL_UNCONFIRMED: the session goes  *)
(* on without the leaf, and none of its callbacks on the ledger will run.     *)
LetGo ==
  /\ leaf # "none" /\ attended
  /\ attended' = FALSE
  /\ UNCHANGED <<ledger, leaf, reserved, moved, observer>>

(* The action of a leaf let go of is over.                                   *)
ActionOver ==
  /\ leaf # "none" /\ ~attended
  /\ LeafOver
  /\ UNCHANGED <<ledger, observer>>

(* ParkAndObserve after its window: request_observe_replan().                 *)
ObserveReplan ==
  /\ leaf = "none" /\ recovery_active
  /\ observe_replans_used < MaxReplans
  /\ observe_replans_used' = observe_replans_used + 1
  /\ UNCHANGED <<backup_used, spin_used, forward_distance, recovery_active, since_backup,
                 action, observer>>

(* begin_recovery(), by ProgressGuard or the supervisor.                      *)
BeginRecovery ==
  /\ leaf = "none" /\ ~recovery_active
  /\ recovery_active' = TRUE /\ forward_distance' = 0
  /\ UNCHANGED <<backup_used, spin_used, observe_replans_used, since_backup, action, observer>>

Floor(x) == IF x < 0 THEN 0 ELSE x
Capped(x) == IF x > ForwardReset THEN ForwardReset ELSE Floor(x)

Renews(step) == Floor(forward_distance + step) >= ForwardReset

(* forward_progress(), by ProgressGuard while the robot follows its path.     *)
Advance(step) ==
  /\ leaf = "none"
  /\ ahead' = IF Renews(step) THEN 0 ELSE Capped(ahead + step)
  /\ IF Renews(step)
     THEN /\ backup_used' = 0 /\ spin_used' = FALSE /\ observe_replans_used' = 0
          /\ forward_distance' = 0 /\ recovery_active' = FALSE
          /\ reversed' = 0 /\ turns' = 0
     ELSE /\ forward_distance' = Floor(forward_distance + step)
          /\ UNCHANGED <<backup_used, spin_used, observe_replans_used, recovery_active,
                         reversed, turns>>
  /\ UNCHANGED <<since_backup, action>>

(* reset_for_new_task(), once the previous task's motion is over.             *)
NewTask ==
  /\ leaf = "none"
  /\ backup_used' = 0 /\ spin_used' = FALSE /\ observe_replans_used' = 0
  /\ forward_distance' = 0 /\ recovery_active' = FALSE /\ since_backup' = Cooldown
  /\ reversed' = 0 /\ turns' = 0 /\ ahead' = 0
  /\ UNCHANGED action

-----------------------------------------------------------------------------
(* The behavior server and the robot, external: a backup goes no further than  *)
(* its target, whether its leaf is there or not.                             *)

Reverses ==
  /\ leaf = "backup" /\ moved < reserved
  /\ moved' = moved + 1 /\ reversed' = reversed + 1 /\ ahead' = 0
  /\ UNCHANGED <<ledger, leaf, attended, reserved, turns>>

Turns ==
  /\ leaf = "spin" /\ moved = 0
  /\ moved' = 1 /\ turns' = turns + 1
  /\ UNCHANGED <<ledger, leaf, attended, reserved, reversed, ahead>>

CoolDown ==
  /\ since_backup' = IF backup_cooling THEN since_backup + 1 ELSE since_backup
  /\ UNCHANGED <<backup_used, spin_used, observe_replans_used, forward_distance,
                 recovery_active, action, observer>>

LedgerInit ==
  /\ backup_used = 0 /\ spin_used = FALSE /\ observe_replans_used = 0
  /\ forward_distance = 0 /\ recovery_active = FALSE
  /\ since_backup = Cooldown
  /\ leaf = "none" /\ attended = FALSE /\ reserved = 0 /\ moved = 0
  /\ reversed = 0 /\ turns = 0 /\ ahead = 0

LedgerNext ==
  \/ \E d \in MinBackup..MaxSingle : BackUp(d)
  \/ BackUpRejected
  \/ \E success, odom_fresh \in BOOLEAN : BackUpOver(success, odom_fresh)
  \/ \E sent \in BOOLEAN : Spin(sent)
  \/ SpinRejected
  \/ \E success \in BOOLEAN : SpinOver(success)
  \/ LetGo \/ ActionOver
  \/ ObserveReplan \/ BeginRecovery
  \/ \E step \in -MaxStep..MaxStep : Advance(step)
  \/ NewTask
  \/ Reverses \/ Turns \/ CoolDown

LedgerSpec == LedgerInit /\ [][LedgerNext]_ledger_vars

-----------------------------------------------------------------------------
(* Properties *)

(* Until the robot gets away it backs up by no more than the budget in all,    *)
(* whatever becomes of each backup: refused, failed, halted half way, lost,    *)
(* or ended without odometry.                                               *)
BudgetHolds == reversed <= MaxBudget

(* Until the robot gets away it spins at most once, and a spin given back has  *)
(* not begun.                                                                *)
OneSpin == turns <= 1

(* The ledger is renewed only when the robot is ForwardReset ahead of the      *)
(* rearmost place it has been at: progress made before a backup does not count. *)
RenewalIsEarned ==
  [][\A step \in -MaxStep..MaxStep :
       Advance(step) /\ Renews(step) => ahead + step >= ForwardReset]_ledger_vars
=============================================================================
