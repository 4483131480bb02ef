------------------------- MODULE VelocityInterlock -------------------------
(***************************************************************************)
(* What the final velocity interlock of carcar_navigation promises to the   *)
(* chassis, with no clock in it: an authorisation is live or it is not, a   *)
(* command counts only while the authorisation under which it arrived is    *)
(* live, and /cmd_vel carries such a command or zero.                       *)
(***************************************************************************)
CONSTANTS
  Tokens,       \* authorisation generations (uint64 sequence numbers, never 0)
  Velocities,   \* the non-zero finite velocities a planner may command
  Zero          \* the zero Twist

None == 0

VARIABLES
  auth,         \* the authorisation live now, or None
  fresh,        \* the command that may be forwarded now, Zero if there is none
  published     \* the last Twist sent to /cmd_vel

vars == <<auth, fresh, published>>

TypeOK ==
  /\ auth \in Tokens \cup {None}
  /\ fresh \in Velocities \cup {Zero}
  /\ published \in Velocities \cup {Zero}

Init == auth = None /\ fresh = Zero /\ published = Zero

(* A new generation forgets the command of the previous one. *)
Authorise(t) ==
  /\ auth' = t
  /\ fresh' = IF t = auth THEN fresh ELSE Zero
  /\ UNCHANGED published

Revoke ==
  /\ auth' = None
  /\ fresh' = Zero
  /\ UNCHANGED published

Accept(v) ==
  /\ auth # None
  /\ fresh' = v
  /\ UNCHANGED <<auth, published>>

(* The command aged out, or the next one was not a number. *)
Drop ==
  /\ fresh' = Zero
  /\ UNCHANGED <<auth, published>>

Publish ==
  /\ published' = fresh
  /\ UNCHANGED <<auth, fresh>>

Stop ==
  /\ auth' = None
  /\ fresh' = Zero
  /\ published' = Zero

Next ==
  \/ \E t \in Tokens : Authorise(t)
  \/ Revoke
  \/ \E v \in Velocities \cup {Zero} : Accept(v)
  \/ Drop
  \/ Publish
  \/ Stop

Spec == Init /\ [][Next]_vars
============================================================================
