----------------------------- MODULE Inspector -----------------------------
(***************************************************************************)
(* The inspector thread of the infantry robot, with the receiver of the    *)
(* remote that it puts in step again.  It publishes one failure flag each  *)
(* for the remote, the gimbal and the chassis, which UserThread may read   *)
(* between any two of its writes (see Infantry), and turns the alert of    *)
(* the buzzer on and off.                                                  *)
(***************************************************************************)
EXTENDS Remote

Groups == {"GIMBAL", "CHASSIS"}

VARIABLES
  lost,           \* groups with a motor that has sent nothing for 250 ms
  remoteFailure,  \* InspectorI::remote_failure_
  motorFailure,   \* gimbal_failure_ and chassis_failure_, by group
  alert,          \* BuzzerSKD::alerting()
  check           \* the check the thread makes next

flags == <<remoteFailure, motorFailure, alert>>
vars  == <<remoteVars, lost, flags, check>>

Init ==
  /\ RemoteInit
  /\ lost = {}
  /\ remoteFailure = FALSE /\ motorFailure = [g \in Groups |-> FALSE]
  /\ alert = FALSE
  /\ check = "DATA"

Failure == remoteFailure \/ \E g \in Groups : motorFailure[g]

-----------------------------------------------------------------------------
(* "Set it to true to avoid problem when thread switches to User in the    *)
(* middle".                                                                *)
CheckData ==
  /\ check = "DATA"
  /\ remoteFailure' = (remoteFailure \/ DataError)
  /\ check' = IF DataError THEN "RESYNC" ELSE "REMOTE"
  /\ UNCHANGED <<remoteVars, lost, motorFailure, alert>>

(* The loop around uart_synchronize(); the flag falls before the remote is *)
(* checked for being on.                                                   *)
Resync ==
  /\ check = "RESYNC" /\ sync = "OFF"
  /\ IF DataError
     THEN Enter /\ UNCHANGED <<remoteFailure, check>>
     ELSE /\ remoteFailure' = FALSE
          /\ check' = "REMOTE"
          /\ UNCHANGED remoteVars
  /\ UNCHANGED <<lost, motorFailure, alert>>

RemoteLatched ==   \* mutant of CheckRemote: a failure is never taken back
  /\ check = "REMOTE"
  /\ remoteFailure' = (remoteFailure \/ ~fresh)
  /\ check' = "GIMBAL"
  /\ UNCHANGED <<remoteVars, lost, motorFailure, alert>>

CheckRemote ==
  /\ check = "REMOTE"
  /\ remoteFailure' = ~fresh
  /\ check' = "GIMBAL"
  /\ UNCHANGED <<remoteVars, lost, motorFailure, alert>>

GimbalTwice(g) ==   \* mutant of CheckMotors: always the gimbal's motors
  /\ check = g
  /\ motorFailure' = [motorFailure EXCEPT ![g] = "GIMBAL" \in lost]
  /\ check' = IF g = "GIMBAL" THEN "CHASSIS" ELSE "ALERT"
  /\ UNCHANGED <<remoteVars, lost, remoteFailure, alert>>

CheckMotors(g) ==
  /\ check = g
  /\ motorFailure' = [motorFailure EXCEPT ![g] = g \in lost]
  /\ check' = IF g = "GIMBAL" THEN "CHASSIS" ELSE "ALERT"
  /\ UNCHANGED <<remoteVars, lost, remoteFailure, alert>>

AlertStays ==   \* mutant of Alert: never off again
  /\ check = "ALERT"
  /\ alert' = (alert \/ Failure)
  /\ check' = "DATA"
  /\ UNCHANGED <<remoteVars, lost, remoteFailure, motorFailure>>

Alert ==
  /\ check = "ALERT"
  /\ alert' = Failure
  /\ check' = "DATA"
  /\ UNCHANGED <<remoteVars, lost, remoteFailure, motorFailure>>

Inspect == CheckData \/ Resync \/ CheckRemote \/ (\E g \in Groups : CheckMotors(g)) \/ Alert

MotorsChange(g) ==
  /\ lost' = IF g \in lost THEN lost \ {g} ELSE lost \cup {g}
  /\ UNCHANGED <<remoteVars, flags, check>>

Next == \/ Inspect
        \/ Synchronize /\ UNCHANGED <<lost, flags, check>>
        \/ Transmission /\ UNCHANGED <<lost, flags, check>>
        \/ \E g \in Groups : MotorsChange(g)

Spec == Init /\ [][Next]_vars

(* The inspector is periodic, and a frame does not replace a bad one within *)
(* the few instructions between its two looks at the data every time.      *)
FairSpec == Spec /\ RemoteFairness /\ WF_vars(Inspect) /\ SF_vars(Resync /\ DataError)

-----------------------------------------------------------------------------
TypeOK ==
  /\ RemoteTypeOK
  /\ lost \in SUBSET Groups
  /\ remoteFailure \in BOOLEAN /\ motorFailure \in [Groups -> BOOLEAN]
  /\ alert \in BOOLEAN
  /\ check \in {"DATA", "RESYNC", "REMOTE", "ALERT"} \cup Groups

(* The driver is never left unarmed.  Between frames nobody but the        *)
(* callback arms it, and the callback is not called again: the remote      *)
(* would be dead, with good old data that no check finds fault with.       *)
ReceiverArmed == ~synchronizing => rx = "FRAME"

(* As long as frames are dropped, UserThread finds a failure.              *)
Shielded == synchronizing => remoteFailure

(* A motor that has fallen silent, or a remote that is off, is noticed and *)
(* stays noticed: neither the loop that puts the remote in step, where the *)
(* motors are not looked at, nor the moment after it in which the flag of  *)
(* the remote is down, hides it for long.                                  *)
LossNoticed ==
  /\ \A g \in Groups : <>[](g \in lost) => <>[]Failure
  /\ <>[]~transmitting => <>[]remoteFailure

(* When everything works again the robot can be driven again, however the  *)
(* remote came back.                                                       *)
Recovers == <>[](transmitting /\ lost = {}) => <>[]~Failure

(* The alert follows the flags, both ways, whenever the inspector comes    *)
(* to it; it does not come to it in the loop that resynchronises.          *)
AlertFollows ==
  /\ <>[]Failure /\ []<>(check = "ALERT") => <>[]alert
  /\ <>[]~Failure => <>[]~alert
=============================================================================
