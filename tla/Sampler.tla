------------------------------- MODULE Sampler -------------------------------
(***************************************************************************)
(* What the control plane of the sensor driver promises to a user of       *)
(* /dev/sensor_sample: sampling is a switch.  While it is on, the machinery*)
(* (timer, callback, queued work) is active and stays so; somebody who     *)
(* switches it off waits until the machinery is quiet; a device that is    *)
(* gone never samples again.  SensorCtl is shown to implement this.        *)
(***************************************************************************)

VARIABLES
    mode,     \* "on", "stopping" (somebody waits for quiet), "off" or "gone"
    active    \* is any part of the sampling machinery armed, queued or running

vars == <<mode, active>>

TypeOK == /\ mode \in {"on", "stopping", "off", "gone"}
          /\ active \in BOOLEAN

Init == mode = "on" /\ active = TRUE

(* START on a stopped device. *)
Start == /\ mode = "off"
         /\ mode' = "on"
         /\ UNCHANGED active

(* The timer is armed: from here on samples are taken. *)
Begin == /\ mode = "on" /\ ~active
         /\ active' = TRUE
         /\ UNCHANGED mode

(* STOP or the removal of the device begins. *)
Stop == /\ mode \in {"on", "off"}
        /\ mode' = "stopping"
        /\ UNCHANGED active

(* The last part of the machinery comes to rest. *)
Drain == /\ mode = "stopping" /\ active
         /\ active' = FALSE
         /\ UNCHANGED mode

(* The one who waited returns: STOP to "off", the removal to "gone". *)
Stopped == /\ mode = "stopping" /\ ~active
           /\ mode' \in {"off", "gone"}
           /\ UNCHANGED active

Next == Start \/ Begin \/ Stop \/ Drain \/ Stopped

Spec == Init /\ [][Next]_vars
=============================================================================
