-------------------------------- MODULE Upgrade --------------------------------
(***************************************************************************)
(* What a platform update promises, whichever executor performs it: code   *)
(* is replaced only behind the closed write gate, the service is stopped   *)
(* only behind it or closes it by going down, and the gate opens again     *)
(* only in front of the installed version.                                 *)
(***************************************************************************)
EXTENDS Naturals

CONSTANT Versions

VARIABLES
    installed,  \* the version the next start of the service runs
    serving,    \* the version that serves requests; 0 while it is down
    gate        \* business writes are accepted iff it is "open"

uvars == <<installed, serving, gate>>

Init ==
    /\ installed \in Versions
    /\ serving = installed
    /\ gate = "open"

Close == gate = "open" /\ gate' = "closed" /\ UNCHANGED <<installed, serving>>

Stop == gate = "closed" /\ serving' = 0 /\ UNCHANGED <<installed, gate>>

Install == gate = "closed" /\ installed' \in Versions /\ UNCHANGED <<serving, gate>>

Start == serving' = installed /\ UNCHANGED <<installed, gate>>

Open ==
    /\ gate = "closed"
    /\ serving = installed
    /\ gate' = "open"
    /\ UNCHANGED <<installed, serving>>

(* An executor without a marker: the service that is down is the gate.     *)
Halt == gate = "open" /\ gate' = "closed" /\ serving' = 0 /\ UNCHANGED installed

Resume ==
    /\ gate = "closed" /\ serving = 0
    /\ serving' = installed /\ gate' = "open"
    /\ UNCHANGED installed

Next == Halt \/ Resume \/ Close \/ Stop \/ Install \/ Start \/ Open

Spec == Init /\ [][Next]_uvars
================================================================================
