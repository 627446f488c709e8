------------------------------ MODULE Leadership ------------------------------
(***************************************************************************)
(* What the leader election promises whoever asks it: one pod at a time is *)
(* the leader, the lead passes from pod to pod only through a moment when  *)
(* nobody has it, and a pod that is gone never leads again.  Neither Redis *)
(* nor time appears.                                                       *)
(***************************************************************************)
EXTENDS Sage

CONSTANT Pods  \* the pods of the fleet, each life of one

VARIABLES
    seat,  \* the pod that leads by election, or None
    gone   \* the pods that have stopped or crashed

seatVars == <<seat, gone>>

SeatInit == seat = None /\ gone = {}

Take(p) == seat = None /\ p \notin gone /\ seat' = p /\ UNCHANGED gone

Yield == seat # None /\ seat' = None /\ UNCHANGED gone

Depart(p) ==
    /\ p \notin gone /\ gone' = gone \cup {p}
    /\ seat' = IF seat = p THEN None ELSE seat

SeatNext == Yield \/ \E p \in Pods : Take(p) \/ Depart(p)

SeatSpec == SeatInit /\ [][SeatNext]_seatVars
=============================================================================
