------------------------------ MODULE WsChannel ------------------------------
(***************************************************************************)
(* What the WebSocket transport promises its server (spec 5, "probe        *)
(* upgrade"): frames go out one at a time, in order, and the probe upgrade *)
(* is a PING probe immediately followed by UPGRADE: while it is under way  *)
(* no other frame reaches the wire. The upgrade may give up, before or     *)
(* after its probe; after that, frames flow again.                         *)
(***************************************************************************)
EXTENDS Sequences

CONSTANTS
    ProbeFrame,   \* the "2probe" frame
    UpgradeFrame, \* the "5" frame
    DataFrames    \* every other frame a caller may send

VARIABLES
    wire,   \* frames sent to the server, in order
    phase   \* "none", "probing", "done" or "failed"

Init == wire = <<>> /\ phase = "none"

SendData ==
    /\ phase # "probing"
    /\ \E f \in DataFrames : wire' = Append(wire, f)
    /\ UNCHANGED phase

SendProbe ==
    /\ phase = "none"
    /\ wire' = Append(wire, ProbeFrame)
    /\ phase' = "probing"

SendUpgrade ==
    /\ phase = "probing"
    /\ wire' = Append(wire, UpgradeFrame)
    /\ phase' = "done"

GiveUp ==
    /\ phase \in {"none", "probing"}
    /\ phase' = "failed"
    /\ UNCHANGED wire

Next == SendData \/ SendProbe \/ SendUpgrade \/ GiveUp

Spec == Init /\ [][Next]_<<wire, phase>>

====
