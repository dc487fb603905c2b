----------------------------- MODULE Connection -----------------------------
(***************************************************************************)
(* What drkvl promises its user, without saying how.  Between two commands *)
(* the traffic of the machine goes out in the clear ("plain"), through the *)
(* tunnel ("sealed") or not at all ("cut", tun2socks died).  Only a plain  *)
(* machine is connected or measured; no command but one that disconnects   *)
(* makes a sealed one plain again, and that one always does, as does every *)
(* measurement; every command ends.  A command that is killed half way is  *)
(* outside this promise.                                                   *)
(***************************************************************************)

VARIABLE mode

Init == mode = "plain"

Connect      == mode = "plain" /\ mode' = "connecting"
ConnectEnds  == mode = "connecting" /\ mode' \in {"plain", "sealed", "cut"}
TunnelBreaks == mode = "sealed" /\ mode' = "cut"
Disconnect   == mode \in {"sealed", "cut"} /\ mode' = "disconnecting"
Disconnected == mode = "disconnecting" /\ mode' = "plain"
Measure      == mode = "plain" /\ mode' = "measuring"
Measured     == mode = "measuring" /\ mode' = "plain"

Next ==
  \/ Connect \/ ConnectEnds \/ TunnelBreaks
  \/ Disconnect \/ Disconnected \/ Measure \/ Measured

Ends == ConnectEnds \/ Disconnected \/ Measured

Spec == Init /\ [][Next]_mode /\ WF_mode(Ends)
=============================================================================
