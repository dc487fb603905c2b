------------------------------- MODULE MCProc -------------------------------
(***************************************************************************)
(* A small instance of Proc for TLC: the daemon with the longer start, and  *)
(* processes with another name, the other daemon among them.               *)
(***************************************************************************)
EXTENDS ProcProps

CONSTANTS c1, c2, p1, p2, p3

TwoCommands == {c1, c2}
ThreePids == {p1, p2, p3}
OneDaemon == {"tun2socks"}
OtherPrograms == {"xray"}
=============================================================================
