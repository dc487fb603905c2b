------------------------------- MODULE Daemon -------------------------------
(***************************************************************************)
(* What the rest of drkvl takes a daemon for (module Host): it is started, *)
(* then recorded, and ends; one whose command is killed in between runs on *)
(* unrecorded.  A start never doubles a daemon that is recorded or being   *)
(* started.  From the moment two commands overlap nothing is promised.     *)
(***************************************************************************)

VARIABLES
  state,    \* "none", "spawned", "known" or "untracked"
  orphan    \* one runs that no pid file names

Init == state = "none" /\ orphan = FALSE

Spawn      == state = "none" /\ state' = "spawned" /\ UNCHANGED orphan
Record     == state = "spawned" /\ state' = "known" /\ UNCHANGED orphan
SpawnFails == state = "spawned" /\ state' = "none" /\ UNCHANGED orphan
Ends       == state = "known" /\ state' = "none" /\ UNCHANGED orphan
Abandon    == state = "spawned" /\ state' = "none" /\ orphan' = TRUE
OrphanEnds == orphan /\ orphan' = FALSE /\ UNCHANGED state
LoseTrack  == state' = "untracked" /\ orphan' = FALSE

Next ==
  \/ Spawn \/ Record \/ SpawnFails \/ Ends
  \/ Abandon \/ OrphanEnds \/ LoseTrack

Settle == Record \/ SpawnFails \/ Abandon \/ (state = "spawned" /\ LoseTrack)

Spec == Init /\ [][Next]_<<state, orphan>> /\ WF_<<state, orphan>>(Settle)
=============================================================================
