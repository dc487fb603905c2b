------------------------- MODULE SubscriptionsProps -------------------------
(***************************************************************************)
(* What the profile store and the subscriptions must keep.                 *)
(***************************************************************************)
EXTENDS Subscriptions

\* Type invariant of the Subscriptions module.
StoreTypeOK ==
  /\ DOMAIN files \subseteq Names
  /\ \A n \in DOMAIN files : files[n] \in Urls \cup {Manual, Torn}
  /\ default \in Names \cup {NoName, Blank} /\ killed \in Nat
  /\ DOMAIN owned \subseteq Urls /\ \A u \in DOMAIN owned : owned[u] \subseteq Names
  /\ job \in [Clients -> Jobs]

AllIdle == \A c \in Clients : pc[c] = "idle"

\* DEFAULT names a profile that loads, and there is none only without profiles: no
\* sequence of add, rm, default and refreshes leaves `drkvl up` without its target.
DefaultLoads ==
  AllIdle /\ killed = 0 => default \in IF Readable = {} THEN {NoName} ELSE Readable

\* Every profile that came from a subscription is in that subscription's entry of the
\* map, so the next refresh replaces it (cmd_sub).
ProfilesOwned ==
  AllIdle /\ killed = 0 =>
    \A n \in Readable : files[n] \in Urls =>
      files[n] \in DOMAIN owned /\ n \in owned[files[n]]

\* save never writes over a profile that is there, whether or not commands are killed.
NeverOverwritten ==
  [][\A n \in Readable : n \in DOMAIN files' => files'[n] = files[n]]_storeVars

\* A refresh that gets to its map has saved every link it fetched, no two of them under
\* one name; the map will list these names and no other for the URL, and the files are
\* all there, whatever unreadable files earlier commands left behind.
RefreshComplete ==
  \A c \in Clients : pc[c] \in {"map_open", "map_write"} =>
    /\ Cardinality(job[c].saved) = job[c].links
    /\ job[c].map[job[c].url] = job[c].saved
    /\ \A n \in job[c].saved : n \in DOMAIN files /\ files[n] = job[c].url

\* Every command ends.
StoreCommandsEnd == \A c \in Clients : pc[c] # "idle" ~> pc[c] = "idle"

\* cmd_sub_update: "only that subscription's own profiles are touched".
OnlyOwnTouched ==
  [][\A c \in Clients, n \in Readable :
       pc[c] = "unlink" /\ job[c].cmd = "sub" /\ n \notin DOMAIN files' =>
         files[n] = job[c].url]_storeVars
=============================================================================
