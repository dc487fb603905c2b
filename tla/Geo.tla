-------------------------------- MODULE Geo --------------------------------
(***************************************************************************)
(* geo.py: the two data files that the rules of a tunnel refer to.  ensure *)
(* downloads what is missing through <name>.part; two commands may do so   *)
(* at the same time and one may be killed.                                 *)
(*                                                                         *)
(* Abstraction: the bytes of a file are "partial" (or none) or "whole".    *)
(* A .part file that is opened again is truncated; it is whole when the    *)
(* last of its writers is done, under whatever name it then has.           *)
(***************************************************************************)
EXTENDS Integers, Sequences

CONSTANTS
  Clients,     \* drkvl processes
  Files,       \* NAMES, in order
  NoOne        \* no client

ASSUME GeoAssumption == Files \in Seq(STRING) /\ Files # <<>> /\ NoOne \notin Clients

VARIABLES
  target,   \* target[f]: ASSETS / f
  part,     \* part[f]: ASSETS / f.part
  fetch,    \* fetch[c]: where ensure of client c is
  system,   \* a system directory has all files
  calm      \* no two downloads have overlapped, none was cut short unnoticed

geoVars == <<target, part, fetch, system, calm>>

NoFile == [has |-> "none", last |-> NoOne]

\* at: "off", "check", "open", "copy", "rename", "found", "failed"; the file it is at;
\* which file its descriptor writes to; and whether the server stopped sending.
Idle == [at |-> "off", file |-> 1, fd |-> "none", hangs |-> FALSE]

GeoInit ==
  /\ target = [f \in 1..Len(Files) |-> NoFile]
  /\ part = [f \in 1..Len(Files) |-> NoFile]
  /\ fetch = [c \in Clients |-> Idle]
  /\ system \in BOOLEAN
  /\ calm = TRUE

Downloading(c) == fetch[c].at \in {"open", "copy", "rename"}

\* _has_all of ASSETS: the files are there, and not empty, which one that is partial may
\* be or not.
HasAll == \A f \in 1..Len(Files) : target[f].has # "none"
AllWhole == \A f \in 1..Len(Files) : target[f].has = "whole"

\* What the descriptors on file f refer to once it was renamed or removed.
Repointed(f, to) ==
  [d \in Clients |-> IF fetch[d].at = "copy" /\ fetch[d].file = f
                     THEN [fetch[d] EXCEPT !.fd = to[@]] ELSE fetch[d]]

-----------------------------------------------------------------------------
\* find; what it finds need not be whole
Find(c) ==
  /\ fetch[c].at = "check"
  /\ \E all \in {HasAll, AllWhole} :
       fetch' = [fetch EXCEPT ![c] = [Idle EXCEPT !.at = IF all \/ system THEN "found" ELSE "open"]]
  /\ UNCHANGED <<target, part, system, calm>>

NextFile(c) ==
  IF fetch[c].file < Len(Files)
  THEN [Idle EXCEPT !.at = "open", !.file = fetch[c].file + 1]
  ELSE [Idle EXCEPT !.at = "found"]

Skip(c) ==
  /\ fetch[c].at = "open" /\ target[fetch[c].file].has # "none"
  /\ fetch' = [fetch EXCEPT ![c] = NextFile(c)]
  /\ UNCHANGED <<target, part, system, calm>>

\* Mutant: the download goes to the final name.
OpenTarget(c) ==
  LET f == fetch[c].file IN
  /\ fetch[c].at = "open" /\ target[f].has # "whole"
  /\ target' = [target EXCEPT ![f] = [has |-> "partial", last |-> c]]
  /\ fetch' = [fetch EXCEPT ![c].at = "copy", ![c].fd = "target"]
  /\ calm' = (calm /\ \A d \in Clients \ {c} : ~Downloading(d))
  /\ UNCHANGED <<part, system>>

OpenPart(c) ==
  LET f == fetch[c].file IN
  /\ fetch[c].at = "open" /\ target[f].has # "whole"
  /\ part' = [part EXCEPT ![f] = [has |-> "partial", last |-> c]]
  /\ \E hangs \in BOOLEAN :
       fetch' = [fetch EXCEPT ![c].at = "copy", ![c].fd = "part", ![c].hangs = hangs]
  /\ calm' = (calm /\ \A d \in Clients \ {c} : ~Downloading(d))
  /\ UNCHANGED <<target, system>>

\* copyfileobj returns: all bytes came, or the connection was closed early, which
\* HTTPResponse.read(n) reports as the end of the file.
Copied(c) ==
  LET f == fetch[c].file
      Filled(file) == IF file[f].last = c THEN [file EXCEPT ![f] = [has |-> "whole", last |-> NoOne]] ELSE file
  IN
  /\ fetch[c].at = "copy" /\ ~fetch[c].hangs
  /\ fetch' = [fetch EXCEPT ![c].at = "rename", ![c].fd = "none"]
  /\ \/ /\ part' = IF fetch[c].fd = "part" THEN Filled(part) ELSE part
        /\ target' = IF fetch[c].fd = "target" THEN Filled(target) ELSE target
        /\ calm' = calm
     \/ calm' = FALSE /\ UNCHANGED <<part, target>>
  /\ UNCHANGED <<system>>

\* Whatever is at .part by now.
Rename(c) ==
  LET f == fetch[c].file IN
  /\ fetch[c].at = "rename" /\ part[f].has # "none"
  /\ target' = [target EXCEPT ![f] = part[f]]
  /\ part' = [part EXCEPT ![f] = NoFile]
  /\ fetch' = [Repointed(f, [part |-> "target", target |-> "gone", gone |-> "gone"])
               EXCEPT ![c] = NextFile(c)]
  /\ UNCHANGED <<system, calm>>

\* Mutant: urlopen has no timeout.
FailNoTimeout(c) ==
  LET f == fetch[c].file IN
  /\ \/ fetch[c].at = "open" /\ target[f].has # "whole"
     \/ fetch[c].at = "copy" /\ ~fetch[c].hangs
     \/ fetch[c].at = "rename" /\ part[f].has = "none"
  /\ part' = [part EXCEPT ![f] = NoFile]
  /\ fetch' = [Repointed(f, [part |-> "gone", target |-> "target", gone |-> "gone"])
               EXCEPT ![c] = [Idle EXCEPT !.at = "failed"]]
  /\ UNCHANGED <<target, system, calm>>

\* No answer within the timeout, an error in the copy, or .part is not there to be
\* renamed: it is removed, and ensure raises.
Fail(c) ==
  LET f == fetch[c].file IN
  /\ \/ fetch[c].at = "open" /\ target[f].has # "whole"
     \/ fetch[c].at = "copy"
     \/ fetch[c].at = "rename" /\ part[f].has = "none"
  /\ part' = [part EXCEPT ![f] = NoFile]
  /\ fetch' = [Repointed(f, [part |-> "gone", target |-> "target", gone |-> "gone"])
               EXCEPT ![c] = [Idle EXCEPT !.at = "failed"]]
  /\ UNCHANGED <<target, system, calm>>

Ensure(c) == Find(c) \/ Skip(c) \/ OpenPart(c) \/ Copied(c) \/ Rename(c) \/ Fail(c)
=============================================================================
