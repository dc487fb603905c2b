------------------------------- MODULE Store -------------------------------
(***************************************************************************)
(* The profile store, storage.py and state.py: one file per profile and    *)
(* the DEFAULT file.  No command takes a lock, so each of them is a client *)
(* that reads and writes the files one statement at a time.  This module   *)
(* has the steps of storage.save, storage.remove and the DEFAULT file; the *)
(* commands that call them are in Subscriptions.                           *)
(*                                                                         *)
(* Abstraction: the stem of a profile is a pair <<base, copy>>: <<i, 1>>   *)
(* is "sub-i", <<i, k>> "sub-i-k"; bases that are no natural number stand  *)
(* for names the user gave.  The contents of a profile are told apart by   *)
(* where it came from.  The order of a directory listing is not modelled:  *)
(* where the code takes the first profile, any readable one is taken.      *)
(***************************************************************************)
EXTENDS Integers, FiniteSets

CONSTANTS
  Clients,    \* drkvl commands that may run at the same time
  Urls,       \* subscription URLs
  Manual,     \* contents of a profile that was added by hand
  Torn,       \* contents of a file that was created and not yet written
  NoName,     \* there is no DEFAULT file
  Blank,      \* DEFAULT is there and empty
  MaxIndex,   \* bound: bases of names that are tried
  MaxCopy     \* bound: files of one base

ASSUME StoreAssumption ==
  /\ MaxIndex \in Nat /\ MaxCopy \in Nat \ {0}
  /\ Manual \notin Urls /\ Torn \notin Urls \cup {Manual}
  /\ NoName # Blank

Bases == -1 .. MaxIndex
Names == Bases \X (1 .. MaxCopy)
ASSUME NameAssumption == NoName \notin Names /\ Blank \notin Names

VARIABLES
  files,     \* files[n]: contents of the profile file n
  default,   \* contents of DEFAULT
  owned,     \* SUBSCRIPTIONS: the names each URL owns, unreadable is empty
  killed,    \* commands that ended between two of their statements
  pc,        \* pc[c]: the next statement of client c, "idle" for none
  job        \* job[c]: its local variables, see Jobs

storeVars == <<files, default, owned, killed, pc, job>>

\* "save" and "remove" are what the client is in the middle of.
Jobs == [cmd: {"add", "rm", "default", "sub", "none"},
         phase: {"save", "remove"},
         name: Names \cup {NoName},       \* profile written, removed or made default
         base: Bases \cup {MaxIndex + 1},  \* next name to save under
         links: Nat,                      \* profiles that were fetched
         left: Nat,                       \* those still to save
         saved: SUBSET Names,             \* names saved from this URL
         todo: SUBSET Names,              \* names still to remove
         urls: SUBSET Urls,               \* subscriptions still to refresh
         url: Urls \cup {Manual},         \* the one being refreshed
         map: UNION {[U -> SUBSET Names] : U \in SUBSET Urls}]

NoJob == [cmd |-> "none", phase |-> "save", name |-> NoName, base |-> 0, links |-> 0,
          left |-> 0, saved |-> {}, todo |-> {}, urls |-> {}, url |-> Manual,
          map |-> [u \in {} |-> {}]]

Put(f, x, v) == [y \in DOMAIN f \cup {x} |-> IF y = x THEN v ELSE f[y]]
Without(f, x) == [y \in DOMAIN f \ {x} |-> f[y]]

\* list_all: profiles that parse.
Readable == {n \in DOMAIN files : files[n] # Torn}

At(c, label) == pc[c] = label
Step(c, from, to) == At(c, from) /\ pc' = [pc EXCEPT ![c] = to]

Finish(c) == pc' = [pc EXCEPT ![c] = "idle"] /\ job' = [job EXCEPT ![c] = NoJob]

\* Mutant: the loop over the links ends with the first.
ReturnFirst(c) ==
  CASE job[c].cmd # "sub" -> Finish(c)
    [] job[c].cmd = "sub" /\ job[c].phase = "remove" ->
         /\ pc' = [pc EXCEPT ![c] = "purge"]
         /\ UNCHANGED job
    [] OTHER -> pc' = [pc EXCEPT ![c] = "map_read"] /\ UNCHANGED job

\* What follows save or remove: add, rm and default are over, a refresh goes on
\* with the next name to remove or the next profile to save.
Return(c) ==
  CASE job[c].cmd # "sub" -> Finish(c)
    [] job[c].cmd = "sub" /\ job[c].phase = "remove" ->
         /\ pc' = [pc EXCEPT ![c] = "purge"]
         /\ UNCHANGED job
    [] OTHER ->
         /\ pc' = [pc EXCEPT ![c] = IF job[c].left = 1 THEN "map_read" ELSE "save"]
         /\ job' = [job EXCEPT ![c].left = @ - 1, ![c].base = @ + 1]

-----------------------------------------------------------------------------
\* storage.save

Free(b) == {k \in 1 .. MaxCopy : <<b, k>> \notin DOMAIN files}

\* Mutant: the first name is taken whether or not it exists.
TakeName(c) ==
  /\ Step(c, "save", "create")
  /\ job[c].base <= MaxIndex
  /\ job' = [job EXCEPT ![c].name = <<job[c].base, 1>>]
  /\ UNCHANGED <<files, default, owned, killed>>

\* name, name-2, name-3, ... until none exists.
FindName(c) ==
  /\ Step(c, "save", "create")
  /\ job[c].base <= MaxIndex
  /\ \E k \in Free(job[c].base) :
       /\ \A i \in Free(job[c].base) : k <= i
       /\ job' = [job EXCEPT ![c].name = <<job[c].base, k>>]
  /\ UNCHANGED <<files, default, owned, killed>>

Create(c) ==
  /\ Step(c, "create", "fill")
  /\ files' = Put(files, job[c].name, Torn)
  /\ UNCHANGED <<default, owned, killed, job>>

\* A file another client has removed stays removed; one that another client has
\* written through its own descriptor may end up as a mixture.
Fill(c) ==
  /\ Step(c, "fill", "adopt")
  /\ LET n == job[c].name IN
       IF n \in DOMAIN files
       THEN \E v \in {job[c].url} \cup IF files[n] = Torn THEN {} ELSE {Torn} :
              files' = [files EXCEPT ![n] = v]
       ELSE UNCHANGED files
  /\ job' = [job EXCEPT ![c].saved = @ \cup {job[c].name}]
  /\ UNCHANGED <<default, owned, killed>>

\* Mutant: the first profile does not become the default.
AdoptNothing(c) ==
  /\ At(c, "adopt")
  /\ Return(c)
  /\ UNCHANGED <<files, default, owned, killed>>

\* The first profile becomes the default.
Adopt(c) ==
  /\ At(c, "adopt")
  /\ IF default = NoName
     THEN pc' = [pc EXCEPT ![c] = "def_open"] /\ UNCHANGED job
     ELSE Return(c)
  /\ UNCHANGED <<files, default, owned, killed>>

\* state.set_default_name: open with O_TRUNC, then write.
OpenDefault(c) ==
  /\ Step(c, "def_open", "def_write")
  /\ default' = Blank
  /\ UNCHANGED <<files, owned, killed, job>>

WriteDefault(c) ==
  /\ At(c, "def_write")
  /\ default' = job[c].name
  /\ Return(c)
  /\ UNCHANGED <<files, owned, killed>>

-----------------------------------------------------------------------------
\* storage.remove

Unlink(c) ==
  /\ At(c, "unlink")
  /\ IF job[c].name \in DOMAIN files
     THEN pc' = [pc EXCEPT ![c] = "repoint"] /\ UNCHANGED job
     ELSE Return(c)
  /\ files' = Without(files, job[c].name)
  /\ UNCHANGED <<default, owned, killed>>

\* Mutant: a removed default is left as it is.
RepointNothing(c) ==
  /\ At(c, "repoint")
  /\ Return(c)
  /\ UNCHANGED <<files, default, owned, killed>>

\* Mutant: the pair of list_all is written, not the stem in it.
RepointToProfile(c) ==
  /\ Step(c, "repoint", "def_open")
  /\ default = job[c].name
  /\ \E n \in Readable : job' = [job EXCEPT ![c].name = files[n]]
  /\ UNCHANGED <<files, default, owned, killed>>

\* The default moves to a profile that is left, or goes with the last one.
Repoint(c) ==
  /\ At(c, "repoint")
  /\ \/ default # job[c].name /\ Return(c) /\ UNCHANGED default
     \/ /\ default = job[c].name /\ Readable = {}
        /\ default' = NoName
        /\ Return(c)
     \/ /\ default = job[c].name
        /\ \E n \in Readable : job' = [job EXCEPT ![c].name = n]
        /\ pc' = [pc EXCEPT ![c] = "def_open"]
        /\ UNCHANGED default
  /\ UNCHANGED <<files, owned, killed>>

StoreStep(c) ==
  \/ FindName(c) \/ Create(c) \/ Fill(c) \/ Adopt(c) \/ OpenDefault(c) \/ WriteDefault(c)
  \/ Unlink(c) \/ Repoint(c)
=============================================================================
