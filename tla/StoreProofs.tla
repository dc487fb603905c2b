---------------------------- MODULE StoreProofs ----------------------------
(***************************************************************************)
(* Proofs about the profile store and the subscriptions: the types for any *)
(* number of commands at once, the rest for commands that run one after    *)
(* the other, which the code assumes and MCTwoClients shows it needs.      *)
(***************************************************************************)
EXTENDS SubscriptionsProps, FiniteSetTheorems, TLAPS

\* One command at a time: only one client.
OneAtATime == \E c : Clients = {c}

AfterFetch == {"purge", "unlink", "repoint", "save", "create", "fill", "adopt", "def_open",
               "def_write", "map_read", "map_open", "map_write"}
Labels == AfterFetch \cup {"idle", "fetch"}

\* The local variables j of a client at label l.
Fits(j, l) ==
  /\ j \in Jobs /\ l \in Labels
  /\ l = "idle" => j.cmd # "sub"
  /\ l \in {"unlink", "repoint", "create", "fill", "adopt", "def_open", "def_write"} =>
       j.name \in Names
  /\ l \in {"save", "create", "fill", "adopt", "map_read", "map_open", "map_write"} =>
       j.phase = "save"
  /\ l \in {"purge", "unlink", "repoint"} => j.phase = "remove"
  /\ l \in {"fetch", "purge", "map_read", "map_open", "map_write"} => j.cmd = "sub"
  /\ j.url \in Urls <=> j.cmd = "sub" /\ l # "fetch"
  /\ j.cmd = "sub" /\ l \in AfterFetch \ {"map_read", "map_open", "map_write"} =>
       j.left >= 1
  /\ j.phase = "save" /\ l \in {"create", "fill", "adopt", "def_open", "def_write"}
       /\ j.cmd = "sub" => j.base \in Bases
  /\ j.phase = "remove" => j.saved = {}

ClientsOK ==
  /\ job \in [Clients -> Jobs] /\ pc \in [Clients -> Labels]
  /\ \A c \in Clients : Fits(job[c], pc[c])

FilesOK ==
  /\ DOMAIN files \subseteq Names
  /\ \A n \in DOMAIN files : files[n] \in Urls \cup {Manual, Torn}
  /\ default \in Names \cup {NoName, Blank} /\ killed \in Nat
  /\ DOMAIN owned \subseteq Urls /\ \A u \in DOMAIN owned : owned[u] \subseteq Names

StoreInv == FilesOK /\ ClientsOK

\* What a client has saved is there, and the file it is about to write is its own.
Saved(c) ==
  LET j == job[c] IN
    /\ pc[c] = "create" => j.name \notin DOMAIN files
    /\ pc[c] = "fill" => j.name \in DOMAIN files /\ files[j.name] = Torn
    /\ \A n \in j.saved : n \in DOMAIN files /\ files[n] = j.url
    /\ pc[c] \in {"map_open", "map_write"} =>
         j.url \in DOMAIN j.map /\ j.map[j.url] = j.saved

\* 1 between the writing of a profile and the return of save.
Written(c) ==
  IF job[c].phase = "save" /\ pc[c] \in {"adopt", "def_open", "def_write"} THEN 1 ELSE 0

\* The links of a refresh are the names it has saved and the profiles still to save.
Counted(c) ==
  LET j == job[c] IN
    /\ IsFiniteSet(j.saved)
    /\ j.cmd = "sub" /\ pc[c] \in AfterFetch =>
         Cardinality(j.saved) + j.left = j.links + Written(c)
    /\ pc[c] \in {"map_read", "map_open", "map_write"} => j.left = 0

SavedInv == StoreInv /\ \A c \in Clients : Saved(c) /\ Counted(c)

\* DEFAULT and the files while client c is at its label, nothing having been killed.
Defaulted(c) ==
  LET n == job[c].name IN
    /\ \A m \in DOMAIN files : files[m] = Torn => pc[c] = "fill" /\ m = n
    /\ CASE pc[c] = "adopt" -> n \in Readable /\ default \in Readable \cup {NoName}
         [] pc[c] \in {"def_open", "def_write"} -> n \in Readable
         [] pc[c] = "repoint" -> n \notin DOMAIN files /\ default \in Readable \cup {n}
         [] OTHER -> default \in IF Readable = {} THEN {NoName} ELSE Readable

\* Where the name of a profile that came from a subscription is kept.
Listed(c, n) ==
  LET j == job[c]
      M == IF pc[c] = "map_write" THEN j.map ELSE owned
  IN IF files[n] # j.url THEN files[n] \in DOMAIN M /\ n \in M[files[n]]
     ELSE IF j.phase = "save" THEN n \in j.saved
     ELSE n \in j.todo \cup (IF pc[c] = "unlink" THEN {j.name} ELSE {})

\* The map that will be written is the one that was read, but for this entry.
MapKept(c) ==
  pc[c] = "map_open" =>
    \A u \in DOMAIN owned : u \in DOMAIN job[c].map /\ (u # job[c].url =>
      job[c].map[u] = owned[u])

OwnedBy(c) ==
  MapKept(c) /\ \A n \in Readable : files[n] \in Urls => Listed(c, n)

CleanInv ==
  /\ SavedInv
  /\ killed = 0 => \A c \in Clients : Defaulted(c) /\ OwnedBy(c)

-----------------------------------------------------------------------------
Less == {p \in Nat \X Nat : p[1] < p[2]}

LEMMA LessWellFounded == IsWellFoundedOn(Less, Nat)
  BY NatLessThanWellFounded DEF OpToRel, Less

\* A set of numbers up to m has a largest one.
LEMMA Largest ==
  ASSUME NEW m \in Nat, NEW S \in SUBSET (0 .. m), S # {}
  PROVE  \E i \in S : \A j \in S : j <= i
<1> DEFINE T == {m - i : i \in S}
<1>1. T \subseteq Nat /\ T # {}
  OBVIOUS
<1>2. PICK x \in T : \A y \in T : ~(<<y, x>> \in Less)
  BY <1>1, LessWellFounded, WFMin
<1>3. PICK i \in S : x = m - i
  BY DEF T
<1>4. ASSUME NEW j \in S PROVE j <= i
  <2>1. m - j \in T
    OBVIOUS
  <2>2. ~(<<m - j, m - i>> \in Less)
    BY <2>1, <1>2, <1>3
  <2> QED
    BY <2>2 DEF Less
<1> QED
  BY <1>4

\* next_index is a base, or one past the last.
LEMMA NextIndexRange == NextIndex \in Bases \cup {MaxIndex + 1}
<1> DEFINE i == CHOOSE i \in SubIndices : \A j \in SubIndices : j <= i
<1>1. CASE SubIndices = {}
  BY <1>1, StoreAssumption DEF NextIndex, Bases
<1>2. CASE SubIndices # {}
  <2>1. \E k \in SubIndices : \A j \in SubIndices : j <= k
    BY <1>2, Largest, StoreAssumption DEF SubIndices
  <2>2. i \in 0 .. MaxIndex
    BY <2>1 DEF SubIndices
  <2> QED
    BY <1>2, <2>2, StoreAssumption DEF NextIndex, Bases
<1> QED
  BY <1>1, <1>2

Maps == UNION {[U -> SUBSET Names] : U \in SUBSET Urls}

LEMMA MapsAre ==
  ASSUME NEW U \in SUBSET Urls, NEW f \in [U -> SUBSET Names]
  PROVE  f \in Maps
  BY DEF Maps

LEMMA NoJobIsJob == NoJob \in Jobs
<1>1. [u \in {} |-> {}] \in Maps
  <2>1. {} \in SUBSET Urls /\ [u \in {} |-> {}] \in [{} -> SUBSET Names]
    OBVIOUS
  <2> QED
    BY <2>1, MapsAre
<1>2. 0 \in Bases
  BY StoreAssumption DEF Bases
<1> QED
  BY <1>1, <1>2 DEF NoJob, Jobs, Maps

LEMMA NothingFits == Fits(NoJob, "idle")
  BY NoJobIsJob, StoreAssumption DEF Fits, NoJob, Labels, AfterFetch

LEMMA Moved ==
  ASSUME ClientsOK, NEW c \in Clients, NEW j, NEW l, Fits(j, l),
         job' = [job EXCEPT ![c] = j], pc' = [pc EXCEPT ![c] = l]
  PROVE  /\ ClientsOK'
         /\ job'[c] = j /\ pc'[c] = l
         /\ \A d \in Clients \ {c} : job'[d] = job[d] /\ pc'[d] = pc[d]
<1>1. j \in Jobs /\ l \in Labels
  BY DEF Fits
<1>2. job' \in [Clients -> Jobs] /\ pc' \in [Clients -> Labels]
  BY <1>1 DEF ClientsOK
<1>3. job'[c] = j /\ pc'[c] = l
  BY DEF ClientsOK
<1>4. \A d \in Clients \ {c} : job'[d] = job[d] /\ pc'[d] = pc[d]
  BY DEF ClientsOK
<1>5. ASSUME NEW d \in Clients PROVE Fits(job'[d], pc'[d])
  BY <1>3, <1>4 DEF ClientsOK
<1> QED
  BY <1>2, <1>3, <1>4, <1>5 DEF ClientsOK

LEMMA Finished ==
  ASSUME ClientsOK, NEW c \in Clients, Finish(c)
  PROVE  ClientsOK' /\ job'[c] = NoJob /\ pc'[c] = "idle"
  BY ZenonT(60), Moved, NothingFits DEF Finish

LEMMA NextUrls ==
  ASSUME ClientsOK, NEW c \in Clients, NEW U \in SUBSET Urls, NextUrl(c, U)
  PROVE  /\ ClientsOK'
         /\ job'[c].url = Manual /\ job'[c].saved = {} /\ job'[c].phase = "save"
         /\ pc'[c] \in {"idle", "fetch"}
<1>1. CASE U = {}
  BY <1>1, Finished DEF NextUrl, NoJob
<1>2. CASE U # {}
  <2> DEFINE j == [NoJob EXCEPT !.cmd = "sub", !.urls = U]
  <2>1. j \in Jobs
    BY NoJobIsJob DEF NoJob, Jobs
  <2>4. Fits(j, "fetch")
    BY <2>1, StoreAssumption DEF Fits, NoJob, Labels, AfterFetch
  <2>2. job' = [job EXCEPT ![c] = j] /\ pc' = [pc EXCEPT ![c] = "fetch"]
    BY <1>2 DEF NextUrl
  <2>3. j.url = Manual /\ j.saved = {} /\ j.phase = "save"
    BY DEF NoJob
  <2> HIDE DEF j
  <2> QED
    BY <2>4, <2>2, <2>3, Moved
<1> QED
  BY <1>1, <1>2

\* What follows save, remove and the writing of DEFAULT.
LEMMA Returns ==
  ASSUME ClientsOK, NEW c \in Clients, Return(c),
         pc[c] \in {"adopt", "def_write", "unlink", "repoint"}
  PROVE  ClientsOK'
<1>1. CASE job[c].cmd # "sub"
  BY <1>1, Finished DEF Return
<1>2. CASE job[c].cmd = "sub" /\ job[c].phase = "remove"
  <2>1. Fits(job[c], "purge")
    BY <1>2 DEF ClientsOK, Fits, Labels, AfterFetch
  <2>2. job' = [job EXCEPT ![c] = job[c]] /\ pc' = [pc EXCEPT ![c] = "purge"]
    BY <1>2 DEF Return, ClientsOK
  <2> QED
    BY <2>1, <2>2, Moved
<1>3. CASE job[c].cmd = "sub" /\ job[c].phase = "save"
  <2> DEFINE j == [job[c] EXCEPT !.left = @ - 1, !.base = @ + 1]
             l == IF job[c].left = 1 THEN "map_read" ELSE "save"
  <2>1. job[c] \in Jobs /\ job[c].left >= 1 /\ job[c].base \in Bases /\ job[c].url \in Urls
    BY <1>3 DEF ClientsOK, Fits, Labels, AfterFetch
  <2>2. j.left \in Nat /\ (l = "save" => j.left >= 1)
        /\ j.base \in Bases \cup {MaxIndex + 1}
    BY <2>1, StoreAssumption DEF Jobs, Bases
  <2>3. j \in Jobs
    BY <2>1, <2>2 DEF Jobs
  <2>4. Fits(j, l)
    BY <2>1, <2>2, <2>3, <1>3 DEF Fits, Labels, AfterFetch, Jobs
  <2>5. job' = [job EXCEPT ![c] = j] /\ pc' = [pc EXCEPT ![c] = l]
    BY <1>3 DEF Return, ClientsOK
  <2> HIDE DEF j, l
  <2> QED
    BY <2>4, <2>5, Moved
<1> QED
  BY <1>1, <1>2, <1>3 DEF ClientsOK, Jobs

-----------------------------------------------------------------------------
\* Every step of a client keeps the types.
LEMMA Stepped ==
  ASSUME ClientsOK, NEW c \in Clients, NEW l, Fits(job[c], l),
         pc' = [pc EXCEPT ![c] = l], job' = job
  PROVE  ClientsOK' /\ job'[c] = job[c] /\ pc'[c] = l
<1>1. l \in Labels
  BY DEF Fits
<1>2. pc' \in [Clients -> Labels] /\ pc'[c] = l
  BY <1>1 DEF ClientsOK
<1>3. ASSUME NEW d \in Clients PROVE Fits(job[d], pc'[d])
  <2>1. CASE d = c
    BY <2>1, <1>2
  <2>2. CASE d # c
    BY <2>2 DEF ClientsOK
  <2> QED
    BY <2>1, <2>2
<1> QED
  BY <1>2, <1>3 DEF ClientsOK

LEMMA FindNameOK ==
  ASSUME StoreInv, NEW c \in Clients, FindName(c) PROVE StoreInv'
<1>1. PICK k \in Free(job[c].base) : job' = [job EXCEPT ![c].name = <<job[c].base, k>>]
  BY DEF FindName
<1> DEFINE j == [job[c] EXCEPT !.name = <<job[c].base, k>>]
<1>2. job[c] \in Jobs /\ Fits(job[c], "save") /\ pc[c] = "save"
  BY DEF FindName, Step, At, StoreInv, ClientsOK, Fits
<1>3. job[c].base \in Bases /\ <<job[c].base, k>> \in Names
  BY <1>2, StoreAssumption DEF FindName, Jobs, Bases, Names, Free
<1>4. j \in Jobs
  BY <1>2, <1>3 DEF Jobs
<1>5. Fits(j, "create")
  BY <1>2, <1>3, <1>4 DEF Fits, Labels, AfterFetch, Jobs
<1>6. job' = [job EXCEPT ![c] = j] /\ pc' = [pc EXCEPT ![c] = "create"]
  BY <1>1 DEF FindName, Step
<1>7. ClientsOK'
  <2> HIDE DEF j
  <2> QED
    BY <1>5, <1>6, Moved DEF StoreInv
<1>8. FilesOK'
  BY DEF FilesOK, FindName, StoreInv
<1> QED
  BY <1>7, <1>8 DEF StoreInv

LEMMA CreateOK ==
  ASSUME StoreInv, NEW c \in Clients, Create(c) PROVE StoreInv'
<1>1. job[c] \in Jobs /\ Fits(job[c], "create") /\ job[c].name \in Names
  BY DEF Create, Step, At, StoreInv, ClientsOK, Fits
<1>2. Fits(job[c], "fill")
  BY <1>1 DEF Fits, Labels, AfterFetch
<1>3. ClientsOK'
  BY <1>2, Stepped DEF Create, Step, StoreInv
<1>4. FilesOK'
  BY <1>1 DEF FilesOK, Create, Put, StoreInv
<1> QED
  BY <1>3, <1>4 DEF StoreInv

LEMMA FillOK ==
  ASSUME StoreInv, NEW c \in Clients, Fill(c) PROVE StoreInv'
<1> DEFINE j == [job[c] EXCEPT !.saved = @ \cup {job[c].name}]
<1>1. job[c] \in Jobs /\ Fits(job[c], "fill") /\ job[c].name \in Names
  BY DEF Fill, Step, At, StoreInv, ClientsOK, Fits
<1>2. j \in Jobs
  BY <1>1 DEF Jobs
<1>3. Fits(j, "adopt")
  BY <1>1, <1>2 DEF Fits, Labels, AfterFetch, Jobs
<1>4. job' = [job EXCEPT ![c] = j] /\ pc' = [pc EXCEPT ![c] = "adopt"]
  BY DEF Fill, Step
<1>5. ClientsOK'
  <2> HIDE DEF j
  <2> QED
    BY <1>3, <1>4, Moved DEF StoreInv
<1>6. job[c].url \in Urls \cup {Manual}
  BY <1>1 DEF Jobs
<1>7. FilesOK'
  BY <1>1, <1>6 DEF FilesOK, Fill, StoreInv
<1> QED
  BY <1>5, <1>7 DEF StoreInv

LEMMA AdoptOK ==
  ASSUME StoreInv, NEW c \in Clients, Adopt(c) PROVE StoreInv'
<1>1. FilesOK'
  BY DEF FilesOK, Adopt, StoreInv
<1>2. CASE default = NoName
  <2>1. Fits(job[c], "def_open")
    BY DEF Adopt, At, StoreInv, ClientsOK, Fits, Labels, AfterFetch
  <2> QED
    BY <1>1, <1>2, <2>1, Stepped DEF Adopt, StoreInv
<1>3. CASE default # NoName
  BY <1>1, <1>3, Returns DEF Adopt, At, StoreInv
<1> QED
  BY <1>2, <1>3

LEMMA OpenDefaultOK ==
  ASSUME StoreInv, NEW c \in Clients, OpenDefault(c) PROVE StoreInv'
<1>1. Fits(job[c], "def_write")
  BY DEF OpenDefault, Step, At, StoreInv, ClientsOK, Fits, Labels, AfterFetch
<1>2. FilesOK'
  BY DEF FilesOK, OpenDefault, StoreInv
<1> QED
  BY <1>1, <1>2, Stepped DEF OpenDefault, Step, StoreInv

LEMMA WriteDefaultOK ==
  ASSUME StoreInv, NEW c \in Clients, WriteDefault(c) PROVE StoreInv'
<1>1. job[c].name \in Names
  BY DEF WriteDefault, At, StoreInv, ClientsOK, Fits
<1>2. FilesOK'
  BY <1>1 DEF FilesOK, WriteDefault, StoreInv
<1> QED
  BY <1>2, Returns DEF WriteDefault, At, StoreInv

LEMMA UnlinkOK ==
  ASSUME StoreInv, NEW c \in Clients, Unlink(c) PROVE StoreInv'
<1>1. FilesOK'
  BY DEF FilesOK, Unlink, Without, StoreInv
<1>2. CASE job[c].name \in DOMAIN files
  <2>1. Fits(job[c], "repoint")
    BY DEF Unlink, At, StoreInv, ClientsOK, Fits, Labels, AfterFetch
  <2> QED
    BY <1>1, <1>2, <2>1, Stepped DEF Unlink, StoreInv
<1>3. CASE job[c].name \notin DOMAIN files
  BY <1>1, <1>3, Returns DEF Unlink, At, StoreInv
<1> QED
  BY <1>2, <1>3

LEMMA RepointOK ==
  ASSUME StoreInv, NEW c \in Clients, Repoint(c) PROVE StoreInv'
<1>1. FilesOK'
  BY DEF FilesOK, Repoint, StoreInv
<1>2. CASE Return(c)
  BY <1>1, <1>2, Returns DEF Repoint, At, StoreInv
<1>3. CASE pc' = [pc EXCEPT ![c] = "def_open"] /\ \E n \in Readable : job' = [job EXCEPT ![c].name = n]
  <2>1. PICK n \in Readable : job' = [job EXCEPT ![c].name = n]
    BY <1>3
  <2> DEFINE j == [job[c] EXCEPT !.name = n]
  <2>2. n \in Names /\ job[c] \in Jobs /\ Fits(job[c], "repoint")
    BY DEF Readable, FilesOK, Repoint, At, ClientsOK, Fits, StoreInv
  <2>3. j \in Jobs
    BY <2>2 DEF Jobs
  <2>4. Fits(j, "def_open")
    BY <2>2, <2>3 DEF Fits, Labels, AfterFetch, Jobs
  <2>5. job' = [job EXCEPT ![c] = j]
    BY <2>1
  <2> HIDE DEF j
  <2> QED
    BY <1>1, <1>3, <2>4, <2>5, Moved DEF StoreInv
<1> QED
  BY <1>2, <1>3 DEF Repoint

\* A command that starts.
LEMMA StartOK ==
  ASSUME StoreInv, NEW c \in Clients, NEW l, NEW j, Fits(j, l), Start(c, l, j)
  PROVE  StoreInv'
<1>1. ClientsOK'
  BY Moved DEF Start, Step, StoreInv
<1> QED
  BY <1>1 DEF Start, StoreInv, FilesOK

LEMMA AddOK ==
  ASSUME StoreInv, NEW c \in Clients, Add(c) PROVE StoreInv'
<1>1. PICK b \in AddBases : Start(c, "save", [NoJob EXCEPT !.cmd = "add", !.base = b])
  BY DEF Add
<1> DEFINE j == [NoJob EXCEPT !.cmd = "add", !.base = b]
<1>2. j \in Jobs
  BY NoJobIsJob, SubscriptionsAssumption DEF NoJob, Jobs
<1>3. Fits(j, "save")
  BY <1>2, StoreAssumption DEF Fits, NoJob, Labels, AfterFetch
<1> HIDE DEF j
<1> QED
  BY <1>1, <1>3, StartOK DEF j

LEMMA RemoveOK ==
  ASSUME StoreInv, NEW c \in Clients, Remove(c) PROVE StoreInv'
<1>1. PICK n \in Readable :
        Start(c, "unlink", [NoJob EXCEPT !.cmd = "rm", !.phase = "remove", !.name = n])
  BY DEF Remove
<1> DEFINE j == [NoJob EXCEPT !.cmd = "rm", !.phase = "remove", !.name = n]
<1>2. n \in Names
  BY DEF Readable, StoreInv, FilesOK
<1>3. j \in Jobs
  BY <1>2, NoJobIsJob DEF NoJob, Jobs
<1>4. Fits(j, "unlink")
  BY <1>2, <1>3, StoreAssumption DEF Fits, NoJob, Labels, AfterFetch
<1> HIDE DEF j
<1> QED
  BY <1>1, <1>4, StartOK DEF j

LEMMA SetDefaultOK ==
  ASSUME StoreInv, NEW c \in Clients, SetDefault(c) PROVE StoreInv'
<1>1. PICK n \in Readable :
        Start(c, "def_open", [NoJob EXCEPT !.cmd = "default", !.name = n])
  BY DEF SetDefault
<1> DEFINE j == [NoJob EXCEPT !.cmd = "default", !.name = n]
<1>2. n \in Names
  BY DEF Readable, StoreInv, FilesOK
<1>3. j \in Jobs
  BY <1>2, NoJobIsJob DEF NoJob, Jobs
<1>4. Fits(j, "def_open")
  BY <1>2, <1>3, StoreAssumption DEF Fits, NoJob, Labels, AfterFetch
<1> HIDE DEF j
<1> QED
  BY <1>1, <1>4, StartOK DEF j

LEMMA RefreshOK ==
  ASSUME StoreInv, NEW c \in Clients, Refresh(c) PROVE StoreInv'
<1>1. PICK U \in {{u} : u \in Urls} \cup ({DOMAIN owned} \ {{}}) :
        Start(c, "fetch", [NoJob EXCEPT !.cmd = "sub", !.urls = U])
  BY DEF Refresh
<1> DEFINE j == [NoJob EXCEPT !.cmd = "sub", !.urls = U]
<1>2. U \subseteq Urls
  BY DEF StoreInv, FilesOK
<1>3. j \in Jobs
  BY <1>2, NoJobIsJob DEF NoJob, Jobs
<1>4. Fits(j, "fetch")
  BY <1>3, StoreAssumption DEF Fits, NoJob, Labels, AfterFetch
<1> HIDE DEF j
<1> QED
  BY <1>1, <1>4, StartOK DEF j

LEMMA FetchFailsOK ==
  ASSUME StoreInv, NEW c \in Clients, FetchFails(c) PROVE StoreInv'
<1>1. PICK u \in job[c].urls : NextUrl(c, job[c].urls \ {u})
  BY DEF FetchFails
<1>2. job[c].urls \ {u} \in SUBSET Urls
  BY DEF StoreInv, ClientsOK, Jobs
<1>3. ClientsOK'
  BY <1>1, <1>2, NextUrls DEF StoreInv
<1> QED
  BY <1>3 DEF FetchFails, StoreInv, FilesOK

LEMMA FetchedOK ==
  ASSUME StoreInv, NEW c \in Clients, Fetched(c) PROVE StoreInv'
<1> DEFINE old(u) == IF u \in DOMAIN owned THEN owned[u] ELSE {}
           J(u, k) == [NoJob EXCEPT !.cmd = "sub", !.phase = "remove", !.url = u, !.links = k, !.left = k,
                        !.urls = job[c].urls \ {u}, !.todo = old(u)]
<1>1. PICK u \in job[c].urls, k \in 1 .. MaxLinks : job' = [job EXCEPT ![c] = J(u, k)]
  BY DEF Fetched
<1>2. job[c].urls \subseteq Urls /\ u \in Urls /\ old(u) \subseteq Names
  BY DEF StoreInv, ClientsOK, Jobs, FilesOK
<1>3. k \in Nat /\ k >= 1
  BY SubscriptionsAssumption
<1> DEFINE j == J(u, k)
<1>4. j \in Jobs
  <2> HIDE DEF old
  <2> QED
    BY <1>2, <1>3, NoJobIsJob DEF NoJob, Jobs
<1>5. Fits(j, "purge")
  BY <1>2, <1>3, <1>4 DEF Fits, NoJob, Labels, AfterFetch
<1>6. ClientsOK'
  <2>1. job' = [job EXCEPT ![c] = j] /\ pc' = [pc EXCEPT ![c] = "purge"]
    BY <1>1 DEF Fetched, Step
  <2> HIDE DEF j
  <2> QED
    BY <1>5, <2>1, Moved DEF StoreInv
<1> QED
  BY <1>6 DEF Fetched, StoreInv, FilesOK

LEMMA RemoveNextOK ==
  ASSUME StoreInv, NEW c \in Clients, RemoveNext(c) PROVE StoreInv'
<1>1. PICK n \in job[c].todo :
        /\ job' = [job EXCEPT ![c].todo = @ \ {n}, ![c].name = n]
        /\ pc' = [pc EXCEPT ![c] = IF n \in Readable THEN "unlink" ELSE "purge"]
  BY DEF RemoveNext
<1> DEFINE j == [job[c] EXCEPT !.todo = @ \ {n}, !.name = n]
           l == IF n \in Readable THEN "unlink" ELSE "purge"
<1>2. job[c] \in Jobs /\ Fits(job[c], "purge") /\ pc[c] = "purge"
  BY DEF RemoveNext, At, StoreInv, ClientsOK, Fits
<1>3. j \in Jobs /\ n \in Names
  BY <1>2 DEF Jobs
<1>4. Fits(j, l)
  BY <1>2, <1>3 DEF Fits, Labels, AfterFetch, Jobs
<1>5. job' = [job EXCEPT ![c] = j] /\ pc' = [pc EXCEPT ![c] = l]
  BY <1>1 DEF StoreInv, ClientsOK
<1>6. ClientsOK'
  <2> HIDE DEF j, l
  <2> QED
    BY <1>4, <1>5, Moved DEF StoreInv
<1> QED
  BY <1>6 DEF RemoveNext, StoreInv, FilesOK

LEMMA AllRemovedOK ==
  ASSUME StoreInv, NEW c \in Clients, AllRemoved(c) PROVE StoreInv'
<1> DEFINE j == [job[c] EXCEPT !.phase = "save", !.base = NextIndex]
<1>1. job[c] \in Jobs /\ Fits(job[c], "purge")
  BY DEF AllRemoved, Step, At, StoreInv, ClientsOK, Fits
<1>2. j \in Jobs
  BY <1>1, NextIndexRange DEF Jobs
<1>3. Fits(j, "save")
  BY <1>1, <1>2 DEF Fits, Labels, AfterFetch, Jobs
<1>4. job' = [job EXCEPT ![c] = j] /\ pc' = [pc EXCEPT ![c] = "save"]
  BY DEF AllRemoved, Step, StoreInv, ClientsOK
<1>5. ClientsOK'
  <2> HIDE DEF j
  <2> QED
    BY <1>3, <1>4, Moved DEF StoreInv
<1> QED
  BY <1>5 DEF AllRemoved, StoreInv, FilesOK

LEMMA ReadMapOK ==
  ASSUME StoreInv, NEW c \in Clients, ReadMap(c) PROVE StoreInv'
<1> DEFINE m == Put(owned, job[c].url, job[c].saved)
           j == [job[c] EXCEPT !.map = m]
<1>1. job[c] \in Jobs /\ Fits(job[c], "map_read") /\ job[c].url \in Urls
  BY DEF ReadMap, Step, At, StoreInv, ClientsOK, Fits, AfterFetch
<1>2. m \in Maps
  <2> DEFINE D == DOMAIN owned \cup {job[c].url}
  <2>1. job[c].saved \subseteq Names
    BY <1>1 DEF Jobs
  <2>2. D \in SUBSET Urls
    BY <1>1 DEF StoreInv, FilesOK
  <2>3. m \in [D -> SUBSET Names]
    BY <2>1 DEF Put, StoreInv, FilesOK
  <2> QED
    BY <2>2, <2>3, MapsAre
<1>3. j \in Jobs
  <2> HIDE DEF m
  <2> QED
    BY <1>1, <1>2 DEF Jobs, Maps
<1>4. Fits(j, "map_open")
  <2> HIDE DEF m
  <2> QED
    BY <1>1, <1>3 DEF Fits, Labels, AfterFetch, Jobs
<1>5. job' = [job EXCEPT ![c] = j] /\ pc' = [pc EXCEPT ![c] = "map_open"]
  BY DEF ReadMap, Step, StoreInv, ClientsOK
<1>6. ClientsOK'
  <2> HIDE DEF j
  <2> QED
    BY <1>4, <1>5, Moved DEF StoreInv
<1> QED
  BY <1>6 DEF ReadMap, StoreInv, FilesOK

LEMMA OpenMapOK ==
  ASSUME StoreInv, NEW c \in Clients, OpenMap(c) PROVE StoreInv'
<1>1. Fits(job[c], "map_write")
  BY DEF OpenMap, Step, At, StoreInv, ClientsOK, Fits, Labels, AfterFetch
<1>2. ClientsOK'
  BY <1>1, Stepped DEF OpenMap, Step, StoreInv
<1> QED
  BY <1>2 DEF OpenMap, StoreInv, FilesOK

LEMMA WriteMapOK ==
  ASSUME StoreInv, NEW c \in Clients, WriteMap(c) PROVE StoreInv'
<1>1. job[c] \in Jobs
  BY DEF StoreInv, ClientsOK
<1>2. DOMAIN job[c].map \subseteq Urls /\ \A u \in DOMAIN job[c].map : job[c].map[u] \subseteq Names
  BY <1>1 DEF Jobs
<1>3. ClientsOK'
  BY <1>1, NextUrls DEF WriteMap, StoreInv, Jobs
<1> QED
  BY <1>2, <1>3 DEF WriteMap, StoreInv, FilesOK

LEMMA CrashOK ==
  ASSUME StoreInv, NEW c \in Clients, Crash(c) PROVE StoreInv'
  BY Finished DEF Crash, StoreInv, FilesOK

LEMMA InitStore == Init => StoreInv
  BY NothingFits DEF Init, StoreInv, FilesOK, ClientsOK, Fits

LEMMA NextStore == StoreInv /\ [Next]_storeVars => StoreInv'
<1> SUFFICES ASSUME StoreInv, [Next]_storeVars PROVE StoreInv'
  OBVIOUS
<1>1. ASSUME NEW c \in Clients, StoreStep(c) PROVE StoreInv'
  BY <1>1, FindNameOK, CreateOK, FillOK, AdoptOK, OpenDefaultOK, WriteDefaultOK, UnlinkOK,
     RepointOK DEF StoreStep
<1>2. ASSUME NEW c \in Clients, SubStep(c) PROVE StoreInv'
  BY <1>2, FetchFailsOK, FetchedOK, RemoveNextOK, AllRemovedOK, ReadMapOK, OpenMapOK,
     WriteMapOK DEF SubStep
<1>3. CASE UNCHANGED storeVars
  BY <1>3 DEF storeVars, StoreInv, FilesOK, ClientsOK
<1> QED
  BY <1>1, <1>2, <1>3, AddOK, RemoveOK, SetDefaultOK, RefreshOK, CrashOK DEF Next, Command

\* The store, the map and every client's local variables are well-typed, for any
\* number of commands at once and wherever one is killed: a name to write, remove or
\* make default is always there, and next_index stays within the names tried.
THEOREM StoreTypeCorrect == Spec => []StoreTypeOK
<1>1. StoreInv => StoreTypeOK
  BY DEF StoreInv, FilesOK, ClientsOK, StoreTypeOK
<1> QED
  BY <1>1, InitStore, NextStore, PTL DEF Spec

-----------------------------------------------------------------------------
(***************************************************************************)
(* One command at a time, which may be killed.                             *)
(***************************************************************************)

\* What is left of the local variables after save, remove or DEFAULT.
LEMMA ReturnsTo ==
  ASSUME ClientsOK, NEW c \in Clients, Return(c)
  PROVE  \/ job[c].cmd # "sub" /\ job'[c] = NoJob /\ pc'[c] = "idle"
         \/ job[c].cmd = "sub" /\ job[c].phase = "remove" /\ job'[c] = job[c]
            /\ pc'[c] = "purge"
         \/ /\ job[c].cmd = "sub" /\ job[c].phase = "save"
            /\ pc'[c] \in {"map_read", "save"}
            /\ job'[c].saved = job[c].saved /\ job'[c].url = job[c].url
            /\ job'[c].cmd = "sub" /\ job'[c].phase = "save" /\ job'[c].name = job[c].name
  BY DEF Return, Finish, ClientsOK, Jobs

LEMMA SavedReturns ==
  ASSUME SavedInv, NEW c \in Clients, Return(c), UNCHANGED files,
         pc[c] \in {"adopt", "def_write", "unlink", "repoint"}
  PROVE  Saved(c)'
<1>1. Saved(c) /\ Fits(job[c], pc[c])
  BY DEF SavedInv, StoreInv, ClientsOK
<1>2. CASE job'[c] = NoJob /\ pc'[c] = "idle"
  BY <1>2 DEF Saved, NoJob
<1>3. CASE job[c].phase = "remove" /\ job'[c] = job[c] /\ pc'[c] = "purge"
  BY <1>1, <1>3 DEF Saved
<1>4. CASE /\ job[c].cmd = "sub" /\ job[c].phase = "save"
           /\ pc'[c] \in {"map_read", "save"}
           /\ job'[c].saved = job[c].saved /\ job'[c].url = job[c].url
  BY <1>1, <1>4 DEF Saved, Fits
<1> QED
  BY <1>2, <1>3, <1>4, ReturnsTo DEF SavedInv, StoreInv

\* A step of the store keeps what was saved.
LEMMA SavedStore ==
  ASSUME SavedInv, NEW c \in Clients, StoreStep(c)
  PROVE  Saved(c)' /\ \A n \in Readable : n \in DOMAIN files' => files'[n] = files[n]
<1> USE DEF SavedInv
<1> DEFINE Kept == \A n \in Readable : n \in DOMAIN files' => files'[n] = files[n]
<1>0. Saved(c) /\ Fits(job[c], pc[c]) /\ job[c] \in Jobs
      /\ job \in [Clients -> Jobs] /\ pc \in [Clients -> Labels]
  BY DEF StoreInv, ClientsOK
<1>1. CASE FindName(c)
  <2>1. PICK k \in Free(job[c].base) : job' = [job EXCEPT ![c].name = <<job[c].base, k>>]
    BY <1>1 DEF FindName
  <2>2. job'[c].name \notin DOMAIN files /\ pc'[c] = "create" /\ UNCHANGED files
        /\ job'[c].saved = job[c].saved /\ job'[c].url = job[c].url
    BY <1>0, <1>1, <2>1 DEF FindName, Step, Free, Jobs
  <2> QED
    BY <1>0, <2>2 DEF Saved
<1>2. CASE Create(c)
  <2>1. job' = job /\ pc'[c] = "fill" /\ pc[c] = "create"
        /\ files' = Put(files, job[c].name, Torn)
    BY <1>0, <1>2 DEF Create, Step, At
  <2>2. job[c].name \notin DOMAIN files
    BY <1>0, <2>1 DEF Saved
  <2> QED
    BY <1>0, <2>1, <2>2 DEF Saved, Put, Readable
<1>3. CASE Fill(c)
  <2>1. pc[c] = "fill" /\ pc'[c] = "adopt" /\ job[c].name \in DOMAIN files
        /\ files[job[c].name] = Torn
    BY <1>0, <1>3 DEF Fill, Step, At, Saved
  <2>2. files' = [files EXCEPT ![job[c].name] = job[c].url]
    BY <1>3, <2>1 DEF Fill
  <2>3. job'[c].saved = job[c].saved \cup {job[c].name} /\ job'[c].url = job[c].url
    BY <1>0, <1>3 DEF Fill, Jobs
  <2>4. job[c].name \notin job[c].saved
    BY <1>0, <2>1, StoreAssumption DEF Saved, Jobs
  <2> QED
    BY <1>0, <2>1, <2>2, <2>3, <2>4 DEF Saved, Readable
<1>4. CASE Adopt(c)
  <2>1. CASE pc' = [pc EXCEPT ![c] = "def_open"] /\ UNCHANGED job
    BY <1>0, <1>4, <2>1 DEF Adopt, At, Saved
  <2>2. CASE Return(c)
    BY <1>4, <2>2, SavedReturns DEF Adopt, At
  <2>3. UNCHANGED files
    BY <1>4 DEF Adopt
  <2> QED
    BY <1>4, <2>1, <2>2, <2>3 DEF Adopt
<1>5. CASE OpenDefault(c)
  BY <1>0, <1>5 DEF OpenDefault, Step, At, Saved
<1>6. CASE WriteDefault(c)
  BY <1>6, SavedReturns DEF WriteDefault, At
<1>7. CASE Unlink(c)
  <2>0. pc[c] = "unlink" /\ files' = Without(files, job[c].name) /\ job[c].phase = "remove"
        /\ job[c].saved = {}
    BY <1>0, <1>7 DEF Unlink, At, Fits
  <2>1. CASE pc' = [pc EXCEPT ![c] = "repoint"] /\ UNCHANGED job
    BY <1>0, <2>0, <2>1 DEF Without, Saved, Readable
  <2>2. CASE Return(c) /\ job[c].name \notin DOMAIN files
    <3>1. Saved(c)'
      BY <1>0, <2>0, <2>2, ReturnsTo DEF Saved, NoJob, StoreInv
    <3> QED
      BY <2>0, <3>1 DEF Without, Readable
  <2> QED
    BY <1>7, <2>1, <2>2 DEF Unlink
<1>8. CASE Repoint(c)
  <2>1. UNCHANGED files /\ pc[c] = "repoint" /\ job[c].saved = {}
    BY <1>0, <1>8 DEF Repoint, At, Fits
  <2>2. CASE Return(c)
    BY <2>1, <2>2, SavedReturns
  <2>3. CASE pc' = [pc EXCEPT ![c] = "def_open"] /\ \E n \in Readable : job' = [job EXCEPT ![c].name = n]
    <3>1. job'[c].saved = {} /\ pc'[c] = "def_open" /\ job'[c].phase = job[c].phase
      BY <1>0, <2>1, <2>3 DEF Jobs
    <3>2. job[c].phase = "remove"
      BY <1>0, <2>1 DEF Fits
    <3> QED
      BY <2>1, <3>1, <3>2 DEF Saved
  <2> QED
    BY <1>8, <2>1, <2>2, <2>3 DEF Repoint
<1> QED
  BY <1>1, <1>2, <1>3, <1>4, <1>5, <1>6, <1>7, <1>8 DEF StoreStep

\* A step of a refresh touches no file and keeps track of what was saved.
LEMMA SavedSub ==
  ASSUME SavedInv, NEW c \in Clients, SubStep(c)
  PROVE  Saved(c)' /\ UNCHANGED files
<1> USE DEF SavedInv
<1>0. Saved(c) /\ Fits(job[c], pc[c]) /\ job[c] \in Jobs
      /\ job \in [Clients -> Jobs] /\ pc \in [Clients -> Labels]
  BY DEF StoreInv, ClientsOK
<1>1. ASSUME NEW U \in SUBSET Urls, NextUrl(c, U), UNCHANGED files
      PROVE  Saved(c)'
  BY <1>1, NextUrls DEF Saved, StoreInv
<1>2. CASE FetchFails(c)
  <2>1. \A u \in job[c].urls : job[c].urls \ {u} \in SUBSET Urls
    BY <1>0 DEF Jobs
  <2> QED
    BY <1>1, <1>2, <2>1 DEF FetchFails
<1>3. CASE Fetched(c)
  <2>1. job'[c].saved = {} /\ pc'[c] = "purge" /\ job'[c].phase = "remove"
    BY <1>0, <1>3 DEF Fetched, Step, NoJob
  <2> QED
    BY <1>3, <2>1 DEF Saved, Fetched
<1>4. CASE RemoveNext(c)
  <2>1. job'[c].saved = job[c].saved /\ job'[c].phase = job[c].phase
        /\ pc'[c] \in {"unlink", "purge"} /\ pc[c] = "purge"
    BY <1>0, <1>4 DEF RemoveNext, At, Jobs
  <2>2. job[c].phase = "remove" /\ job[c].saved = {}
    BY <1>0, <2>1 DEF Fits
  <2> QED
    BY <1>4, <2>1, <2>2 DEF Saved, RemoveNext
<1>5. CASE AllRemoved(c)
  <2>1. job'[c].saved = job[c].saved /\ pc'[c] = "save" /\ pc[c] = "purge"
    BY <1>0, <1>5 DEF AllRemoved, Step, At, Jobs
  <2>2. job[c].saved = {}
    BY <1>0, <2>1 DEF Fits
  <2> QED
    BY <1>5, <2>1, <2>2 DEF Saved, AllRemoved
<1>6. CASE ReadMap(c)
  <2>1. job'[c].saved = job[c].saved /\ job'[c].url = job[c].url /\ pc'[c] = "map_open"
        /\ pc[c] = "map_read" /\ job'[c].map = Put(owned, job[c].url, job[c].saved)
    BY <1>0, <1>6 DEF ReadMap, Step, At, Jobs
  <2> QED
    BY <1>0, <1>6, <2>1 DEF Saved, ReadMap, Put
<1>7. CASE OpenMap(c)
  BY <1>0, <1>7 DEF OpenMap, Step, At, Saved
<1>8. CASE WriteMap(c)
  BY <1>0, <1>1, <1>8 DEF WriteMap, Jobs
<1>9. UNCHANGED files
  BY DEF SubStep, FetchFails, Fetched, RemoveNext, AllRemoved, ReadMap, OpenMap, WriteMap
<1> QED
  BY <1>2, <1>3, <1>4, <1>5, <1>6, <1>7, <1>8, <1>9 DEF SubStep

\* A step between the writes of two profiles leaves the count as it is.
LEMMA CountKept ==
  ASSUME SavedInv, NEW c \in Clients, pc[c] \in AfterFetch, Written(c)' = Written(c),
         pc'[c] \notin {"map_read", "map_open", "map_write"} \/ job[c].left = 0,
         job'[c].cmd = job[c].cmd, job'[c].saved = job[c].saved,
         job'[c].left = job[c].left, job'[c].links = job[c].links
  PROVE  Counted(c)'
  BY DEF SavedInv, Counted

\* A client that has fetched nothing yet.
LEMMA CountStarts ==
  ASSUME NEW c \in Clients, job'[c].saved = {},
         job'[c].cmd # "sub" \/ pc'[c] \notin AfterFetch,
         pc'[c] \notin {"map_read", "map_open", "map_write"}
  PROVE  Counted(c)'
  BY FS_EmptySet DEF Counted

LEMMA CountReturns ==
  ASSUME SavedInv, NEW c \in Clients, Return(c),
         pc[c] \in {"adopt", "def_write", "unlink", "repoint"}
  PROVE  Counted(c)'
<1>0. Counted(c) /\ Fits(job[c], pc[c]) /\ job[c] \in Jobs /\ ClientsOK
      /\ job \in [Clients -> Jobs] /\ pc \in [Clients -> Labels]
  BY DEF SavedInv, StoreInv, ClientsOK
<1>1. CASE job[c].cmd # "sub"
  <2>1. job'[c] = NoJob /\ pc'[c] = "idle"
    BY <1>0, <1>1, ReturnsTo
  <2> QED
    BY <2>1, CountStarts DEF NoJob
<1>2. CASE job[c].cmd = "sub" /\ job[c].phase = "remove"
  <2>1. job'[c] = job[c] /\ pc'[c] = "purge"
    BY <1>0, <1>2, ReturnsTo
  <2> QED
    BY <1>2, <2>1, CountKept DEF Written, AfterFetch
<1>3. CASE job[c].cmd = "sub" /\ job[c].phase = "save"
  <2>1. pc[c] \in {"adopt", "def_write"} /\ job[c].left >= 1
    BY <1>0, <1>3 DEF Fits, AfterFetch
  <2>2. Cardinality(job[c].saved) + job[c].left = job[c].links + 1
    BY <1>0, <1>3, <2>1 DEF Counted, Written, AfterFetch
  <2>3. /\ job'[c].saved = job[c].saved /\ job'[c].links = job[c].links
        /\ job'[c].left = job[c].left - 1 /\ job'[c].phase = "save"
        /\ pc'[c] = IF job[c].left = 1 THEN "map_read" ELSE "save"
    BY <1>0, <1>3 DEF Return, Jobs
  <2>4. Cardinality(job[c].saved) \in Nat /\ job[c].links \in Nat /\ job[c].left \in Nat
    BY <1>0, FS_CardinalityType DEF Counted, Jobs
  <2> QED
    BY <1>0, <2>2, <2>3, <2>4 DEF Counted, Written
<1> QED
  BY <1>0, <1>1, <1>2, <1>3 DEF Jobs

LEMMA CountStore ==
  ASSUME SavedInv, NEW c \in Clients, StoreStep(c)
  PROVE  Counted(c)'
<1>0. Saved(c) /\ Counted(c) /\ Fits(job[c], pc[c]) /\ job[c] \in Jobs
      /\ job \in [Clients -> Jobs] /\ pc \in [Clients -> Labels]
  BY DEF SavedInv, StoreInv, ClientsOK
<1>1. CASE Fill(c)
  <2>1. pc[c] = "fill" /\ pc'[c] = "adopt" /\ files[job[c].name] = Torn
    BY <1>0, <1>1 DEF Fill, Step, At, Saved
  <2>2. job[c].name \notin job[c].saved /\ job[c].phase = "save"
    BY <1>0, <2>1, StoreAssumption DEF Saved, Jobs, Fits
  <2>3. /\ job'[c].saved = job[c].saved \cup {job[c].name} /\ job'[c].cmd = job[c].cmd
        /\ job'[c].left = job[c].left /\ job'[c].links = job[c].links
        /\ job'[c].phase = "save"
    BY <1>0, <1>1, <2>2 DEF Fill, Jobs
  <2>4. IsFiniteSet(job'[c].saved) /\ Cardinality(job'[c].saved) = Cardinality(job[c].saved) + 1
    BY <1>0, <2>2, <2>3, FS_AddElement DEF Counted
  <2>5. Written(c) = 0 /\ Written(c)' = 1
    BY <2>1, <2>3 DEF Written
  <2>6. Cardinality(job[c].saved) \in Nat /\ job[c].links \in Nat /\ job[c].left \in Nat
    BY <1>0, FS_CardinalityType DEF Counted, Jobs
  <2> QED
    BY <1>0, <2>1, <2>3, <2>4, <2>5, <2>6 DEF Counted, AfterFetch
<1>2. CASE Return(c) /\ ~Fill(c)
  <2>1. pc[c] \in {"adopt", "def_write", "unlink", "repoint"} \/ FindName(c) \/ Create(c)
        \/ OpenDefault(c)
    BY <1>2 DEF StoreStep, Adopt, WriteDefault, Unlink, Repoint, At
  <2>2. ~(FindName(c) \/ Create(c) \/ OpenDefault(c))
    BY <1>0, <1>2, ReturnsTo DEF FindName, Create, OpenDefault, Step, At, SavedInv, StoreInv
  <2> QED
    BY <1>2, <2>1, <2>2, CountReturns
<1>3. CASE ~Return(c) /\ ~Fill(c)
  <2>1. /\ job'[c].cmd = job[c].cmd /\ job'[c].saved = job[c].saved
        /\ job'[c].left = job[c].left /\ job'[c].links = job[c].links
        /\ job'[c].phase = job[c].phase
    BY <1>0, <1>3
       DEF StoreStep, FindName, Create, Adopt, OpenDefault, WriteDefault, Unlink, Repoint,
           Jobs
  <2>2. \/ pc[c] = "save" /\ pc'[c] = "create"
        \/ pc[c] = "create" /\ pc'[c] = "fill"
        \/ pc[c] = "adopt" /\ pc'[c] = "def_open"
        \/ pc[c] = "def_open" /\ pc'[c] = "def_write"
        \/ pc[c] = "unlink" /\ pc'[c] = "repoint"
        \/ pc[c] = "repoint" /\ pc'[c] = "def_open" /\ job[c].phase = "remove"
    BY <1>0, <1>3
       DEF StoreStep, FindName, Create, Adopt, OpenDefault, WriteDefault, Unlink, Repoint,
           Step, At, Fits
  <2>3. Written(c)' = Written(c) /\ pc[c] \in AfterFetch
        /\ pc'[c] \notin {"map_read", "map_open", "map_write"}
    BY <2>1, <2>2 DEF Written, AfterFetch
  <2> QED
    BY <2>1, <2>3, CountKept
<1> QED
  BY <1>1, <1>2, <1>3

LEMMA CountSub ==
  ASSUME SavedInv, NEW c \in Clients, SubStep(c)
  PROVE  Counted(c)'
<1>0. Counted(c) /\ Fits(job[c], pc[c]) /\ job[c] \in Jobs /\ ClientsOK
      /\ job \in [Clients -> Jobs] /\ pc \in [Clients -> Labels]
  BY DEF SavedInv, StoreInv, ClientsOK
<1>1. ASSUME NEW U \in SUBSET Urls, NextUrl(c, U) PROVE Counted(c)'
  <2>1. job'[c].saved = {} /\ pc'[c] \in {"idle", "fetch"}
    BY <1>0, <1>1, NextUrls
  <2> QED
    BY <2>1, CountStarts DEF AfterFetch
<1>2. CASE FetchFails(c) \/ WriteMap(c)
  <2>1. \A u \in job[c].urls : job[c].urls \ {u} \in SUBSET Urls
    BY <1>0 DEF Jobs
  <2>2. job[c].urls \in SUBSET Urls
    BY <1>0 DEF Jobs
  <2> QED
    BY <1>1, <1>2, <2>1, <2>2 DEF FetchFails, WriteMap
<1>3. CASE Fetched(c)
  <2>1. PICK k \in 1 .. MaxLinks :
          /\ job'[c].saved = {} /\ job'[c].left = k /\ job'[c].links = k
          /\ job'[c].phase = "remove" /\ pc'[c] = "purge"
    BY <1>0, <1>3 DEF Fetched, Step, NoJob
  <2>2. k \in Nat
    BY SubscriptionsAssumption
  <2> QED
    BY <2>1, <2>2, FS_EmptySet DEF Counted, Written
<1>4. CASE RemoveNext(c) \/ AllRemoved(c) \/ ReadMap(c) \/ OpenMap(c)
  <2>1. /\ job'[c].cmd = job[c].cmd /\ job'[c].saved = job[c].saved
        /\ job'[c].left = job[c].left /\ job'[c].links = job[c].links
    <3>1. CASE RemoveNext(c)
      BY <1>0, <3>1 DEF RemoveNext, Jobs
    <3>2. CASE AllRemoved(c)
      BY <1>0, <3>2 DEF AllRemoved, Jobs
    <3>3. CASE ReadMap(c)
      BY <1>0, <3>3 DEF ReadMap, Jobs
    <3>4. CASE OpenMap(c)
      BY <3>4 DEF OpenMap
    <3> QED
      BY <1>4, <3>1, <3>2, <3>3, <3>4
  <2>2. \/ pc[c] = "purge" /\ pc'[c] \in {"purge", "unlink", "save"}
        \/ pc[c] = "map_read" /\ pc'[c] = "map_open"
        \/ pc[c] = "map_open" /\ pc'[c] = "map_write"
    BY <1>0, <1>4 DEF RemoveNext, AllRemoved, ReadMap, OpenMap, Step, At
  <2> QED
    BY <1>0, <2>1, <2>2, CountKept DEF Counted, Written, AfterFetch
<1> QED
  BY <1>2, <1>3, <1>4 DEF SubStep

\* The user starts a command, or kills one.
LEMMA SavedUser ==
  ASSUME SavedInv, NEW c \in Clients,
         Add(c) \/ Remove(c) \/ SetDefault(c) \/ Refresh(c) \/ Crash(c)
  PROVE  Saved(c)' /\ Counted(c)' /\ UNCHANGED files
<1>1. ASSUME NEW j, NEW l \in {"save", "unlink", "def_open", "fetch"}, j.saved = {},
             j.cmd # "sub" \/ l = "fetch", Start(c, l, j)
      PROVE  Saved(c)' /\ Counted(c)' /\ UNCHANGED files
  <2>1. job'[c] = j /\ pc'[c] = l /\ UNCHANGED files
    BY <1>1 DEF Start, Step, SavedInv, StoreInv, ClientsOK
  <2>2. Saved(c)'
    BY <1>1, <2>1 DEF Saved
  <2>3. Counted(c)'
    BY <1>1, <2>1, CountStarts DEF AfterFetch
  <2> QED
    BY <2>1, <2>2, <2>3
<1>2. CASE Add(c)
  BY <1>1, <1>2 DEF Add, NoJob
<1>3. CASE Remove(c)
  BY <1>1, <1>3 DEF Remove, NoJob
<1>4. CASE SetDefault(c)
  BY <1>1, <1>4 DEF SetDefault, NoJob
<1>5. CASE Refresh(c)
  BY <1>1, <1>5 DEF Refresh, NoJob
<1>6. CASE Crash(c)
  <2>1. job'[c] = NoJob /\ pc'[c] = "idle" /\ UNCHANGED files
    BY <1>6, Finished DEF Crash, SavedInv, StoreInv
  <2> QED
    BY <2>1, CountStarts DEF Saved, NoJob
<1> QED
  BY <1>2, <1>3, <1>4, <1>5, <1>6

LEMMA InitSaved == Init => SavedInv
<1> SUFFICES ASSUME Init, NEW c \in Clients PROVE Saved(c) /\ Counted(c)
  BY InitStore DEF SavedInv
<1>1. job[c] = NoJob /\ pc[c] = "idle"
  BY DEF Init
<1> QED
  BY <1>1, FS_EmptySet DEF Saved, Counted, NoJob, AfterFetch

LEMMA NextSaved ==
  OneAtATime /\ SavedInv /\ [Next]_storeVars =>
    /\ SavedInv'
    /\ \A n \in Readable : n \in DOMAIN files' => files'[n] = files[n]
<1> SUFFICES ASSUME OneAtATime, SavedInv, [Next]_storeVars
             PROVE  /\ SavedInv'
                    /\ \A n \in Readable : n \in DOMAIN files' => files'[n] = files[n]
  OBVIOUS
<1>1. StoreInv'
  BY NextStore DEF SavedInv
<1>2. CASE UNCHANGED storeVars
  BY <1>1, <1>2 DEF storeVars, SavedInv, Saved, Counted, Written, Readable
<1>3. ASSUME NEW c \in Clients, UNCHANGED files, Saved(c)', Counted(c)'
      PROVE  /\ SavedInv'
             /\ \A n \in Readable : n \in DOMAIN files' => files'[n] = files[n]
  BY <1>1, <1>3 DEF OneAtATime, SavedInv, Readable
<1>4. ASSUME NEW c \in Clients, StoreStep(c)
      PROVE  /\ SavedInv'
             /\ \A n \in Readable : n \in DOMAIN files' => files'[n] = files[n]
  BY <1>1, <1>4, SavedStore, CountStore DEF OneAtATime, SavedInv
<1> QED
  BY <1>2, <1>3, <1>4, SavedSub, CountSub, SavedUser DEF Next, Command

\* Commands that run one after the other never write over a profile that is there,
\* wherever each of them is killed: the name that save finds free is still free when
\* it creates the file, and what it then writes is its own empty file.
THEOREM NeverWrittenOver ==
  ASSUME OneAtATime
  PROVE  Spec => NeverOverwritten
<1>1. SavedInv /\ [Next]_storeVars =>
        [\A n \in Readable : n \in DOMAIN files' => files'[n] = files[n]]_storeVars
  BY NextSaved
<1>2. SavedInv /\ [Next]_storeVars => SavedInv'
  BY NextSaved
<1> QED
  BY <1>1, <1>2, InitSaved, PTL DEF Spec, NeverOverwritten

\* A refresh that reaches its map has saved as many profiles as it fetched links, each
\* under a name of its own that the map will list, and the files hold them, wherever
\* commands before it were killed.
THEOREM RefreshWhole ==
  ASSUME OneAtATime
  PROVE  Spec => []RefreshComplete
<1>1. SavedInv => RefreshComplete
  <2> SUFFICES ASSUME SavedInv, NEW c \in Clients, pc[c] \in {"map_open", "map_write"}
               PROVE  /\ Cardinality(job[c].saved) = job[c].links
                      /\ job[c].map[job[c].url] = job[c].saved
                      /\ \A n \in job[c].saved : n \in DOMAIN files /\ files[n] = job[c].url
    BY DEF RefreshComplete
  <2>1. Saved(c) /\ Counted(c) /\ Fits(job[c], pc[c]) /\ job[c] \in Jobs
    BY DEF SavedInv, StoreInv, ClientsOK
  <2>2. Cardinality(job[c].saved) + job[c].left = job[c].links /\ job[c].left = 0
    BY <2>1 DEF Counted, Written, AfterFetch, Fits, Jobs
  <2>3. Cardinality(job[c].saved) \in Nat
    BY <2>1, FS_CardinalityType DEF Counted
  <2> QED
    BY <2>1, <2>2, <2>3 DEF Saved
<1>2. SavedInv /\ [Next]_storeVars => SavedInv'
  BY NextSaved
<1> QED
  BY <1>1, <1>2, InitSaved, PTL DEF Spec

-----------------------------------------------------------------------------
(***************************************************************************)
(* One command at a time, none of them killed.                             *)
(***************************************************************************)

NoneTorn == \A m \in DOMAIN files : files[m] # Torn
Rested == default \in IF Readable = {} THEN {NoName} ELSE Readable

Elsewhere == {"idle", "fetch", "purge", "save", "create", "unlink", "map_read", "map_open",
              "map_write"}

LEMMA DefaultRests ==
  ASSUME NEW c, pc[c] \in Elsewhere
  PROVE  Defaulted(c) <=> NoneTorn /\ Rested
  BY DEF Elsewhere, Defaulted, NoneTorn, Rested

\* As DefaultRests, after a step.
LEMMA DefaultRestsNext ==
  ASSUME NEW c \in Clients
  PROVE  (pc[c] \in Elsewhere)' /\ NoneTorn' /\ Rested' => Defaulted(c)'
  BY DEF Elsewhere, Defaulted, NoneTorn, Rested

LEMMA DefaultStore ==
  ASSUME SavedInv, NEW c \in Clients, Defaulted(c), StoreStep(c)
  PROVE  Defaulted(c)'
<1> USE DEF SavedInv
<1>0. Saved(c) /\ Fits(job[c], pc[c]) /\ job[c] \in Jobs /\ ClientsOK
      /\ job \in [Clients -> Jobs] /\ pc \in [Clients -> Labels]
  BY DEF StoreInv, ClientsOK
<1>1. ASSUME Return(c), NoneTorn', Rested' PROVE Defaulted(c)'
  <2>1. pc'[c] \in {"idle", "purge", "map_read", "save"}
    BY <1>0, <1>1, ReturnsTo
  <2> QED
    BY <1>1, <2>1, DefaultRestsNext DEF Elsewhere
<1>2. CASE FindName(c)
  <2>1. pc[c] = "save" /\ pc'[c] = "create" /\ UNCHANGED <<files, default>>
    BY <1>0, <1>2 DEF FindName, Step, At
  <2>2. NoneTorn /\ Rested
    BY <2>1, DefaultRests DEF Elsewhere
  <2>3. NoneTorn' /\ Rested'
    BY <2>1, <2>2 DEF NoneTorn, Rested, Readable
  <2> QED
    BY <2>1, <2>3, DefaultRestsNext DEF Elsewhere
<1>3. CASE Create(c)
  <2>1. pc[c] = "create" /\ pc'[c] = "fill" /\ job' = job /\ default' = default
        /\ files' = Put(files, job[c].name, Torn) /\ job[c].name \notin DOMAIN files
    BY <1>0, <1>3 DEF Create, Step, At, Saved
  <2>2. NoneTorn /\ Rested
    BY <2>1, DefaultRests DEF Elsewhere
  <2>3. Readable' = Readable
    BY <2>1 DEF Readable, Put
  <2> QED
    BY <2>1, <2>2, <2>3 DEF Defaulted, Put, NoneTorn, Rested
<1>4. CASE Fill(c)
  <2>1. pc[c] = "fill" /\ pc'[c] = "adopt" /\ job[c].name \in DOMAIN files
        /\ files[job[c].name] = Torn /\ default' = default
    BY <1>0, <1>4 DEF Fill, Step, At, Saved
  <2>2. files' = [files EXCEPT ![job[c].name] = job[c].url] /\ job[c].url # Torn
    BY <1>0, <1>4, <2>1, StoreAssumption DEF Fill, Jobs
  <2>3. job'[c].name = job[c].name
    BY <1>0, <1>4 DEF Fill, Jobs
  <2>4. Readable' = Readable \cup {job[c].name}
    BY <2>1, <2>2 DEF Readable
  <2>5. default \in Readable \cup {NoName}
    BY <2>1 DEF Defaulted
  <2> QED
    BY <2>1, <2>2, <2>3, <2>4, <2>5 DEF Defaulted
<1>5. CASE Adopt(c)
  <2>1. pc[c] = "adopt" /\ UNCHANGED <<files, default>>
    BY <1>5 DEF Adopt, At
  <2>2. job[c].name \in Readable /\ default \in Readable \cup {NoName} /\ NoneTorn
    BY <2>1 DEF Defaulted, NoneTorn
  <2>3. CASE pc' = [pc EXCEPT ![c] = "def_open"] /\ UNCHANGED job
    BY <1>0, <2>1, <2>2, <2>3 DEF Defaulted, NoneTorn, Readable
  <2>4. CASE Return(c) /\ default # NoName
    <3>1. NoneTorn' /\ Rested'
      BY <2>1, <2>2, <2>4 DEF NoneTorn, Rested, Readable
    <3> QED
      BY <1>1, <2>4, <3>1
  <2> QED
    BY <1>5, <2>3, <2>4 DEF Adopt
<1>6. CASE OpenDefault(c)
  <2>1. pc[c] = "def_open" /\ pc'[c] = "def_write" /\ UNCHANGED <<files, job>>
    BY <1>0, <1>6 DEF OpenDefault, Step, At
  <2> QED
    BY <2>1 DEF Defaulted, Readable
<1>7. CASE WriteDefault(c)
  <2>1. pc[c] = "def_write" /\ default' = job[c].name /\ UNCHANGED files /\ Return(c)
    BY <1>7 DEF WriteDefault, At
  <2>2. NoneTorn' /\ Rested'
    BY <2>1 DEF Defaulted, NoneTorn, Rested, Readable
  <2> QED
    BY <1>1, <2>1, <2>2
<1>8. CASE Unlink(c)
  <2>1. pc[c] = "unlink" /\ files' = Without(files, job[c].name) /\ default' = default
    BY <1>8 DEF Unlink, At
  <2>2. NoneTorn /\ Rested
    BY <2>1, DefaultRests DEF Elsewhere
  <2>3. NoneTorn' /\ Readable' = Readable \ {job[c].name} /\ DOMAIN files' = DOMAIN files \ {job[c].name}
    BY <2>1, <2>2 DEF NoneTorn, Readable, Without
  <2>4. CASE job[c].name \in DOMAIN files /\ pc' = [pc EXCEPT ![c] = "repoint"] /\ UNCHANGED job
    <3>1. default \in Readable
      BY <2>2, <2>4 DEF NoneTorn, Rested, Readable
    <3> QED
      BY <1>0, <2>1, <2>3, <2>4, <3>1 DEF Defaulted, NoneTorn
  <2>5. CASE job[c].name \notin DOMAIN files /\ Return(c)
    <3>1. Readable' = Readable
      BY <2>3, <2>5 DEF Readable
    <3>2. Rested'
      BY <2>1, <2>2, <3>1 DEF Rested
    <3> QED
      BY <1>1, <2>3, <2>5, <3>2
  <2> QED
    BY <1>8, <2>4, <2>5 DEF Unlink
<1>9. CASE Repoint(c)
  <2>1. pc[c] = "repoint" /\ UNCHANGED files
    BY <1>9 DEF Repoint, At
  <2>2. NoneTorn /\ job[c].name \notin DOMAIN files /\ default \in Readable \cup {job[c].name}
    BY <2>1 DEF Defaulted, NoneTorn
  <2>3. NoneTorn' /\ Readable' = Readable
    BY <2>1, <2>2 DEF NoneTorn, Readable
  <2>4. CASE default # job[c].name /\ Return(c) /\ UNCHANGED default
    BY <1>1, <2>2, <2>3, <2>4 DEF Rested
  <2>5. CASE Readable = {} /\ default' = NoName /\ Return(c)
    BY <1>1, <2>3, <2>5 DEF Rested
  <2>6. CASE pc' = [pc EXCEPT ![c] = "def_open"] /\ \E n \in Readable : job' = [job EXCEPT ![c].name = n]
    <3>1. pc'[c] = "def_open" /\ job'[c].name \in Readable
      BY <1>0, <2>6 DEF Jobs
    <3> QED
      BY <2>3, <3>1 DEF Defaulted, NoneTorn
  <2> QED
    BY <1>9, <2>4, <2>5, <2>6 DEF Repoint
<1> QED
  BY <1>2, <1>3, <1>4, <1>5, <1>6, <1>7, <1>8, <1>9 DEF StoreStep

LEMMA DefaultElse ==
  ASSUME SavedInv, NEW c \in Clients, Defaulted(c),
         SubStep(c) \/ Add(c) \/ Remove(c) \/ SetDefault(c) \/ Refresh(c)
  PROVE  Defaulted(c)'
<1>0. Fits(job[c], pc[c]) /\ job[c] \in Jobs /\ ClientsOK
      /\ job \in [Clients -> Jobs] /\ pc \in [Clients -> Labels]
  BY DEF SavedInv, StoreInv, ClientsOK
<1>1. UNCHANGED <<files, default>> /\ pc[c] \in Elsewhere
  BY DEF SubStep, FetchFails, Fetched, RemoveNext, AllRemoved, ReadMap, OpenMap, WriteMap,
     Add, Remove, SetDefault, Refresh, Start, Step, At, Elsewhere
<1>2. NoneTorn /\ Rested /\ NoneTorn' /\ Rested'
  BY <1>1, DefaultRests DEF NoneTorn, Rested, Readable
<1>3. CASE SubStep(c) \/ Add(c) \/ Remove(c) \/ Refresh(c)
  <2>1. (pc[c] \in Elsewhere)'
    <3>1. ASSUME NEW U, NextUrl(c, U) PROVE pc'[c] \in {"idle", "fetch"}
      BY <1>0, <3>1 DEF NextUrl, Finish
    <3> QED
      BY <1>0, <1>3, <3>1
         DEF SubStep, FetchFails, Fetched, RemoveNext, AllRemoved, ReadMap, OpenMap,
             WriteMap, Add, Remove, Refresh, Start, Step, At, Elsewhere
  <2> QED
    BY <1>2, <2>1, DefaultRestsNext
<1>4. CASE SetDefault(c)
  <2>1. PICK n \in Readable : Start(c, "def_open", [NoJob EXCEPT !.cmd = "default", !.name = n])
    BY <1>4 DEF SetDefault
  <2>2. pc'[c] = "def_open" /\ job'[c].name = n
    BY <1>0, <2>1 DEF Start, Step, NoJob
  <2> QED
    BY <1>1, <1>2, <2>2 DEF Defaulted, NoneTorn, Readable
<1> QED
  BY <1>3, <1>4

\* A step that writes no map keeps every profile listed where it was.
LEMMA ListedKept ==
  ASSUME NEW c \in Clients, OwnedBy(c), UNCHANGED owned,
         pc[c] # "map_write", pc'[c] \notin {"unlink", "map_open", "map_write"},
         \A n \in Readable' : files'[n] \in Urls =>
           \/ /\ n \in Readable /\ files'[n] = files[n]
              /\ pc[c] = "unlink" => n # job[c].name
           \/ /\ n \in job'[c].saved /\ files'[n] = job'[c].url
              /\ job'[c].phase = "save",
         \/ /\ job'[c].url = job[c].url /\ job'[c].phase = job[c].phase
            /\ job[c].saved \subseteq job'[c].saved /\ job'[c].todo = job[c].todo
         \/ job[c].url \notin Urls /\ job'[c].url \notin Urls
  PROVE  OwnedBy(c)'
<1>1. MapKept(c)'
  BY DEF MapKept
<1>2. ASSUME NEW n \in Readable', files'[n] \in Urls PROVE Listed(c, n)'
  <2>1. CASE /\ n \in job'[c].saved /\ files'[n] = job'[c].url
             /\ job'[c].phase = "save"
    BY <2>1 DEF Listed
  <2>2. CASE /\ n \in Readable /\ files'[n] = files[n]
             /\ pc[c] = "unlink" => n # job[c].name
    <3>1. Listed(c, n)
      BY <1>2, <2>2 DEF OwnedBy
    <3> QED
      BY <1>2, <2>2, <3>1 DEF Listed
  <2> QED
    BY <1>2, <2>1, <2>2
<1> QED
  BY <1>1, <1>2 DEF OwnedBy

LEMMA OwnedStore ==
  ASSUME SavedInv, NEW c \in Clients, Defaulted(c), OwnedBy(c), StoreStep(c)
  PROVE  OwnedBy(c)'
<1> USE DEF SavedInv
<1>0. Saved(c) /\ Fits(job[c], pc[c]) /\ job[c] \in Jobs /\ ClientsOK
      /\ job \in [Clients -> Jobs] /\ pc \in [Clients -> Labels]
  BY DEF StoreInv, ClientsOK
<1>1. UNCHANGED owned /\ pc[c] \notin {"map_open", "map_write", "fetch", "idle"}
  BY DEF StoreStep, FindName, Create, Fill, Adopt, OpenDefault, WriteDefault, Unlink,
     Repoint, Step, At
<1>2. ASSUME Return(c)
      PROVE  /\ pc'[c] \in {"idle", "purge", "map_read", "save"}
             /\ \/ /\ job'[c].url = job[c].url /\ job'[c].phase = job[c].phase
                   /\ job[c].saved \subseteq job'[c].saved /\ job'[c].todo = job[c].todo
                \/ job[c].url \notin Urls /\ job'[c].url \notin Urls
  <2>1. CASE job[c].cmd # "sub"
    BY <1>0, <1>2, <2>1, StoreAssumption DEF Return, Finish, Fits, NoJob
  <2>2. CASE job[c].cmd = "sub"
    BY SMTT(30), <1>0, <1>2, <2>2 DEF Return, Jobs
  <2> QED
    BY <2>1, <2>2
<1>3. CASE FindName(c) \/ OpenDefault(c) \/ Adopt(c) \/ WriteDefault(c) \/ Repoint(c)
  <2>1. UNCHANGED files /\ pc[c] # "unlink"
    BY <1>3 DEF FindName, OpenDefault, Adopt, WriteDefault, Repoint, Step, At
  <2>2. CASE Return(c)
    BY <1>1, <1>2, <2>1, <2>2, ListedKept DEF Readable
  <2>3. CASE ~Return(c)
    <3>1. /\ job'[c].url = job[c].url /\ job'[c].phase = job[c].phase
          /\ job'[c].saved = job[c].saved /\ job'[c].todo = job[c].todo
          /\ pc'[c] \in {"create", "def_write", "def_open"}
      BY <1>0, <1>3, <2>3
         DEF FindName, OpenDefault, Adopt, WriteDefault, Repoint, Step, At, Jobs
    <3> QED
      BY <1>1, <2>1, <3>1, ListedKept DEF Readable
  <2> QED
    BY <2>2, <2>3
<1>4. CASE Create(c)
  <2>1. pc[c] = "create" /\ pc'[c] = "fill" /\ job' = job
        /\ files' = Put(files, job[c].name, Torn) /\ job[c].name \notin DOMAIN files
    BY <1>0, <1>4 DEF Create, Step, At, Saved
  <2>2. \A n \in Readable' : n \in Readable /\ files'[n] = files[n]
    BY <2>1 DEF Readable, Put
  <2> QED
    BY <1>1, <2>1, <2>2, ListedKept
<1>5. CASE Fill(c)
  <2>1. pc[c] = "fill" /\ pc'[c] = "adopt" /\ job[c].name \in DOMAIN files
        /\ files[job[c].name] = Torn /\ job[c].phase = "save"
    BY <1>0, <1>5 DEF Fill, Step, At, Saved, Fits
  <2>2. files' = [files EXCEPT ![job[c].name] = job[c].url]
    BY <1>5, <2>1 DEF Fill
  <2>3. /\ job'[c].url = job[c].url /\ job'[c].phase = job[c].phase
        /\ job'[c].saved = job[c].saved \cup {job[c].name} /\ job'[c].todo = job[c].todo
    BY <1>0, <1>5 DEF Fill, Jobs
  <2>4. \A n \in Readable' : n # job[c].name => n \in Readable /\ files'[n] = files[n]
    BY <2>2 DEF Readable
  <2>5. job[c].name \in job'[c].saved /\ files'[job[c].name] = job'[c].url
    BY <2>1, <2>2, <2>3
  <2> QED
    BY <1>1, <2>1, <2>3, <2>4, <2>5, ListedKept
<1>6. CASE Unlink(c)
  <2>1. files' = Without(files, job[c].name) /\ pc[c] = "unlink"
    BY <1>6 DEF Unlink, At
  <2>2. \A n \in Readable' : n \in Readable /\ files'[n] = files[n] /\ n # job[c].name
    BY <2>1 DEF Readable, Without
  <2>3. CASE Return(c)
    BY <1>1, <1>2, <2>2, <2>3, ListedKept
  <2>4. CASE pc' = [pc EXCEPT ![c] = "repoint"] /\ UNCHANGED job
    BY <1>0, <1>1, <2>2, <2>4, ListedKept
  <2> QED
    BY <1>6, <2>3, <2>4 DEF Unlink
<1> QED
  BY <1>3, <1>4, <1>5, <1>6 DEF StoreStep

LEMMA OwnedSub ==
  ASSUME SavedInv, NEW c \in Clients, OwnedBy(c), SubStep(c)
  PROVE  OwnedBy(c)'
<1> USE DEF SavedInv
<1>0. Saved(c) /\ Fits(job[c], pc[c]) /\ job[c] \in Jobs /\ ClientsOK
      /\ job \in [Clients -> Jobs] /\ pc \in [Clients -> Labels]
  BY DEF StoreInv, ClientsOK
<1>1. Readable' = Readable /\ UNCHANGED files
  BY SavedSub DEF Readable
<1>2. ASSUME NEW U \in SUBSET Urls, NextUrl(c, U)
      PROVE  job'[c].url = Manual /\ pc'[c] \in {"idle", "fetch"}
  BY <1>2, NextUrls DEF StoreInv
<1>3. CASE FetchFails(c)
  <2>1. pc[c] = "fetch" /\ job[c].url \notin Urls /\ UNCHANGED owned
    BY <1>0, <1>3 DEF FetchFails, At, Fits
  <2>2. job'[c].url \notin Urls /\ pc'[c] \in {"idle", "fetch"}
    BY <1>0, <1>2, <1>3, StoreAssumption DEF FetchFails, Jobs
  <2> QED
    BY <1>1, <2>1, <2>2, ListedKept
<1>4. CASE Fetched(c)
  <2>1. pc[c] = "fetch" /\ job[c].url \notin Urls /\ UNCHANGED owned
    BY <1>0, <1>4 DEF Fetched, Step, At, Fits
  <2>2. PICK u \in job[c].urls :
          /\ pc'[c] = "purge" /\ job'[c].url = u /\ job'[c].phase = "remove"
          /\ job'[c].todo = IF u \in DOMAIN owned THEN owned[u] ELSE {}
    BY <1>0, <1>4 DEF Fetched, Step, NoJob
  <2>3. \A n \in Readable : files[n] \in Urls => files[n] \in DOMAIN owned /\ n \in owned[files[n]]
    BY <2>1 DEF OwnedBy, Listed
  <2> QED
    BY <1>1, <2>1, <2>2, <2>3 DEF OwnedBy, Listed, MapKept
<1>5. CASE RemoveNext(c)
  <2>1. pc[c] = "purge" /\ job[c].phase = "remove" /\ UNCHANGED owned
    BY <1>0, <1>5 DEF RemoveNext, At, Fits
  <2>2. PICK m \in job[c].todo :
          /\ job'[c].todo = job[c].todo \ {m} /\ job'[c].name = m
          /\ job'[c].url = job[c].url /\ job'[c].phase = job[c].phase
          /\ pc'[c] = IF m \in Readable THEN "unlink" ELSE "purge"
    BY <1>0, <1>5 DEF RemoveNext, Jobs
  <2> QED
    BY <1>1, <2>1, <2>2 DEF OwnedBy, Listed, MapKept
<1>6. CASE AllRemoved(c)
  <2>1. pc[c] = "purge" /\ job[c].phase = "remove" /\ job[c].todo = {} /\ UNCHANGED owned
    BY <1>0, <1>6 DEF AllRemoved, Step, At, Fits
  <2>2. pc'[c] = "save" /\ job'[c].url = job[c].url
    BY <1>0, <1>6 DEF AllRemoved, Step, Jobs
  <2> QED
    BY <1>1, <2>1, <2>2 DEF OwnedBy, Listed, MapKept
<1>7. CASE ReadMap(c)
  <2>1. pc[c] = "map_read" /\ job[c].phase = "save" /\ UNCHANGED owned
    BY <1>0, <1>7 DEF ReadMap, Step, At, Fits
  <2>2. /\ pc'[c] = "map_open" /\ job'[c].url = job[c].url /\ job'[c].saved = job[c].saved
        /\ job'[c].phase = "save" /\ job'[c].map = Put(owned, job[c].url, job[c].saved)
    BY <1>0, <1>7, <2>1 DEF ReadMap, Step, Jobs
  <2> QED
    BY <1>1, <2>1, <2>2 DEF OwnedBy, Listed, MapKept, Put
<1>8. CASE OpenMap(c)
  <2>1. pc[c] = "map_open" /\ pc'[c] = "map_write" /\ UNCHANGED job
    BY <1>0, <1>8 DEF OpenMap, Step, At
  <2> QED
    BY <1>1, <2>1 DEF OwnedBy, Listed, MapKept
<1>9. CASE WriteMap(c)
  <2>1. /\ pc[c] = "map_write" /\ owned' = job[c].map /\ job[c].phase = "save"
        /\ job[c].url \in DOMAIN job[c].map /\ job[c].map[job[c].url] = job[c].saved
    BY <1>0, <1>9 DEF WriteMap, At, Fits, Saved
  <2>2. job'[c].url \notin Urls /\ pc'[c] \in {"idle", "fetch"}
    BY <1>0, <1>2, <1>9, StoreAssumption DEF WriteMap, Jobs
  <2> QED
    BY <1>1, <2>1, <2>2 DEF OwnedBy, Listed, MapKept
<1> QED
  BY <1>3, <1>4, <1>5, <1>6, <1>7, <1>8, <1>9 DEF SubStep

LEMMA OwnedUser ==
  ASSUME SavedInv, NEW c \in Clients, OwnedBy(c),
         Add(c) \/ Remove(c) \/ SetDefault(c) \/ Refresh(c)
  PROVE  OwnedBy(c)'
<1>0. Fits(job[c], pc[c]) /\ job \in [Clients -> Jobs] /\ pc \in [Clients -> Labels]
  BY DEF SavedInv, StoreInv, ClientsOK
<1>1. pc[c] = "idle" /\ UNCHANGED <<files, owned>> /\ Readable' = Readable
  BY DEF Add, Remove, SetDefault, Refresh, Start, Step, At, Readable
<1>2. job[c].url \notin Urls
  BY <1>0, <1>1 DEF Fits
<1>3. job'[c].url = Manual /\ pc'[c] \in {"save", "unlink", "def_open", "fetch"}
  BY ZenonT(30), <1>0 DEF Add, Remove, SetDefault, Refresh, Start, Step, NoJob
<1> QED
  BY <1>1, <1>2, <1>3, StoreAssumption DEF OwnedBy, Listed, MapKept

LEMMA InitClean == Init => CleanInv
  BY InitSaved DEF Init, CleanInv, Defaulted, OwnedBy, MapKept, Readable

LEMMA NextClean ==
  ASSUME OneAtATime
  PROVE  CleanInv /\ [Next]_storeVars => CleanInv'
<1> SUFFICES ASSUME CleanInv, [Next]_storeVars PROVE CleanInv'
  OBVIOUS
<1>1. SavedInv /\ SavedInv'
  BY NextSaved DEF CleanInv
<1>2. CASE UNCHANGED storeVars
  BY <1>1, <1>2
     DEF storeVars, CleanInv, Defaulted, OwnedBy, MapKept, Listed, Readable
<1>3. ASSUME NEW c \in Clients, Defaulted(c)', OwnedBy(c)' PROVE CleanInv'
  BY <1>1, <1>3 DEF OneAtATime, CleanInv
<1>4. CASE killed = 0
  <2>1. ASSUME NEW c \in Clients, Command(c) PROVE CleanInv'
    BY <1>1, <1>3, <1>4, <2>1, DefaultStore, DefaultElse, OwnedStore, OwnedSub
       DEF Command, CleanInv
  <2>2. ASSUME NEW c \in Clients, Add(c) \/ Remove(c) \/ SetDefault(c) \/ Refresh(c)
        PROVE  CleanInv'
    BY <1>1, <1>3, <1>4, <2>2, DefaultElse, OwnedUser DEF CleanInv
  <2>3. ASSUME NEW c \in Clients, Crash(c) PROVE CleanInv'
    BY <1>1, <1>4, <2>3 DEF Crash, CleanInv
  <2> QED
    BY <1>2, <2>1, <2>2, <2>3 DEF Next
<1>5. CASE killed # 0
  <2>1. killed \in Nat
    BY <1>1 DEF SavedInv, StoreInv, FilesOK
  <2>2. ASSUME NEW c \in Clients, StoreStep(c) PROVE UNCHANGED killed
    BY <2>2 DEF StoreStep, FindName, Create, Fill, Adopt, OpenDefault, WriteDefault, Unlink,
                Repoint
  <2>3. ASSUME NEW c \in Clients, SubStep(c) PROVE UNCHANGED killed
    BY <2>3 DEF SubStep, FetchFails, Fetched, RemoveNext, AllRemoved, ReadMap, OpenMap,
                WriteMap
  <2>4. ASSUME NEW c \in Clients, Add(c) \/ Remove(c) \/ SetDefault(c) \/ Refresh(c)
        PROVE  UNCHANGED killed
    BY <2>4 DEF Add, Remove, SetDefault, Refresh, Start
  <2>5. ASSUME NEW c \in Clients, Crash(c) PROVE killed' = killed + 1
    BY <2>5 DEF Crash
  <2>6. killed' = killed \/ killed' = killed + 1
    BY <2>2, <2>3, <2>4, <2>5 DEF Next, Command, storeVars
  <2> QED
    BY <1>1, <1>5, <2>1, <2>6 DEF CleanInv
<1> QED
  BY <1>4, <1>5

LEMMA AtRest ==
  ASSUME OneAtATime, CleanInv, AllIdle, killed = 0
  PROVE  /\ Rested
         /\ \A n \in Readable : files[n] \in Urls =>
              files[n] \in DOMAIN owned /\ n \in owned[files[n]]
<1>1. PICK c : Clients = {c}
  BY DEF OneAtATime
<1>2. pc[c] = "idle" /\ Defaulted(c) /\ OwnedBy(c) /\ Fits(job[c], pc[c])
  BY <1>1 DEF AllIdle, CleanInv, SavedInv, StoreInv, ClientsOK
<1>3. job[c].url \notin Urls
  BY <1>2 DEF Fits
<1> QED
  BY <1>2, <1>3, DefaultRests DEF Elsewhere, OwnedBy, Listed

\* Commands that run one after the other to their ends keep DEFAULT on a profile that
\* loads, for as long as there is one.
THEOREM DefaultKept ==
  ASSUME OneAtATime
  PROVE  Spec => []DefaultLoads
<1>1. CleanInv => DefaultLoads
  BY AtRest DEF DefaultLoads, Rested
<1>2. CleanInv /\ [Next]_storeVars => CleanInv'
  BY NextClean
<1> QED
  BY <1>1, <1>2, InitClean, PTL DEF Spec

\* Commands that run one after the other to their ends leave every profile that came
\* from a subscription in its entry of the map, so the next refresh finds it.
THEOREM OwnedKept ==
  ASSUME OneAtATime
  PROVE  Spec => []ProfilesOwned
<1>1. CleanInv => ProfilesOwned
  BY AtRest DEF ProfilesOwned
<1>2. CleanInv /\ [Next]_storeVars => CleanInv'
  BY NextClean
<1> QED
  BY <1>1, <1>2, InitClean, PTL DEF Spec
=============================================================================
