---------------------------- MODULE BypassProofs ----------------------------
(***************************************************************************)
(* Proofs about the bypass lists and the geo assets, for any number of     *)
(* commands at once, any lists, resolvers and geo files, and destinations   *)
(* of any length.                                                          *)
(***************************************************************************)
EXTENDS BypassProps, SequenceTheorems, TLAPS

FileIndex == 1 .. Len(Files)
Content == [has: {"none", "partial", "whole"}, last: Clients \cup {NoOne}]
Fetches == [at: {"off", "check", "open", "copy", "rename", "found", "failed"},
            file: FileIndex, fd: {"none", "part", "target", "gone"}, hangs: BOOLEAN]

GeoTypeOK ==
  /\ target \in [FileIndex -> Content] /\ part \in [FileIndex -> Content]
  /\ fetch \in [Clients -> Fetches] /\ calm \in BOOLEAN
  /\ \A c \in Clients : fetch[c].at = "copy" <=> fetch[c].fd # "none"

Copying(c) == fetch[c].at \in {"copy", "rename"}

\* While downloads do not overlap, the one at work has the .part file for itself, or
\* another client that gave up has removed it.
PartOwned ==
  \A c \in Clients :
    /\ fetch[c].at = "copy" =>
         \/ fetch[c].fd = "part" /\ part[fetch[c].file].last = c
         \/ fetch[c].fd = "gone"
    /\ fetch[c].fd = "gone" \/ fetch[c].at = "rename" => part[fetch[c].file].has # "partial"

GeoInv ==
  /\ GeoTypeOK
  /\ calm =>
       /\ \A c, d \in Clients : Copying(c) /\ Copying(d) => c = d
       /\ PartOwned /\ AssetsWhole

-----------------------------------------------------------------------------
LEMMA SomeFile == 1 \in FileIndex /\ Len(Files) \in Nat
  BY GeoAssumption DEF FileIndex

LEMMA IdleFetch == Idle \in Fetches
  BY SomeFile DEF Idle, Fetches

LEMMA NoFileContent == NoFile \in Content
  BY DEF NoFile, Content

LEMMA NextFileType ==
  ASSUME GeoTypeOK, NEW c \in Clients
  PROVE  NextFile(c) \in Fetches /\ NextFile(c).at \in {"open", "found"}
<1>1. fetch[c].file \in FileIndex
  BY DEF GeoTypeOK, Fetches
<1>2. fetch[c].file < Len(Files) => fetch[c].file + 1 \in FileIndex
  BY <1>1, SomeFile DEF FileIndex
<1> QED
  BY <1>2, SomeFile DEF NextFile, Idle, Fetches

\* A client that does not write to a file any more.
LEMMA FetchRests ==
  ASSUME GeoInv, NEW c \in Clients, NEW k \in Fetches,
         k.at \in {"off", "check", "open", "found", "failed"}, k.fd = "none",
         fetch' = [fetch EXCEPT ![c] = k], UNCHANGED <<target, part, calm>>
  PROVE  GeoInv'
<1>1. fetch' \in [Clients -> Fetches] /\ fetch'[c] = k
      /\ \A d \in Clients \ {c} : fetch'[d] = fetch[d]
  BY DEF GeoInv, GeoTypeOK
<1>2. GeoTypeOK'
  BY <1>1 DEF GeoInv, GeoTypeOK
<1> QED
  BY <1>1, <1>2 DEF GeoInv, PartOwned, Copying, AssetsWhole

LEMMA OpenPartKeeps ==
  ASSUME GeoInv, NEW c \in Clients, OpenPart(c)
  PROVE  GeoInv'
<1> DEFINE f == fetch[c].file
<1>1. PICK hangs \in BOOLEAN :
        fetch' = [fetch EXCEPT ![c].at = "copy", ![c].fd = "part", ![c].hangs = hangs]
  BY DEF OpenPart
<1> DEFINE k == [fetch[c] EXCEPT !.at = "copy", !.fd = "part", !.hangs = hangs]
<1>2. k \in Fetches /\ k.at = "copy" /\ k.fd = "part" /\ k.file = f /\ f \in FileIndex
  BY DEF GeoInv, GeoTypeOK, Fetches
<1>3. fetch'[c] = k /\ fetch' \in [Clients -> Fetches]
      /\ \A d \in Clients \ {c} : fetch'[d] = fetch[d]
  BY <1>1, <1>2 DEF GeoInv, GeoTypeOK
<1> HIDE DEF k
<1>4. part' = [part EXCEPT ![f] = [has |-> "partial", last |-> c]] /\ UNCHANGED target
      /\ calm' = (calm /\ \A d \in Clients \ {c} : ~Downloading(d))
  BY DEF OpenPart
<1>5. part' \in [FileIndex -> Content] /\ part'[f].last = c
  BY <1>2, <1>4 DEF GeoInv, GeoTypeOK, Content
<1>6. GeoTypeOK'
  BY <1>2, <1>3, <1>4, <1>5 DEF GeoInv, GeoTypeOK
<1>7. ASSUME calm' PROVE PartOwned' /\ AssetsWhole' /\ \A d \in Clients \ {c} : ~Copying(d)'
  <2>1. calm /\ \A d \in Clients \ {c} : ~Downloading(d)
    BY <1>4, <1>7
  <2>2. ASSUME NEW d \in Clients \ {c}
        PROVE  fetch'[d].at \notin {"copy", "rename"} /\ fetch'[d].fd = "none"
    BY <1>3, <2>1 DEF Downloading, GeoInv, GeoTypeOK, Fetches
  <2> QED
    BY <1>2, <1>3, <1>4, <1>5, <2>1, <2>2 DEF PartOwned, AssetsWhole, GeoInv, Copying
<1> QED
  BY <1>6, <1>7 DEF GeoInv

LEMMA CopiedKeeps ==
  ASSUME GeoInv, NEW c \in Clients, Copied(c)
  PROVE  GeoInv'
<1> DEFINE f == fetch[c].file
           k == [fetch[c] EXCEPT !.at = "rename", !.fd = "none"]
<1>1. fetch[c].at = "copy" /\ fetch' = [fetch EXCEPT ![c] = k]
  BY DEF Copied
<1>2. k \in Fetches /\ k.at = "rename" /\ k.fd = "none" /\ k.file = f /\ f \in FileIndex
  BY DEF GeoInv, GeoTypeOK, Fetches
<1>3. fetch'[c] = k /\ fetch' \in [Clients -> Fetches]
      /\ \A d \in Clients \ {c} : fetch'[d] = fetch[d]
  BY <1>1, <1>2 DEF GeoInv, GeoTypeOK
<1> HIDE DEF k
<1>4. \/ calm' = FALSE /\ UNCHANGED <<part, target>>
      \/ calm' = calm /\ fetch[c].fd = "gone" /\ UNCHANGED <<part, target>>
      \/ /\ calm' = calm /\ fetch[c].fd = "part" /\ UNCHANGED target
         /\ part' = IF part[f].last = c
                    THEN [part EXCEPT ![f] = [has |-> "whole", last |-> NoOne]] ELSE part
      \/ /\ calm' = calm /\ fetch[c].fd = "target" /\ UNCHANGED part
         /\ target' = IF target[f].last = c
                      THEN [target EXCEPT ![f] = [has |-> "whole", last |-> NoOne]] ELSE target
  BY <1>1 DEF Copied, GeoInv, GeoTypeOK, Fetches
<1>5. GeoTypeOK'
  <2> DEFINE w == [has |-> "whole", last |-> NoOne]
  <2>4. w \in Content
    BY DEF Content
  <2>5. \A t \in [FileIndex -> Content] : [t EXCEPT ![f] = w] \in [FileIndex -> Content]
    BY <2>4
  <2>1. part' \in [FileIndex -> Content] /\ target' \in [FileIndex -> Content]
    BY <1>4, <2>5 DEF GeoInv, GeoTypeOK
  <2>2. calm' \in BOOLEAN
    BY <1>4 DEF GeoInv, GeoTypeOK
  <2>3. \A d \in Clients : fetch'[d].at = "copy" <=> fetch'[d].fd # "none"
    BY <1>2, <1>3 DEF GeoInv, GeoTypeOK
  <2> QED
    BY <1>3, <2>1, <2>2, <2>3 DEF GeoTypeOK
<1>6. ASSUME calm' PROVE /\ PartOwned' /\ AssetsWhole'
                         /\ \A d \in Clients \ {c} : ~Copying(d)'
  <2>1. calm /\ PartOwned /\ AssetsWhole
    BY <1>4, <1>6 DEF GeoInv
  <2>2. ASSUME NEW d \in Clients \ {c}
        PROVE  fetch'[d].at \notin {"copy", "rename"} /\ fetch'[d].fd = "none"
    BY <1>1, <1>3, <2>1 DEF GeoInv, GeoTypeOK, Fetches, Copying
  <2>3. part'[f].has # "partial" /\ UNCHANGED target
    BY <1>1, <1>2, <1>4, <1>6, <2>1 DEF PartOwned, GeoInv, GeoTypeOK
  <2> QED
    BY <1>2, <1>3, <1>4, <1>6, <2>1, <2>2, <2>3 DEF PartOwned, AssetsWhole, Copying
<1> QED
  BY <1>5, <1>6 DEF GeoInv

\* What a descriptor refers to after a file was renamed or removed.
LEMMA RepointedType ==
  ASSUME GeoTypeOK, NEW f, NEW to, NEW d \in Clients,
         to \in {[part |-> "target", target |-> "gone", gone |-> "gone"],
                [part |-> "gone", target |-> "target", gone |-> "gone"]}
  PROVE  /\ Repointed(f, to)[d] \in Fetches
         /\ Repointed(f, to)[d].at = fetch[d].at /\ Repointed(f, to)[d].file = fetch[d].file
         /\ Repointed(f, to)[d].fd # "none" <=> fetch[d].fd # "none"
         /\ \/ Repointed(f, to)[d].fd = fetch[d].fd
            \/ fetch[d].file = f /\ Repointed(f, to)[d].fd \in {"target", "gone"}
  BY DEF GeoTypeOK, Fetches, Repointed

LEMMA RenameKeeps ==
  ASSUME GeoInv, NEW c \in Clients, Rename(c)
  PROVE  GeoInv'
<1> DEFINE f == fetch[c].file
           to == [part |-> "target", target |-> "gone", gone |-> "gone"]
<1>1. /\ fetch[c].at = "rename" /\ UNCHANGED calm
      /\ target' = [target EXCEPT ![f] = part[f]] /\ part' = [part EXCEPT ![f] = NoFile]
      /\ fetch' = [Repointed(f, to) EXCEPT ![c] = NextFile(c)]
  BY DEF Rename
<1>2. f \in FileIndex /\ part[f] \in Content
  BY DEF GeoInv, GeoTypeOK, Fetches
<1>3. fetch'[c] = NextFile(c) /\ \A d \in Clients \ {c} : fetch'[d] = Repointed(f, to)[d]
  BY <1>1 DEF Repointed
<1>4. NextFile(c) \in Fetches /\ NextFile(c).at \in {"open", "found"} /\ NextFile(c).fd = "none"
  BY NextFileType DEF GeoInv, NextFile, Idle
<1>5. fetch' \in [Clients -> Fetches]
  <2>1. \A d \in Clients : Repointed(f, to)[d] \in Fetches
    BY RepointedType DEF GeoInv
  <2> HIDE DEF to
  <2> QED
    BY <1>1, <1>4, <2>1 DEF Repointed
<1>6. GeoTypeOK'
  <2>1. target' \in [FileIndex -> Content] /\ part' \in [FileIndex -> Content] /\ calm' \in BOOLEAN
    BY <1>1, <1>2, NoFileContent DEF GeoInv, GeoTypeOK
  <2>2. ASSUME NEW d \in Clients PROVE fetch'[d].at = "copy" <=> fetch'[d].fd # "none"
    BY <1>3, <1>4, RepointedType DEF GeoInv, GeoTypeOK
  <2> QED
    BY <1>5, <2>1, <2>2 DEF GeoTypeOK
<1>7. ASSUME calm' PROVE /\ PartOwned' /\ AssetsWhole'
                         /\ \A d \in Clients : ~Copying(d)'
  <2>1. calm /\ PartOwned /\ AssetsWhole
    BY <1>1, <1>7 DEF GeoInv
  <2>2. ASSUME NEW d \in Clients
        PROVE  fetch'[d].at \notin {"copy", "rename"} /\ fetch'[d].fd = "none"
    BY <1>1, <1>3, <1>4, <2>1, RepointedType DEF GeoInv, GeoTypeOK, Copying
  <2>3. part[f].has # "partial"
    BY <1>1, <2>1 DEF PartOwned
  <2> QED
    BY <1>1, <1>2, <2>1, <2>2, <2>3 DEF PartOwned, AssetsWhole, Copying, GeoInv, GeoTypeOK, FileIndex
<1> QED
  BY <1>6, <1>7 DEF GeoInv

LEMMA FailKeeps ==
  ASSUME GeoInv, NEW c \in Clients, Fail(c)
  PROVE  GeoInv'
<1> DEFINE f == fetch[c].file
           to == [part |-> "gone", target |-> "target", gone |-> "gone"]
           k == [Idle EXCEPT !.at = "failed"]
<1>1. /\ UNCHANGED <<calm, target>> /\ part' = [part EXCEPT ![f] = NoFile]
      /\ fetch' = [Repointed(f, to) EXCEPT ![c] = k]
  BY DEF Fail
<1>2. f \in FileIndex
  BY DEF GeoInv, GeoTypeOK, Fetches
<1>3. fetch'[c] = k /\ \A d \in Clients \ {c} : fetch'[d] = Repointed(f, to)[d]
  BY <1>1 DEF Repointed
<1>4. k \in Fetches /\ k.at = "failed" /\ k.fd = "none"
  BY IdleFetch DEF Idle, Fetches
<1> HIDE DEF k
<1>5. fetch' \in [Clients -> Fetches]
  <2>1. \A d \in Clients : Repointed(f, to)[d] \in Fetches
    BY RepointedType DEF GeoInv
  <2> HIDE DEF to, k
  <2> QED
    BY <1>1, <1>4, <2>1 DEF Repointed
<1>6. GeoTypeOK'
  <2>1. target' \in [FileIndex -> Content] /\ part' \in [FileIndex -> Content] /\ calm' \in BOOLEAN
    BY <1>1, <1>2, NoFileContent DEF GeoInv, GeoTypeOK
  <2>2. ASSUME NEW d \in Clients PROVE fetch'[d].at = "copy" <=> fetch'[d].fd # "none"
    BY <1>3, <1>4, RepointedType DEF GeoInv, GeoTypeOK
  <2> QED
    BY <1>5, <2>1, <2>2 DEF GeoTypeOK
<1>7. ASSUME calm' PROVE /\ PartOwned' /\ AssetsWhole'
                         /\ \A d, e \in Clients : Copying(d)' /\ Copying(e)' => d = e
  <2>1. calm /\ PartOwned /\ AssetsWhole /\ \A d, e \in Clients : Copying(d) /\ Copying(e) => d = e
    BY <1>1, <1>7 DEF GeoInv
  <2>2. \A d \in Clients : Copying(d)' => Copying(d)
    BY <1>3, <1>4, RepointedType DEF GeoInv, Copying
  <2>3. ASSUME NEW d \in Clients \ {c}
        PROVE  /\ fetch'[d].at = "copy" =>
                    \/ fetch'[d].fd = "part" /\ part'[fetch'[d].file].last = d
                    \/ fetch'[d].fd = "gone"
               /\ fetch'[d].fd = "gone" \/ fetch'[d].at = "rename" =>
                    part'[fetch'[d].file].has # "partial"
    <3>1. fetch'[d] = Repointed(f, to)[d] /\ fetch[d] \in Fetches
      BY <1>3 DEF GeoInv, GeoTypeOK
    <3>2. CASE fetch[d].at = "copy" /\ fetch[d].file = f
      <4>1. fetch'[d].at = "copy" /\ fetch'[d].file = f /\ fetch'[d].fd = to[fetch[d].fd]
        BY <3>1, <3>2 DEF Repointed, Fetches
      <4>2. fetch[d].fd \in {"part", "gone"}
        BY <2>1, <3>2 DEF PartOwned
      <4>3. part'[f].has = "none"
        BY <1>1, <1>2 DEF NoFile, GeoInv, GeoTypeOK
      <4> QED
        BY <4>1, <4>2, <4>3
    <3>3. CASE ~(fetch[d].at = "copy" /\ fetch[d].file = f)
      <4>1. fetch'[d] = fetch[d]
        BY <3>1, <3>3 DEF Repointed
      <4>2. fetch[d].file # f => part'[fetch[d].file] = part[fetch[d].file]
        BY <1>1 DEF GeoInv, GeoTypeOK
      <4>3. part'[f].has = "none"
        BY <1>1, <1>2 DEF NoFile, GeoInv, GeoTypeOK
      <4> QED
        BY <2>1, <3>3, <4>1, <4>2, <4>3 DEF PartOwned
    <3> QED
      BY <3>2, <3>3
  <2>4. PartOwned'
    BY <1>3, <1>4, <2>3 DEF PartOwned
  <2> QED
    BY <1>1, <2>1, <2>2, <2>4 DEF AssetsWhole
<1> QED
  BY <1>6, <1>7 DEF GeoInv

LEMMA EnsureKeeps ==
  ASSUME GeoInv, NEW c \in Clients, Ensure(c)
  PROVE  GeoInv'
<1>1. CASE Find(c)
  <2>0. PICK all \in {HasAll, AllWhole} :
          fetch' = [fetch EXCEPT ![c] = [Idle EXCEPT !.at = IF all \/ system THEN "found" ELSE "open"]]
    BY <1>1 DEF Find
  <2> DEFINE k == [Idle EXCEPT !.at = IF all \/ system THEN "found" ELSE "open"]
  <2>1. k \in Fetches /\ k.at \in {"found", "open"} /\ k.fd = "none"
    BY IdleFetch DEF Idle, Fetches
  <2>2. fetch' = [fetch EXCEPT ![c] = k] /\ UNCHANGED <<target, part, calm>>
    BY <1>1, <2>0 DEF Find
  <2> HIDE DEF k
  <2> QED
    BY <2>1, <2>2, FetchRests
<1>2. CASE Skip(c)
  <2>1. NextFile(c) \in Fetches /\ NextFile(c).at \in {"open", "found"} /\ NextFile(c).fd = "none"
    BY NextFileType DEF GeoInv, NextFile, Idle
  <2> QED
    BY <1>2, <2>1, FetchRests DEF Skip
<1> QED
  BY <1>1, <1>2, OpenPartKeeps, CopiedKeeps, RenameKeeps, FailKeeps DEF Ensure

LEMMA InitGeo == Init => GeoInv
  BY IdleFetch, NoFileContent
     DEF Init, GeoInit, GeoInv, GeoTypeOK, Copying, PartOwned, AssetsWhole, Idle, NoFile,
         FileIndex

LEMMA NextGeo == GeoInv /\ [Next]_vars => GeoInv'
<1> SUFFICES ASSUME GeoInv, [Next]_vars PROVE GeoInv'
  OBVIOUS
<1>1. CASE UNCHANGED <<target, part, fetch, calm>>
  BY <1>1 DEF GeoInv, GeoTypeOK, PartOwned, AssetsWhole, Copying
<1>2. ASSUME NEW c \in Clients, fetch' = [fetch EXCEPT ![c] = Idle],
             UNCHANGED <<target, part, calm>>
      PROVE  GeoInv'
  <2>1. Idle.at = "off" /\ Idle.fd = "none"
    BY DEF Idle
  <2> QED
    BY <1>2, <2>1, IdleFetch, FetchRests
<1>3. ASSUME NEW c \in Clients, NEW bypass \in BOOLEAN, Up(c, bypass) PROVE GeoInv'
  <2> DEFINE k == [Idle EXCEPT !.at = "check"]
  <2>1. k \in Fetches /\ k.at = "check" /\ k.fd = "none"
    BY IdleFetch DEF Idle, Fetches
  <2>2. UNCHANGED <<target, part, calm>> /\ (fetch' = [fetch EXCEPT ![c] = k] \/ UNCHANGED fetch)
    BY <1>3 DEF Up
  <2> HIDE DEF k
  <2> QED
    BY <1>1, <2>1, <2>2, FetchRests
<1>4. ASSUME NEW c \in Clients, Proceed(c) PROVE GeoInv'
  <2>1. CASE Ensuring(c)
    BY <2>1, EnsureKeeps DEF Ensuring
  <2>2. CASE GeoFound(c) \/ GeoFailed(c)
    BY <1>2, <2>2 DEF GeoFound, GeoFailed
  <2>3. CASE WriteDomains(c) \/ OpenIps(c) \/ WriteIps(c) \/ ClearIps(c) \/ WriteRuDns(c)
             \/ ReadSettings(c) \/ WriteConfig(c) \/ XrayStarts(c) \/ XrayFails(c)
    BY <1>1, <2>3
       DEF WriteDomains, OpenIps, WriteIps, ClearIps, WriteRuDns, ReadSettings, Read, WriteConfig,
           XrayStarts, XrayFails, Finish, geoVars
  <2> QED
    BY <1>4, <2>1, <2>2, <2>3 DEF Proceed
<1>5. ASSUME NEW c \in Clients, Kill(c) PROVE GeoInv'
  BY <1>2, <1>5 DEF Kill
<1>6. ASSUME NEW c \in Clients,
             \/ \E file \in ImportFiles : Import(c, file)
             \/ \E addr \in Resolvers : SetRuDns(c, addr)
             \/ Clear(c) \/ ResetRuDns(c)
      PROVE  GeoInv'
  BY <1>1, <1>6 DEF Import, SetRuDns, Clear, ResetRuDns, Begin, geoVars
<1>7. CASE Down \/ UNCHANGED vars
  BY <1>1, <1>7 DEF Down, vars, geoVars
<1> QED
  BY <1>3, <1>4, <1>5, <1>6, <1>7 DEF Next

\* As long as downloads did not overlap, and none was cut short unnoticed, every geo
\* file that is there is whole, whoever gives up or is killed in a download, and
\* removes or leaves behind the .part file of another one.
THEOREM AssetsAreWhole == Spec => []AssetsWhole
<1>1. GeoInv => AssetsWhole
  BY DEF GeoInv, AssetsWhole
<1> QED
  BY <1>1, InitGeo, NextGeo, PTL DEF Spec

-----------------------------------------------------------------------------
ListFiles == ImportFiles \cup {{}}
DomainLists == {Domains(file) : file \in ListFiles}
NetLists == {Nets(file) : file \in ListFiles}
RuAddresses == Resolvers \cup {DnsRu}

\* Texts may hold entries of lists and what two overlapping imports have left of them.
Entries == UNION DomainLists
DomainTexts == SUBSET (Entries \cup {x[2] : x \in {y \in DomainPieces : y[1] \in Entries}})
NetTexts == SUBSET ((UNION NetLists) \cup {x[2] : x \in NetPieces})

Seens == [dnsDomains: DomainTexts, dnsRu: RuAddresses, ru: RuAddresses,
          domains: DomainTexts, ips: NetTexts]
Tolds == [lists: ListFiles \cup {Unknown}, ru: RuAddresses \cup {Unknown}]
Configs == [bypass: BOOLEAN, seen: Seens, told: Tolds]
Commands ==
  [op: {"none", "import", "clear", "ru-dns", "up"},
   at: {"none", "second", "third", "fourth", "geo", "dnsDomains", "dnsRu", "ru", "domains",
        "ips", "dump", "start"},
   arg: ListFiles \cup Resolvers \cup {Nothing}, fd: {"file", "gone"}, alone: BOOLEAN,
   bypass: BOOLEAN, dir: {"none", "assets", "system"}, seen: Seens, told: Tolds,
   config: {Nothing} \cup Configs]

SettingsTypeOK ==
  /\ domains \in DomainTexts /\ ips \in NetTexts /\ ruFile \in Resolvers \cup {Absent, Torn}
  /\ asked \in Tolds /\ cmd \in [Clients -> Commands]
  /\ \A c \in Clients :
       /\ cmd[c].op = "import" => cmd[c].arg \in ImportFiles
       /\ cmd[c].op = "clear" => cmd[c].arg = {}
       /\ cmd[c].op = "ru-dns" => cmd[c].arg \in Resolvers
  /\ running # Nothing => running \in Configs

Listing == {"import", "clear"}

\* The settings are what t says, and no command changes them.
Hold(t) ==
  /\ t.lists # Unknown =>
       /\ domains = Domains(t.lists) /\ ips = Nets(t.lists)
       /\ \A c \in Clients : cmd[c].op \notin Listing
  /\ t.ru # Unknown => RuDns = t.ru /\ \A c \in Clients : cmd[c].op # "ru-dns"

\* A command that was alone so far has written what it was asked to.
Alone(c) ==
  /\ cmd[c].op \in Listing => \A d \in Clients \ {c} : cmd[d].op \notin Listing
  /\ cmd[c].op = "ru-dns" => \A d \in Clients \ {c} : cmd[d].op # "ru-dns"
  /\ cmd[c].op = "import" =>
       /\ cmd[c].fd = "file" /\ cmd[c].at \in {"second", "third", "fourth"}
       /\ domains = IF cmd[c].at = "second" THEN {} ELSE Domains(cmd[c].arg)
       /\ cmd[c].at = "fourth" => ips = {}
  /\ cmd[c].op = "clear" => domains = {}
  /\ cmd[c].op = "ru-dns" => cmd[c].fd = "file" /\ ruFile = Torn

AloneInv == \A c \in Clients : cmd[c].alone => Alone(c)

\* What an up has read by the time it is at a step, if nothing changed since.
Agrees(s, t, at) ==
  /\ t.lists # Unknown =>
       /\ at \in {"dnsRu", "ru", "domains", "ips", "dump"} => s.dnsDomains = Domains(t.lists)
       /\ at \in {"ips", "dump"} => s.domains = Domains(t.lists)
       /\ at = "dump" => s.ips = Nets(t.lists)
  /\ t.ru # Unknown =>
       /\ at \in {"ru", "domains", "ips", "dump"} => s.dnsRu = t.ru
       /\ at \in {"domains", "ips", "dump"} => s.ru = t.ru

\* A configuration was built from what was told.
Sound(config) == config # Nothing => Agrees(config.seen, config.told, "dump")

SettingsInv ==
  /\ SettingsTypeOK /\ AloneInv /\ Hold(asked)
  /\ \A c \in Clients : cmd[c].op = "up" =>
       Hold(cmd[c].told) /\ Agrees(cmd[c].seen, cmd[c].told, cmd[c].at)
  /\ \A c \in Clients : Sound(cmd[c].config)
  /\ Sound(running)

-----------------------------------------------------------------------------
LEMMA NothingListed ==
  /\ Domains({}) = {} /\ Nets({}) = {}
  /\ {} \in DomainLists /\ {} \in NetLists /\ {} \in DomainTexts /\ {} \in NetTexts
<1>1. Domains({}) = {} /\ Nets({}) = {}
  BY DEF Domains, Nets
<1> QED
  BY <1>1 DEF DomainLists, NetLists, ListFiles, DomainTexts, NetTexts

LEMMA ListIsText ==
  /\ \A list \in DomainLists : list \in DomainTexts
  /\ \A list \in NetLists : list \in NetTexts
  BY DEF DomainTexts, NetTexts, Entries

\* What is written over another text holds no entry but those of both and their pieces.
LEMMA OverwrittenHolds ==
  ASSUME NEW old, NEW new, NEW pieces, NEW E, old \subseteq E, new \subseteq E,
         \A x \in pieces : x[1] \in old => x[2] \in E,
         NEW text \in Overwritten(old, new, pieces)
  PROVE  text \subseteq E
<1>1. CASE text = old \/ text = new
  BY <1>1
<1>2. ASSUME NEW rest \in Leftovers(old, pieces), text = new \cup rest
      PROVE  text \subseteq E
  <2>1. CASE rest = {}
    BY <1>2, <2>1
  <2>2. ASSUME NEW e \in old, NEW S \in SUBSET (old \ {e}),
               NEW P \in {{}} \cup {{x[2]} : x \in {y \in pieces : y[1] = e}},
               rest = S \cup P
        PROVE  text \subseteq E
    <3>1. P \subseteq E
      BY <2>2
    <3> QED
      BY <1>2, <2>2, <3>1
  <2> QED
    BY <1>2, <2>1, <2>2 DEF Leftovers
<1> QED
  BY <1>1, <1>2 DEF Overwritten

LEMMA WrittenAlone ==
  ASSUME NEW c \in Clients, cmd[c].fd = "file", NEW new, NEW pieces,
         NEW text \in Written(c, {}, new, pieces)
  PROVE  text = new
<1>1. \A rest \in Leftovers({}, pieces) : rest = {}
  BY DEF Leftovers
<1> QED
  BY <1>1 DEF Written, Overwritten

LEMMA WrittenIsText ==
  ASSUME SettingsTypeOK, NEW c \in Clients, NEW file \in ListFiles
  PROVE  /\ \A text \in Written(c, domains, Domains(file), DomainPieces) : text \in DomainTexts
         /\ \A text \in Written(c, ips, Nets(file), NetPieces) : text \in NetTexts
<1> DEFINE E == Entries \cup {x[2] : x \in {y \in DomainPieces : y[1] \in Entries}}
           F == (UNION NetLists) \cup {x[2] : x \in NetPieces}
<1>1. domains \subseteq E /\ ips \subseteq F /\ Domains(file) \subseteq E /\ Nets(file) \subseteq F
  BY DEF SettingsTypeOK, DomainTexts, NetTexts, Entries, DomainLists, NetLists
<1>2. ASSUME NEW x \in DomainPieces, x[1] \in E PROVE x[2] \in E
  <2>1. CASE x[1] \in Entries
    BY <2>1
  <2>2. ASSUME NEW w \in DomainPieces, w[1] \in Entries, x[1] = w[2] PROVE x[2] \in E
    <3>1. <<w[1], x[2]>> \in DomainPieces
      BY <2>2, SettingsAssumption
    <3> QED
      BY <2>2, <3>1
  <2> QED
    BY <1>2, <2>1, <2>2
<1>3. ASSUME NEW x \in NetPieces PROVE x[2] \in F
  <2>1. x[2] \in {y[2] : y \in NetPieces}
    BY Zenon
  <2> QED
    BY <2>1
<1>4. ASSUME NEW text \in Written(c, domains, Domains(file), DomainPieces)
      PROVE  text \subseteq E
  <2> HIDE DEF E
  <2> QED
    BY <1>1, <1>2, <1>4, OverwrittenHolds DEF Written
<1>5. ASSUME NEW text \in Written(c, ips, Nets(file), NetPieces)
      PROVE  text \subseteq F
  <2> HIDE DEF F
  <2> QED
    BY <1>1, <1>3, <1>5, OverwrittenHolds DEF Written
<1> QED
  BY <1>4, <1>5 DEF DomainTexts, NetTexts

LEMMA NoneCommand == None \in Commands /\ None.op = "none"
  BY NothingListed DEF None, NoSeen, Commands, Seens, Tolds, RuAddresses

LEMMA OneCommand ==
  ASSUME SettingsTypeOK, NEW c \in Clients, NEW k, cmd' = [cmd EXCEPT ![c] = k]
  PROVE  /\ cmd'[c] = k /\ \A d \in Clients \ {c} : cmd'[d] = cmd[d]
         /\ k \in Commands => cmd' \in [Clients -> Commands]
  BY DEF SettingsTypeOK

\* While a command changes the lists, or the resolver, nothing holds of them.
LEMMA Doubted ==
  ASSUME SettingsInv, NEW c \in Clients
  PROVE  /\ cmd[c].op \in Listing => asked.lists = Unknown /\ \A d \in Clients :
              cmd[d].op = "up" => cmd[d].told.lists = Unknown
         /\ cmd[c].op = "ru-dns" => asked.ru = Unknown /\ \A d \in Clients :
              cmd[d].op = "up" => cmd[d].told.ru = Unknown
  BY DEF SettingsInv, Hold

\* A step of an up, or the end of any command, changes no setting.
LEMMA UpStep ==
  ASSUME SettingsInv, NEW c \in Clients, NEW k \in Commands, cmd' = [cmd EXCEPT ![c] = k],
         UNCHANGED <<settings, asked>>,
         \/ k.op = "none"
         \/ k.op = "up" /\ Hold(k.told) /\ Agrees(k.seen, k.told, k.at),
         Sound(k.config),
         running' # Nothing => running' = running \/ (running' \in Configs /\ Sound(running'))
  PROVE  SettingsInv'
<1> USE DEF settings
<1>1. cmd'[c] = k /\ (\A d \in Clients \ {c} : cmd'[d] = cmd[d])
      /\ cmd' \in [Clients -> Commands]
  BY OneCommand DEF SettingsInv
<1>2. SettingsTypeOK'
  BY <1>1 DEF SettingsInv, SettingsTypeOK
<1>3. AloneInv'
  <2> SUFFICES ASSUME NEW d \in Clients, cmd'[d].alone, d # c
               PROVE  Alone(d)'
    BY <1>1 DEF AloneInv, Alone, Listing
  <2>1. cmd'[d] = cmd[d] /\ Alone(d)
    BY <1>1 DEF SettingsInv, AloneInv
  <2> QED
    BY <1>1, <2>1 DEF Alone, Listing
<1>4. \A d \in Clients : cmd'[d].op \in Listing \cup {"ru-dns"} => cmd[d].op = cmd'[d].op
  BY <1>1 DEF Listing
<1>5. RuDns' = RuDns
  BY DEF RuDns
<1>6. ASSUME NEW t, Hold(t)
      PROVE  /\ t.lists # Unknown =>
                  /\ domains' = Domains(t.lists) /\ ips' = Nets(t.lists)
                  /\ \A d \in Clients : cmd'[d].op \notin Listing
             /\ t.ru # Unknown => RuDns' = t.ru /\ \A d \in Clients : cmd'[d].op # "ru-dns"
  BY <1>4, <1>5, <1>6 DEF Hold
<1>7. Hold(asked)'
  BY <1>6 DEF SettingsInv, Hold
<1>8. ASSUME NEW d \in Clients, cmd'[d].op = "up"
      PROVE  Hold(cmd[d].told)' /\ Agrees(cmd'[d].seen, cmd'[d].told, cmd'[d].at)
  <2>1. Hold(cmd'[d].told) /\ Agrees(cmd'[d].seen, cmd'[d].told, cmd'[d].at)
    BY <1>1, <1>8 DEF SettingsInv
  <2> QED
    BY <1>6, <2>1 DEF Hold
<1>9. Sound(running') /\ \A d \in Clients : Sound(cmd'[d].config)
  BY <1>1 DEF SettingsInv, Sound
<1> QED
  BY <1>2, <1>3, <1>7, <1>8, <1>9 DEF SettingsInv, Sound, Agrees

LEMMA UpKeeps ==
  ASSUME SettingsInv, NEW c \in Clients,
         \/ \E bypass \in BOOLEAN : Up(c, bypass)
         \/ GeoFound(c) \/ GeoFailed(c) \/ ReadSettings(c) \/ XrayStarts(c) \/ XrayFails(c)
         \/ Kill(c)
  PROVE  SettingsInv'
<1>0. SettingsTypeOK /\ cmd[c] \in Commands
  BY DEF SettingsInv, SettingsTypeOK
<1>1. ASSUME cmd' = [cmd EXCEPT ![c] = None], UNCHANGED <<settings, asked>>,
             running' # Nothing => running' = running \/ (running' \in Configs /\ Sound(running'))
      PROVE  SettingsInv'
  <2>1. Sound(None.config)
    BY DEF None, Sound
  <2> QED
    BY <1>1, <2>1, NoneCommand, UpStep
<1>2. CASE GeoFailed(c) \/ XrayFails(c) \/ Kill(c)
  BY <1>1, <1>2 DEF GeoFailed, XrayFails, Kill, Done
<1>3. CASE XrayStarts(c)
  <2>1. running' = cmd[c].config
    BY <1>3 DEF XrayStarts
  <2>2. running' # Nothing => running' \in Configs
    BY <1>0, <2>1 DEF Commands
  <2>3. Sound(running')
    BY <2>1 DEF SettingsInv
  <2> QED
    BY <1>1, <1>3, <2>2, <2>3 DEF XrayStarts, Done
<1>4. ASSUME NEW bypass \in BOOLEAN, Up(c, bypass) PROVE SettingsInv'
  <2> DEFINE k == [None EXCEPT !.op = "up", !.bypass = bypass,
                               !.at = IF bypass THEN "geo" ELSE "dump"]
  <2>1. k \in Commands /\ k.op = "up" /\ k.told = None.told /\ Sound(k.config)
    BY NoneCommand DEF None, Commands, Sound
  <2>2. None.told.lists = Unknown /\ None.told.ru = Unknown
    BY DEF None
  <2>3. Hold(k.told) /\ Agrees(k.seen, k.told, k.at)
    BY <2>1, <2>2 DEF Hold, Agrees
  <2>4. cmd' = [cmd EXCEPT ![c] = k] /\ UNCHANGED <<settings, asked, running>>
    BY <1>4 DEF Up
  <2> HIDE DEF k
  <2> QED
    BY <2>1, <2>3, <2>4, UpStep
<1>5. CASE GeoFound(c)
  <2>0. PICK all \in {HasAll, AllWhole} :
          cmd' = [cmd EXCEPT ![c].at = "dnsDomains", ![c].told = asked,
                             ![c].dir = IF all \/ ~system THEN "assets" ELSE "system"]
    BY <1>5 DEF GeoFound
  <2> DEFINE k == [cmd[c] EXCEPT !.at = "dnsDomains", !.told = asked,
                                 !.dir = IF all \/ ~system THEN "assets" ELSE "system"]
  <2>1. asked \in Tolds /\ cmd[c].op = "up"
    BY <1>0, <1>5 DEF SettingsTypeOK, GeoFound, At
  <2>2. k \in Commands /\ k.op = "up" /\ k.told = asked /\ k.at = "dnsDomains"
        /\ k.config = cmd[c].config
    BY <1>0, <2>1 DEF Commands
  <2>3. Hold(k.told) /\ Agrees(k.seen, k.told, k.at)
    BY <2>2 DEF SettingsInv, Agrees
  <2>4. cmd' = [cmd EXCEPT ![c] = k] /\ UNCHANGED <<settings, asked, running>>
    BY <1>0, <1>5, <2>0 DEF GeoFound, SettingsTypeOK
  <2>5. Sound(k.config)
    BY <2>2 DEF SettingsInv
  <2> HIDE DEF k
  <2> QED
    BY <2>2, <2>3, <2>4, <2>5, UpStep
<1>6. CASE ReadSettings(c)
  <2>1. ASSUME NEW k \in Commands, k.op = "up", k.told = cmd[c].told, cmd[c].op = "up",
               k.config = cmd[c].config,
               cmd' = [cmd EXCEPT ![c] = k], UNCHANGED <<settings, running, asked>>,
               Agrees(k.seen, k.told, k.at)
        PROVE  SettingsInv'
    BY <2>1, UpStep DEF SettingsInv
  <2>2. RuDns \in RuAddresses
    BY <1>0 DEF RuDns, SettingsTypeOK, RuAddresses
  <2>3. cmd[c].op = "up" => Hold(cmd[c].told) /\ Agrees(cmd[c].seen, cmd[c].told, cmd[c].at)
    BY DEF SettingsInv
  <2>4. CASE Read(c, "dnsDomains", domains, "dnsRu")
    <3> DEFINE k == [cmd[c] EXCEPT !.at = "dnsRu", !.seen.dnsDomains = domains]
    <3>1. cmd' = [cmd EXCEPT ![c] = k] /\ UNCHANGED <<settings, running, asked>>
          /\ cmd[c].op = "up" /\ cmd[c].at = "dnsDomains"
      BY <1>0, <2>4 DEF Read, At, SettingsTypeOK, Commands, Seens
    <3>2. k \in Commands /\ k.op = "up" /\ k.told = cmd[c].told /\ k.at = "dnsRu"
          /\ k.config = cmd[c].config /\ k.seen = [cmd[c].seen EXCEPT !.dnsDomains = domains]
      BY <1>0, <3>1 DEF SettingsTypeOK, Commands, Seens
    <3>3. Agrees(k.seen, k.told, k.at)
      BY <1>0, <2>3, <3>1, <3>2 DEF Agrees, Hold, Commands, Seens
    <3> HIDE DEF k
    <3> QED
      BY <2>1, <3>1, <3>2, <3>3
  <2>5. CASE Read(c, "dnsRu", RuDns, "ru")
    <3> DEFINE k == [cmd[c] EXCEPT !.at = "ru", !.seen.dnsRu = RuDns]
    <3>1. cmd' = [cmd EXCEPT ![c] = k] /\ UNCHANGED <<settings, running, asked>>
          /\ cmd[c].op = "up" /\ cmd[c].at = "dnsRu"
      BY <1>0, <2>5 DEF Read, At, SettingsTypeOK, Commands, Seens
    <3>2. k \in Commands /\ k.op = "up" /\ k.told = cmd[c].told /\ k.at = "ru"
          /\ k.config = cmd[c].config /\ k.seen = [cmd[c].seen EXCEPT !.dnsRu = RuDns]
      BY <1>0, <2>2, <3>1 DEF SettingsTypeOK, Commands, Seens
    <3>3. Agrees(k.seen, k.told, k.at)
      BY <1>0, <2>3, <3>1, <3>2 DEF Agrees, Hold, Commands, Seens
    <3> HIDE DEF k
    <3> QED
      BY <2>1, <3>1, <3>2, <3>3
  <2>6. CASE Read(c, "ru", RuDns, "domains")
    <3> DEFINE k == [cmd[c] EXCEPT !.at = "domains", !.seen.ru = RuDns]
    <3>1. cmd' = [cmd EXCEPT ![c] = k] /\ UNCHANGED <<settings, running, asked>>
          /\ cmd[c].op = "up" /\ cmd[c].at = "ru"
      BY <1>0, <2>6 DEF Read, At, SettingsTypeOK, Commands, Seens
    <3>2. k \in Commands /\ k.op = "up" /\ k.told = cmd[c].told /\ k.at = "domains"
          /\ k.config = cmd[c].config /\ k.seen = [cmd[c].seen EXCEPT !.ru = RuDns]
      BY <1>0, <2>2, <3>1 DEF SettingsTypeOK, Commands, Seens
    <3>3. Agrees(k.seen, k.told, k.at)
      BY <1>0, <2>3, <3>1, <3>2 DEF Agrees, Hold, Commands, Seens
    <3> HIDE DEF k
    <3> QED
      BY <2>1, <3>1, <3>2, <3>3
  <2>7. CASE Read(c, "domains", domains, "ips")
    <3> DEFINE k == [cmd[c] EXCEPT !.at = "ips", !.seen.domains = domains]
    <3>1. cmd' = [cmd EXCEPT ![c] = k] /\ UNCHANGED <<settings, running, asked>>
          /\ cmd[c].op = "up" /\ cmd[c].at = "domains"
      BY <1>0, <2>7 DEF Read, At, SettingsTypeOK, Commands, Seens
    <3>2. k \in Commands /\ k.op = "up" /\ k.told = cmd[c].told /\ k.at = "ips"
          /\ k.config = cmd[c].config /\ k.seen = [cmd[c].seen EXCEPT !.domains = domains]
      BY <1>0, <3>1 DEF SettingsTypeOK, Commands, Seens
    <3>3. Agrees(k.seen, k.told, k.at)
      BY <1>0, <2>3, <3>1, <3>2 DEF Agrees, Hold, Commands, Seens
    <3> HIDE DEF k
    <3> QED
      BY <2>1, <3>1, <3>2, <3>3
  <2>8. CASE Read(c, "ips", ips, "dump")
    <3> DEFINE k == [cmd[c] EXCEPT !.at = "dump", !.seen.ips = ips]
    <3>1. cmd' = [cmd EXCEPT ![c] = k] /\ UNCHANGED <<settings, running, asked>>
          /\ cmd[c].op = "up" /\ cmd[c].at = "ips"
      BY <1>0, <2>8 DEF Read, At, SettingsTypeOK, Commands, Seens
    <3>2. k \in Commands /\ k.op = "up" /\ k.told = cmd[c].told /\ k.at = "dump"
          /\ k.config = cmd[c].config /\ k.seen = [cmd[c].seen EXCEPT !.ips = ips]
      BY <1>0, <3>1 DEF SettingsTypeOK, Commands, Seens
    <3>3. Agrees(k.seen, k.told, k.at)
      BY <1>0, <2>3, <3>1, <3>2 DEF Agrees, Hold, Commands, Seens
    <3> HIDE DEF k
    <3> QED
      BY <2>1, <3>1, <3>2, <3>3
  <2> QED
    BY <1>6, <2>4, <2>5, <2>6, <2>7, <2>8 DEF ReadSettings
<1> QED
  BY <1>2, <1>3, <1>4, <1>5, <1>6

\* An import writes the next of its files.
LEMMA ImportKeeps ==
  ASSUME SettingsInv, NEW c \in Clients, WriteDomains(c) \/ OpenIps(c)
  PROVE  SettingsInv'
<1> DEFINE l == IF cmd[c].at = "second" THEN "third" ELSE "fourth"
           k == [cmd[c] EXCEPT !.at = l, !.fd = IF cmd[c].at = "second" THEN @ ELSE "file"]
<1>0. SettingsTypeOK /\ cmd[c] \in Commands /\ cmd[c].op = "import" /\ cmd[c].arg \in ImportFiles
  BY DEF SettingsInv, SettingsTypeOK, WriteDomains, OpenIps, At
<1>1. /\ k \in Commands /\ k.op = "import" /\ k.arg = cmd[c].arg /\ k.alone = cmd[c].alone
      /\ k.at = l /\ k.config = cmd[c].config
      /\ k.fd = IF cmd[c].at = "second" THEN cmd[c].fd ELSE "file"
  BY <1>0 DEF Commands
<1>2. cmd' = [cmd EXCEPT ![c] = k] /\ UNCHANGED <<ruFile, asked, running>>
  <2>1. CASE WriteDomains(c)
    <3>1. k = [cmd[c] EXCEPT !.at = "third"]
      BY <1>0, <2>1 DEF WriteDomains, At, Commands
    <3> QED
      BY <1>0, <2>1, <3>1 DEF WriteDomains, Goto, SettingsTypeOK
  <2>2. CASE OpenIps(c)
    <3>1. k = [cmd[c] EXCEPT !.at = "fourth", !.fd = "file"]
      BY <1>0, <2>2 DEF OpenIps, At, Commands
    <3> QED
      BY <1>0, <2>2, <3>1 DEF OpenIps, SettingsTypeOK
  <2> QED
    BY <2>1, <2>2
<1>3. cmd'[c] = k /\ (\A d \in Clients \ {c} : cmd'[d] = cmd[d])
      /\ cmd' \in [Clients -> Commands]
  BY <1>1, <1>2, OneCommand DEF SettingsInv
<1>4. /\ cmd[c].at = "second" =>
           domains' \in Written(c, domains, Domains(cmd[c].arg), DomainPieces) /\ ips' = ips
      /\ cmd[c].at # "second" => domains' = domains /\ cmd[c].at = "third" /\ ips' = {}
  BY DEF WriteDomains, OpenIps, At
<1> HIDE DEF k
<1>5. SettingsTypeOK'
  <2>1. domains' \in DomainTexts /\ ips' \in NetTexts
    <3>1. cmd[c].arg \in ListFiles
      BY <1>0 DEF ListFiles
    <3> QED
      BY <1>0, <1>4, <3>1, WrittenIsText, NothingListed DEF SettingsTypeOK
  <2> QED
    BY <1>0, <1>1, <1>2, <1>3, <2>1 DEF SettingsTypeOK
<1>6. \A d \in Clients \ {c} : cmd[d].alone => cmd[d].op \notin Listing
  BY <1>0 DEF SettingsInv, AloneInv, Alone, Listing
<1>12. ASSUME cmd[c].alone
       PROVE  /\ domains' = Domains(cmd[c].arg) /\ k.fd = "file"
              /\ l = "fourth" => ips' = {}
  <2>1. /\ cmd[c].fd = "file"
        /\ domains = IF cmd[c].at = "second" THEN {} ELSE Domains(cmd[c].arg)
    BY <1>0, <1>12 DEF SettingsInv, AloneInv, Alone
  <2> QED
    BY <1>1, <1>4, <2>1, WrittenAlone
<1>7. AloneInv'
  <2> SUFFICES ASSUME NEW d \in Clients, cmd'[d].alone
               PROVE  Alone(d)'
    BY DEF AloneInv
  <2>1. CASE d = c
    BY <1>0, <1>1, <1>3, <1>12, <2>1 DEF SettingsInv, AloneInv, Alone, Listing
  <2>2. CASE d # c
    <3>1. cmd'[d] = cmd[d] /\ cmd[d].op \notin Listing /\ Alone(d)
      BY <1>3, <1>6, <2>2 DEF SettingsInv, AloneInv
    <3> QED
      BY <1>0, <1>1, <1>2, <1>3, <3>1 DEF Alone, Listing
  <2> QED
    BY <2>1, <2>2
<1>8. asked.lists = Unknown /\ \A d \in Clients : cmd[d].op = "up" => cmd[d].told.lists = Unknown
  BY <1>0, Doubted DEF Listing
<1>9. ASSUME NEW t, Hold(t), t.lists = Unknown
      PROVE  t.ru # Unknown => RuDns' = t.ru /\ \A d \in Clients : cmd'[d].op # "ru-dns"
  BY <1>1, <1>2, <1>3, <1>9 DEF Hold, RuDns
<1>10. Hold(asked)'
  BY <1>2, <1>8, <1>9 DEF SettingsInv, Hold
<1>11. ASSUME NEW d \in Clients, cmd'[d].op = "up"
       PROVE  Hold(cmd[d].told)' /\ Agrees(cmd'[d].seen, cmd'[d].told, cmd'[d].at)
  <2>1. cmd'[d] = cmd[d] /\ cmd[d].told.lists = Unknown /\ Hold(cmd[d].told)
        /\ Agrees(cmd[d].seen, cmd[d].told, cmd[d].at)
    BY <1>1, <1>3, <1>8, <1>11 DEF SettingsInv
  <2> QED
    BY <1>9, <2>1 DEF Hold
<1>13. Sound(running') /\ \A d \in Clients : Sound(cmd'[d].config)
  BY <1>1, <1>2, <1>3 DEF SettingsInv
<1> QED
  BY <1>5, <1>7, <1>10, <1>11, <1>13 DEF SettingsInv, Agrees, Sound

\* A command whose descriptor leads nowhere any more.
LEMMA DetachedKeeps ==
  ASSUME SettingsTypeOK, NEW d \in Clients, NEW op, NEW at
  PROVE  LET k == Detached(cmd[d], op, at) IN
         /\ k \in Commands /\ k.op = cmd[d].op /\ k.at = cmd[d].at /\ k.arg = cmd[d].arg
         /\ k.alone = cmd[d].alone /\ k.seen = cmd[d].seen /\ k.told = cmd[d].told
         /\ k.config = cmd[d].config
         /\ k.fd = cmd[d].fd \/ k.op = op
<1>1. cmd[d] \in Commands
  BY DEF SettingsTypeOK
<1> QED
  BY <1>1 DEF Detached, Commands

\* The last write of an import, a clear or a ru-dns.
LEMMA LastWriteKeeps ==
  ASSUME SettingsInv, NEW c \in Clients, WriteIps(c) \/ ClearIps(c) \/ WriteRuDns(c)
  PROVE  SettingsInv'
<1>0. SettingsTypeOK /\ cmd[c] \in Commands /\ asked \in Tolds
  BY DEF SettingsInv, SettingsTypeOK
<1>1. UNCHANGED running
  BY DEF WriteIps, ClearIps, WriteRuDns, Finish
<1>2. /\ cmd'[c] = None /\ cmd' \in [Clients -> Commands]
      /\ \A d \in Clients \ {c} :
           /\ cmd'[d].op = cmd[d].op /\ cmd'[d].at = cmd[d].at /\ cmd'[d].arg = cmd[d].arg
           /\ cmd'[d].alone = cmd[d].alone /\ cmd'[d].seen = cmd[d].seen
           /\ cmd'[d].told = cmd[d].told /\ cmd'[d].config = cmd[d].config
           /\ cmd'[d].fd = cmd[d].fd \/ (cmd[c].op = "clear" /\ cmd[d].op = "import")
  <2>1. CASE WriteIps(c) \/ WriteRuDns(c)
    <3>1. cmd' = [cmd EXCEPT ![c] = None]
      BY <2>1 DEF WriteIps, WriteRuDns, Done
    <3> QED
      BY <3>1, OneCommand, NoneCommand DEF SettingsInv
  <2>2. CASE ClearIps(c)
    <3>1. cmd' = [d \in Clients |-> IF d = c THEN None ELSE Detached(cmd[d], "import", "fourth")]
          /\ cmd[c].op = "clear"
      BY <2>2 DEF ClearIps, At
    <3> QED
      BY <1>0, <3>1, NoneCommand, DetachedKeeps
  <2> QED
    BY <2>1, <2>2
<1>3. None.op = "none"
  BY NoneCommand
<1>9. Sound(running') /\ \A d \in Clients : Sound(cmd'[d].config)
  <2>1. None.config = Nothing
    BY DEF None
  <2>2. \A d \in Clients : cmd'[d].config = Nothing \/ cmd'[d].config = cmd[d].config
    BY <1>2, <2>1
  <2> QED
    BY <1>1, <2>2 DEF SettingsInv, Sound
<1>4. CASE WriteIps(c) \/ ClearIps(c)
  <2>1. /\ cmd[c].op \in Listing /\ UNCHANGED <<ruFile, domains>> /\ cmd[c].arg \in ListFiles
        /\ asked' = [asked EXCEPT !.lists = IF cmd[c].alone THEN cmd[c].arg ELSE Unknown]
        /\ ips' \in NetTexts
        /\ cmd[c].alone => domains = Domains(cmd[c].arg) /\ ips' = Nets(cmd[c].arg)
    <3>1. CASE WriteIps(c)
      <4>1. /\ cmd[c].op = "import" /\ cmd[c].at = "fourth" /\ cmd[c].arg \in ListFiles
            /\ ips' \in Written(c, ips, Nets(cmd[c].arg), NetPieces)
            /\ asked' = [asked EXCEPT !.lists = IF cmd[c].alone THEN cmd[c].arg ELSE Unknown]
            /\ UNCHANGED <<ruFile, domains>>
        BY <1>0, <3>1 DEF WriteIps, At, Finish, SettingsTypeOK, ListFiles
      <4>2. cmd[c].alone => cmd[c].fd = "file" /\ ips = {} /\ domains = Domains(cmd[c].arg)
        BY <4>1 DEF SettingsInv, AloneInv, Alone
      <4>3. cmd[c].alone => ips' = Nets(cmd[c].arg)
        BY <4>1, <4>2, WrittenAlone
      <4> QED
        BY <1>0, <4>1, <4>2, <4>3, WrittenIsText DEF Listing
    <3>2. CASE ClearIps(c)
      <4>1. cmd[c].op = "clear" /\ cmd[c].arg = {} /\ ips' = {} /\ UNCHANGED <<ruFile, domains>>
            /\ asked' = [asked EXCEPT !.lists = IF cmd[c].alone THEN {} ELSE Unknown]
        BY <1>0, <3>2 DEF ClearIps, At, Finish, SettingsTypeOK
      <4>2. cmd[c].alone => domains = {}
        BY <4>1 DEF SettingsInv, AloneInv, Alone
      <4> QED
        BY <4>1, <4>2, NothingListed DEF Listing, ListFiles
    <3> QED
      BY <1>4, <3>1, <3>2
  <2>2. /\ asked'.lists = IF cmd[c].alone THEN cmd[c].arg ELSE Unknown
        /\ asked'.ru = asked.ru /\ asked' \in Tolds
    BY <1>0, <2>1 DEF Tolds
  <2>3. SettingsTypeOK'
    BY <1>0, <1>1, <1>2, <1>3, <2>1, <2>2 DEF SettingsTypeOK
  <2>4. ASSUME NEW d \in Clients \ {c}
        PROVE  /\ cmd[d].alone => cmd[d].op \notin Listing
               /\ cmd[c].alone => cmd[d].op \notin Listing
    BY <2>1 DEF SettingsInv, AloneInv, Alone
  <2>5. AloneInv'
    <3> SUFFICES ASSUME NEW d \in Clients, cmd'[d].alone
                 PROVE  Alone(d)'
      BY DEF AloneInv
    <3>1. CASE d = c
      BY <1>2, <1>3, <3>1 DEF Alone, Listing
    <3>2. CASE d # c
      <4>1. cmd[d].op \notin Listing /\ Alone(d)
        BY <1>2, <2>4, <3>2 DEF SettingsInv, AloneInv
      <4> QED
        BY <1>2, <1>3, <2>1, <3>2, <4>1 DEF Alone, Listing
    <3> QED
      BY <3>1, <3>2
  <2>6. ASSUME NEW t, Hold(t)
        PROVE  t.ru # Unknown => RuDns' = t.ru /\ \A d \in Clients : cmd'[d].op # "ru-dns"
    BY <1>2, <1>3, <2>1, <2>6 DEF Hold, RuDns
  <2>7. Hold(asked)'
    <3>1. asked'.ru # Unknown => RuDns' = asked'.ru /\ \A d \in Clients : cmd'[d].op # "ru-dns"
      BY <2>2, <2>6 DEF SettingsInv
    <3>2. asked'.lists # Unknown =>
            /\ domains' = Domains(asked'.lists) /\ ips' = Nets(asked'.lists)
            /\ \A d \in Clients : cmd'[d].op \notin Listing
      BY <1>2, <1>3, <2>1, <2>2, <2>4 DEF Listing
    <3> QED
      BY <3>1, <3>2 DEF Hold
  <2>8. ASSUME NEW d \in Clients, cmd'[d].op = "up"
        PROVE  Hold(cmd[d].told)' /\ Agrees(cmd'[d].seen, cmd'[d].told, cmd'[d].at)
    <3>1. d # c /\ cmd[d].op = "up"
      BY <1>2, <1>3, <2>8
    <3>2. cmd[d].told.lists = Unknown /\ Hold(cmd[d].told)
          /\ Agrees(cmd[d].seen, cmd[d].told, cmd[d].at)
      BY <2>1, <3>1, Doubted DEF SettingsInv
    <3> QED
      BY <1>2, <2>6, <3>1, <3>2 DEF Hold
  <2> QED
    BY <1>9, <2>3, <2>5, <2>7, <2>8 DEF SettingsInv, Agrees, Sound
<1>5. CASE WriteRuDns(c)
  <2>1. /\ cmd[c].op = "ru-dns" /\ UNCHANGED <<domains, ips>> /\ cmd[c].arg \in Resolvers
        /\ asked' = [asked EXCEPT !.ru = IF cmd[c].alone THEN cmd[c].arg ELSE Unknown]
        /\ ruFile' \in Resolvers \cup {Absent, Torn}
        /\ cmd[c].alone => ruFile' = cmd[c].arg
    <3>1. /\ cmd[c].op = "ru-dns" /\ UNCHANGED <<domains, ips>> /\ cmd[c].arg \in Resolvers
          /\ asked' = [asked EXCEPT !.ru = IF cmd[c].alone THEN cmd[c].arg ELSE Unknown]
      BY <1>0, <1>5 DEF WriteRuDns, At, Finish, SettingsTypeOK
    <3>2. cmd[c].alone => cmd[c].fd = "file" /\ ruFile = Torn
      BY <3>1 DEF SettingsInv, AloneInv, Alone
    <3> QED
      BY <1>0, <1>5, <3>1, <3>2 DEF WriteRuDns, SettingsTypeOK
  <2>2. /\ asked'.ru = IF cmd[c].alone THEN cmd[c].arg ELSE Unknown
        /\ asked'.lists = asked.lists /\ asked' \in Tolds
    BY <1>0, <2>1 DEF Tolds, RuAddresses
  <2>3. SettingsTypeOK'
    BY <1>0, <1>1, <1>2, <1>3, <2>1, <2>2 DEF SettingsTypeOK
  <2>4. ASSUME NEW d \in Clients \ {c}
        PROVE  /\ cmd[d].alone => cmd[d].op # "ru-dns"
               /\ cmd[c].alone => cmd[d].op # "ru-dns"
    BY <2>1 DEF SettingsInv, AloneInv, Alone
  <2>5. AloneInv'
    <3> SUFFICES ASSUME NEW d \in Clients, cmd'[d].alone
                 PROVE  Alone(d)'
      BY DEF AloneInv
    <3>1. CASE d = c
      BY <1>2, <1>3, <3>1 DEF Alone, Listing
    <3>2. CASE d # c
      <4>1. cmd[d].op # "ru-dns" /\ Alone(d)
        BY <1>2, <2>4, <3>2 DEF SettingsInv, AloneInv
      <4> QED
        BY <1>2, <1>3, <2>1, <3>2, <4>1 DEF Alone, Listing
    <3> QED
      BY <3>1, <3>2
  <2>6. ASSUME NEW t, Hold(t)
        PROVE  t.lists # Unknown =>
                 /\ domains' = Domains(t.lists) /\ ips' = Nets(t.lists)
                 /\ \A d \in Clients : cmd'[d].op \notin Listing
    BY <1>2, <1>3, <2>1, <2>6 DEF Hold, Listing
  <2>7. Hold(asked)'
    <3>1. asked'.ru # Unknown => RuDns' = asked'.ru /\ \A d \in Clients : cmd'[d].op # "ru-dns"
      BY <1>2, <1>3, <2>1, <2>2, <2>4, SettingsAssumption DEF RuDns
    <3>2. asked'.lists # Unknown =>
            /\ domains' = Domains(asked'.lists) /\ ips' = Nets(asked'.lists)
            /\ \A d \in Clients : cmd'[d].op \notin Listing
      BY <2>2, <2>6 DEF SettingsInv
    <3> QED
      BY <3>1, <3>2 DEF Hold
  <2>8. ASSUME NEW d \in Clients, cmd'[d].op = "up"
        PROVE  Hold(cmd[d].told)' /\ Agrees(cmd'[d].seen, cmd'[d].told, cmd'[d].at)
    <3>1. d # c /\ cmd[d].op = "up"
      BY <1>2, <1>3, <2>8
    <3>2. cmd[d].told.ru = Unknown /\ Hold(cmd[d].told)
          /\ Agrees(cmd[d].seen, cmd[d].told, cmd[d].at)
      BY <2>1, <3>1, Doubted DEF SettingsInv
    <3> QED
      BY <1>2, <2>6, <3>1, <3>2 DEF Hold
  <2> QED
    BY <1>9, <2>3, <2>5, <2>7, <2>8 DEF SettingsInv, Agrees, Sound
<1> QED
  BY <1>4, <1>5

\* An import or a clear begins: nobody can say what the lists are.
LEMMA ListsBegin ==
  ASSUME SettingsInv, NEW c \in Clients, NEW op \in Listing, NEW arg \in ListFiles,
         op = "import" => arg \in ImportFiles, op = "clear" => arg = {},
         Begin(c, op, "lists", arg), domains' = {}, UNCHANGED <<ips, ruFile>>
  PROVE  SettingsInv'
<1> DEFINE lone == \A d \in Clients : cmd[d].op \notin Listing
           k == [None EXCEPT !.op = op, !.at = "second", !.arg = arg, !.alone = lone]
           Left(d) == IF op = "clear" THEN Detached(cmd[d], "import", "second") ELSE cmd[d]
           Other(d) == IF cmd[d].op \in Listing THEN [Left(d) EXCEPT !.alone = FALSE]
                       ELSE [cmd[d] EXCEPT !.told.lists = Unknown]
<1>0. SettingsTypeOK /\ asked \in Tolds /\ \A d \in Clients : cmd[d] \in Commands
  BY DEF SettingsInv, SettingsTypeOK
<1>1. /\ k \in Commands /\ k.op = op /\ k.at = "second" /\ k.arg = arg /\ k.alone = lone
      /\ k.fd = "file" /\ k.config = Nothing
  BY NoneCommand DEF None, Commands, Listing
<1>2. ASSUME NEW d \in Clients
      PROVE  /\ Other(d) \in Commands /\ Other(d).op = cmd[d].op /\ Other(d).at = cmd[d].at
             /\ Other(d).arg = cmd[d].arg /\ Other(d).seen = cmd[d].seen
             /\ Other(d).config = cmd[d].config
             /\ cmd[d].op \in Listing => ~Other(d).alone
             /\ cmd[d].op \notin Listing =>
                  /\ Other(d).alone = cmd[d].alone /\ Other(d).fd = cmd[d].fd
                  /\ Other(d).told.lists = Unknown /\ Other(d).told.ru = cmd[d].told.ru
  <2>1. CASE cmd[d].op \in Listing
    <3>1. /\ Left(d) \in Commands /\ Left(d).op = cmd[d].op /\ Left(d).at = cmd[d].at
          /\ Left(d).arg = cmd[d].arg /\ Left(d).seen = cmd[d].seen
          /\ Left(d).config = cmd[d].config
      BY <1>0, DetachedKeeps
    <3> HIDE DEF Left
    <3> QED
      BY <2>1, <3>1 DEF Commands
  <2>2. CASE cmd[d].op \notin Listing
    <3>1. Other(d) = [cmd[d] EXCEPT !.told.lists = Unknown]
      BY <2>2
    <3> DEFINE t == [cmd[d].told EXCEPT !.lists = Unknown]
    <3>2. t \in Tolds /\ t.lists = Unknown /\ t.ru = cmd[d].told.ru
      BY <1>0 DEF Commands, Tolds
    <3>3. Other(d) = [cmd[d] EXCEPT !.told = t]
      BY <3>1
    <3> HIDE DEF Other, t
    <3> QED
      BY <1>0, <2>2, <3>2, <3>3 DEF Commands
  <2> QED
    BY <2>1, <2>2
<1>3. cmd' = [d \in Clients |-> IF d = c THEN k ELSE Other(d)]
      /\ asked' = [asked EXCEPT !.lists = Unknown] /\ UNCHANGED running
  BY <1>0 DEF Begin, Listing, SettingsTypeOK, Commands, Tolds
<1>4. asked' \in Tolds /\ asked'.lists = Unknown /\ asked'.ru = asked.ru
  BY <1>0, <1>3 DEF Tolds
<1> HIDE DEF k, Other
<1>5. cmd'[c] = k /\ (\A d \in Clients \ {c} : cmd'[d] = Other(d))
      /\ cmd' \in [Clients -> Commands]
  BY <1>1, <1>2, <1>3
<1>6. SettingsTypeOK'
  <2>1. domains' \in DomainTexts /\ running' = running /\ ips' = ips /\ ruFile' = ruFile
    BY <1>3, NothingListed
  <2>2. ASSUME NEW d \in Clients
        PROVE  /\ cmd'[d].op = "import" => cmd'[d].arg \in ImportFiles
               /\ cmd'[d].op = "clear" => cmd'[d].arg = {}
               /\ cmd'[d].op = "ru-dns" => cmd'[d].arg \in Resolvers
    BY <1>0, <1>1, <1>2, <1>5 DEF SettingsTypeOK, Listing
  <2> QED
    BY <1>0, <1>4, <1>5, <2>1, <2>2 DEF SettingsTypeOK
<1>7. AloneInv'
  <2> SUFFICES ASSUME NEW d \in Clients, cmd'[d].alone
               PROVE  Alone(d)'
    BY DEF AloneInv
  <2>1. CASE d = c
    BY ZenonT(30), <1>1, <1>2, <1>5, <2>1 DEF Listing, Alone
  <2>2. CASE d # c
    <3>1. cmd'[d] = Other(d) /\ cmd[d].op \notin Listing /\ Alone(d)
      BY <1>2, <1>5, <2>2 DEF SettingsInv, AloneInv
    <3> QED
      BY <1>1, <1>2, <1>5, <3>1 DEF Listing, Alone
  <2> QED
    BY <2>1, <2>2
<1>8. ASSUME NEW t, Hold(t)
      PROVE  t.ru # Unknown => RuDns' = t.ru /\ \A d \in Clients : cmd'[d].op # "ru-dns"
  BY <1>1, <1>2, <1>5, <1>8 DEF Hold, RuDns, Listing
<1>9. Hold(asked)'
  BY <1>4, <1>8 DEF SettingsInv, Hold
<1>10. ASSUME NEW d \in Clients, cmd'[d].op = "up"
       PROVE  Hold(cmd[d].told)' /\ Agrees(cmd'[d].seen, cmd'[d].told, cmd'[d].at)
  <2>1. d # c
    BY <1>1, <1>5, <1>10 DEF Listing
  <2>2. /\ cmd'[d].at = cmd[d].at /\ cmd'[d].seen = cmd[d].seen
        /\ cmd'[d].told.lists = Unknown /\ cmd'[d].told.ru = cmd[d].told.ru
    BY <1>2, <1>5, <1>10, <2>1 DEF Listing
  <2>3. Hold(cmd[d].told) /\ Agrees(cmd[d].seen, cmd[d].told, cmd[d].at)
    BY <1>2, <1>5, <1>10, <2>1 DEF SettingsInv
  <2> QED
    BY <1>8, <2>2, <2>3 DEF Hold, Agrees
<1>11. Sound(running') /\ \A d \in Clients : Sound(cmd'[d].config)
  BY <1>1, <1>2, <1>3, <1>5 DEF SettingsInv, Sound
<1> QED
  BY <1>6, <1>7, <1>9, <1>10, <1>11 DEF SettingsInv, Agrees, Sound

\* A ru-dns begins, or is done in one step: what others know of the resolver is void.
LEMMA ResolverChanges ==
  ASSUME SettingsInv, NEW c \in Clients, NEW addr,
         (SetRuDns(c, addr) /\ addr \in Resolvers) \/ ResetRuDns(c)
  PROVE  SettingsInv'
<1> DEFINE lone == \A d \in Clients : cmd[d].op # "ru-dns"
           k == [None EXCEPT !.op = "ru-dns", !.at = "second", !.arg = addr, !.alone = lone]
<1>0. SettingsTypeOK /\ asked \in Tolds /\ (\A d \in Clients : cmd[d] \in Commands)
      /\ cmd[c] = None
  BY DEF SettingsInv, SettingsTypeOK, SetRuDns, ResetRuDns, Begin
<1>1. addr \in Resolvers =>
        /\ k \in Commands /\ k.op = "ru-dns" /\ k.arg = addr /\ k.alone = lone
        /\ k.fd = "file" /\ k.config = Nothing
  BY NoneCommand DEF None, Commands
<1>2. /\ UNCHANGED <<domains, ips, running>> /\ ruFile' \in {Torn, Absent}
      /\ SetRuDns(c, addr) => ruFile' = Torn
      /\ asked' = [asked EXCEPT !.ru = IF lone /\ ruFile' = Absent /\ ResetRuDns(c)
                                       THEN DnsRu ELSE Unknown]
  BY DEF SetRuDns, ResetRuDns, Begin
<1>3. asked' \in Tolds /\ asked'.lists = asked.lists
      /\ (asked'.ru # Unknown => lone /\ asked'.ru = DnsRu /\ ruFile' = Absent /\ ResetRuDns(c))
  BY <1>0, <1>2 DEF Tolds, RuAddresses
<1> DEFINE Kept(d, m) ==
             /\ m \in Commands /\ m.op = cmd[d].op /\ m.at = cmd[d].at /\ m.arg = cmd[d].arg
             /\ m.seen = cmd[d].seen /\ m.config = cmd[d].config
             /\ cmd[d].op = "ru-dns" => ~m.alone
             /\ cmd[d].op # "ru-dns" =>
                  /\ m.alone = cmd[d].alone /\ m.fd = cmd[d].fd
                  /\ m.told.lists = cmd[d].told.lists /\ m.told.ru = Unknown
<1>4. /\ cmd' \in [Clients -> Commands]
      /\ \/ addr \in Resolvers /\ cmd'[c] = k /\ SetRuDns(c, addr)
         \/ ResetRuDns(c) /\ cmd'[c].op = "none" /\ cmd'[c].config = Nothing
      /\ \A d \in Clients \ {c} : Kept(d, cmd'[d])
  <2>1. CASE SetRuDns(c, addr) /\ addr \in Resolvers
    <3> DEFINE Other(d) == IF cmd[d].op = "ru-dns" THEN [cmd[d] EXCEPT !.alone = FALSE]
                           ELSE [cmd[d] EXCEPT !.told.ru = Unknown]
    <3>1. cmd' = [d \in Clients |-> IF d = c THEN k ELSE Other(d)]
      BY <1>0, <2>1 DEF SetRuDns, Begin
    <3>2. \A d \in Clients : Kept(d, Other(d))
      BY ZenonT(30), <1>0 DEF Commands, Tolds
    <3> HIDE DEF k, Other
    <3> QED
      BY <1>1, <2>1, <3>1, <3>2
  <2>2. CASE ResetRuDns(c)
    <3> DEFINE Left(d) == Detached(cmd[d], "ru-dns", "second")
               Other(d) == [Left(d) EXCEPT !.told.ru = Unknown,
                                           !.alone = @ /\ cmd[d].op # "ru-dns"]
    <3>1. cmd' = [d \in Clients |-> Other(d)]
      BY <2>2 DEF ResetRuDns
    <3>2. ASSUME NEW d \in Clients PROVE Kept(d, Other(d))
      <4>1. /\ Left(d) \in Commands /\ Left(d).op = cmd[d].op /\ Left(d).at = cmd[d].at
            /\ Left(d).arg = cmd[d].arg /\ Left(d).seen = cmd[d].seen
            /\ Left(d).config = cmd[d].config /\ Left(d).alone = cmd[d].alone
            /\ Left(d).told = cmd[d].told
            /\ cmd[d].op # "ru-dns" => Left(d).fd = cmd[d].fd
        BY <1>0, DetachedKeeps
      <4> DEFINE t == [Left(d).told EXCEPT !.ru = Unknown]
                 a == Left(d).alone /\ cmd[d].op # "ru-dns"
      <4>2. Other(d) = [Left(d) EXCEPT !.told = t, !.alone = a]
        OBVIOUS
      <4>3. t \in Tolds /\ t.ru = Unknown /\ t.lists = cmd[d].told.lists
        BY <1>0, <4>1 DEF Commands, Tolds
      <4>4. a \in BOOLEAN /\ (cmd[d].op = "ru-dns" => a = FALSE)
            /\ (cmd[d].op # "ru-dns" => a = cmd[d].alone)
        BY <1>0, <4>1 DEF Commands
      <4> HIDE DEF Left, Other, t, a
      <4> QED
        BY <4>1, <4>2, <4>3, <4>4 DEF Commands
    <3>3. cmd[c].op = "none" /\ cmd[c].config = Nothing
      BY <1>0 DEF None
    <3> HIDE DEF Other
    <3> QED
      BY <2>2, <3>1, <3>2, <3>3
  <2> QED
    BY <2>1, <2>2
<1> HIDE DEF k
<1>5. SettingsTypeOK'
  <2>1. ruFile' \in Resolvers \cup {Absent, Torn}
    BY <1>2
  <2>2. /\ cmd'[c].op \notin Listing
        /\ cmd'[c].op = "ru-dns" => cmd'[c].arg \in Resolvers
    BY <1>1, <1>4 DEF Listing
  <2>3. ASSUME NEW d \in Clients
        PROVE  /\ cmd'[d].op = "import" => cmd'[d].arg \in ImportFiles
               /\ cmd'[d].op = "clear" => cmd'[d].arg = {}
               /\ cmd'[d].op = "ru-dns" => cmd'[d].arg \in Resolvers
    <3>1. CASE d = c
      BY <2>2, <3>1 DEF Listing
    <3>2. CASE d # c
      BY <1>0, <1>4, <3>2 DEF SettingsTypeOK
    <3> QED
      BY <3>1, <3>2
  <2>4. /\ domains' \in DomainTexts /\ ips' \in NetTexts
        /\ running' # Nothing => running' \in Configs
    BY <1>0, <1>2 DEF SettingsTypeOK
  <2>5. asked' \in Tolds /\ cmd' \in [Clients -> Commands]
    BY <1>3, <1>4
  <2> QED
    BY <2>1, <2>3, <2>4, <2>5 DEF SettingsTypeOK
<1>6. \A d \in Clients : cmd'[d].op \in Listing => d # c /\ cmd[d].op \in Listing
  BY <1>1, <1>4 DEF Listing
<1>7. AloneInv'
  <2> SUFFICES ASSUME NEW d \in Clients, cmd'[d].alone
               PROVE  Alone(d)'
    BY DEF AloneInv
  <2>1. CASE d = c
    <3>1. CASE addr \in Resolvers /\ cmd'[c] = k /\ SetRuDns(c, addr)
      <4>1. cmd'[c].op = "ru-dns" /\ lone /\ cmd'[c].fd = "file" /\ ruFile' = Torn
        BY <1>1, <1>2, <2>1, <3>1
      <4> QED
        BY <1>4, <2>1, <4>1 DEF Listing, Alone
    <3>2. CASE cmd'[c].op = "none"
      BY <2>1, <3>2 DEF Listing, Alone
    <3> QED
      BY <1>4, <3>1, <3>2
  <2>2. CASE d # c
    <3>1. cmd'[d].op # "ru-dns" /\ cmd'[d].op = cmd[d].op /\ cmd'[d].at = cmd[d].at
          /\ cmd'[d].arg = cmd[d].arg /\ cmd'[d].fd = cmd[d].fd /\ cmd[d].alone
      BY <1>4, <2>2
    <3>2. Alone(d)
      BY <3>1 DEF SettingsInv, AloneInv
    <3> QED
      BY <1>2, <1>6, <3>1, <3>2 DEF Alone, Listing
  <2> QED
    BY <2>1, <2>2
<1>8. ASSUME NEW t, Hold(t)
      PROVE  t.lists # Unknown =>
               /\ domains' = Domains(t.lists) /\ ips' = Nets(t.lists)
               /\ \A d \in Clients : cmd'[d].op \notin Listing
  BY <1>2, <1>6, <1>8 DEF Hold
<1>9. Hold(asked)'
  <2>1. asked'.ru # Unknown => RuDns' = asked'.ru /\ \A d \in Clients : cmd'[d].op # "ru-dns"
    <3>1. ASSUME asked'.ru # Unknown PROVE cmd'[c].op # "ru-dns"
      <4>1. ResetRuDns(c)
        BY <1>3, <3>1
      <4>2. cmd'[c].op = cmd[c].op
        <5>1. cmd'[c] = [Detached(cmd[c], "ru-dns", "second")
                           EXCEPT !.told.ru = Unknown, !.alone = @ /\ cmd[c].op # "ru-dns"]
          BY <4>1 DEF ResetRuDns
        <5>2. Detached(cmd[c], "ru-dns", "second") = cmd[c]
          BY <1>0 DEF Detached, None
        <5> QED
          BY <1>0, <5>1, <5>2 DEF Commands
      <4> QED
        BY <1>0, <4>2, NoneCommand
    <3> QED
      BY <1>3, <1>4, <3>1 DEF RuDns
  <2> QED
    BY <1>3, <1>8, <2>1 DEF SettingsInv, Hold
<1>10. ASSUME NEW d \in Clients, cmd'[d].op = "up"
       PROVE  Hold(cmd[d].told)' /\ Agrees(cmd'[d].seen, cmd'[d].told, cmd'[d].at)
  <2>1. d # c
    BY <1>1, <1>4, <1>10
  <2>2. /\ cmd'[d].at = cmd[d].at /\ cmd'[d].seen = cmd[d].seen
        /\ cmd'[d].told.ru = Unknown /\ cmd'[d].told.lists = cmd[d].told.lists
    BY <1>4, <1>10, <2>1
  <2>3. Hold(cmd[d].told) /\ Agrees(cmd[d].seen, cmd[d].told, cmd[d].at)
    BY <1>4, <1>10, <2>1 DEF SettingsInv
  <2> QED
    BY <1>8, <2>2, <2>3 DEF Hold, Agrees
<1>11. Sound(running') /\ \A d \in Clients : Sound(cmd'[d].config)
  <2>1. cmd'[c].config = Nothing
    BY <1>1, <1>4
  <2> QED
    BY <1>2, <1>4, <2>1 DEF SettingsInv, Sound
<1> QED
  BY <1>5, <1>7, <1>9, <1>10, <1>11 DEF SettingsInv, Agrees, Sound

\* A configuration is written for all that are about to start xray.
LEMMA WriteConfigKeeps ==
  ASSUME SettingsInv, NEW c \in Clients, WriteConfig(c)
  PROVE  SettingsInv'
<1> DEFINE built == [bypass |-> cmd[c].bypass, seen |-> cmd[c].seen, told |-> cmd[c].told]
<1>0. /\ SettingsTypeOK /\ cmd[c].op = "up" /\ cmd[c].at = "dump"
      /\ \A d \in Clients : cmd[d] \in Commands
  BY DEF SettingsInv, SettingsTypeOK, WriteConfig, At
<1>1. built \in Configs /\ Sound(built)
  <2>1. built \in Configs
    BY <1>0 DEF Configs, Commands
  <2>2. Agrees(cmd[c].seen, cmd[c].told, "dump")
    BY <1>0 DEF SettingsInv
  <2> QED
    BY <2>1, <2>2 DEF Sound
<1> HIDE DEF built
<1> DEFINE Other(d) == IF d = c THEN [cmd[c] EXCEPT !.at = "start", !.config = built]
                       ELSE IF At(d, "up", "start") THEN [cmd[d] EXCEPT !.config = built]
                       ELSE cmd[d]
<1>2. cmd' = [d \in Clients |-> Other(d)] /\ UNCHANGED <<settings, asked, running>>
  BY DEF WriteConfig, built
<1>3. ASSUME NEW d \in Clients
      PROVE  /\ Other(d) \in Commands /\ Other(d).op = cmd[d].op /\ Other(d).arg = cmd[d].arg
             /\ Other(d).alone = cmd[d].alone /\ Other(d).fd = cmd[d].fd
             /\ Other(d).seen = cmd[d].seen /\ Other(d).told = cmd[d].told
             /\ Other(d).config \in {built, cmd[d].config}
             /\ Other(d).at = cmd[d].at \/ d = c
  BY ZenonT(30), <1>0, <1>1 DEF Commands
<1>4. cmd'[c].at = "start"
  BY <1>0, <1>2 DEF Commands
<1> HIDE DEF Other
<1>5. /\ cmd' \in [Clients -> Commands]
      /\ \A d \in Clients :
           /\ cmd'[d].op = cmd[d].op /\ cmd'[d].arg = cmd[d].arg /\ cmd'[d].fd = cmd[d].fd
           /\ cmd'[d].alone = cmd[d].alone /\ cmd'[d].seen = cmd[d].seen
           /\ cmd'[d].told = cmd[d].told /\ cmd'[d].config \in {built, cmd[d].config}
           /\ cmd'[d].at = cmd[d].at \/ d = c
  BY <1>2, <1>3
<1>6. SettingsTypeOK'
  BY <1>0, <1>2, <1>5 DEF SettingsTypeOK, settings
<1>7. AloneInv'
  <2> SUFFICES ASSUME NEW d \in Clients, cmd'[d].alone
               PROVE  Alone(d)'
    BY DEF AloneInv
  <2>1. Alone(d)
    BY <1>5 DEF SettingsInv, AloneInv
  <2> QED
    BY <1>0, <1>2, <1>5, <2>1 DEF Alone, Listing, settings
<1>8. ASSUME NEW t, Hold(t)
      PROVE  /\ t.lists # Unknown =>
                  /\ domains' = Domains(t.lists) /\ ips' = Nets(t.lists)
                  /\ \A d \in Clients : cmd'[d].op \notin Listing
             /\ t.ru # Unknown => RuDns' = t.ru /\ \A d \in Clients : cmd'[d].op # "ru-dns"
  BY <1>2, <1>5, <1>8 DEF Hold, RuDns, settings
<1>9. Hold(asked)'
  BY <1>2, <1>8 DEF SettingsInv, Hold
<1>10. ASSUME NEW d \in Clients, cmd'[d].op = "up"
       PROVE  Hold(cmd[d].told)' /\ Agrees(cmd'[d].seen, cmd'[d].told, cmd'[d].at)
  <2>1. Hold(cmd[d].told) /\ Agrees(cmd[d].seen, cmd[d].told, cmd[d].at)
    BY <1>5, <1>10 DEF SettingsInv
  <2>2. Agrees(cmd'[d].seen, cmd'[d].told, cmd'[d].at)
    <3>1. CASE d = c
      BY <1>4, <3>1 DEF Agrees
    <3>2. CASE d # c
      BY <1>5, <2>1, <3>2
    <3> QED
      BY <3>1, <3>2
  <2> QED
    BY <1>5, <1>8, <2>1, <2>2 DEF Hold
<1>11. Sound(running') /\ \A d \in Clients : Sound(cmd'[d].config)
  <2>1. ASSUME NEW d \in Clients PROVE Sound(cmd'[d].config)
    BY <1>1, <1>5 DEF SettingsInv
  <2> QED
    BY <1>2, <2>1 DEF SettingsInv
<1> QED
  BY <1>6, <1>7, <1>9, <1>10, <1>11 DEF SettingsInv, Agrees, Sound

LEMMA InitSettings == Init => SettingsInv
<1> SUFFICES ASSUME Init PROVE SettingsInv
  OBVIOUS
<1>1. \A c \in Clients : cmd[c] = None
  BY DEF Init
<1>2. SettingsTypeOK
  BY <1>1, NothingListed, NoneCommand
     DEF Init, SettingsTypeOK, Tolds, ListFiles, RuAddresses
<1>3. AloneInv
  BY <1>1, NoneCommand DEF AloneInv, Alone, Listing
<1>4. Hold(asked)
  BY <1>1, NothingListed, NoneCommand DEF Init, Hold, RuDns, Listing
<1>5. None.config = Nothing
  BY DEF None
<1> QED
  BY <1>1, <1>2, <1>3, <1>4, <1>5, NoneCommand DEF Init, SettingsInv, Sound

LEMMA NextSettings == SettingsInv /\ [Next]_vars => SettingsInv'
<1> SUFFICES ASSUME SettingsInv, [Next]_vars PROVE SettingsInv'
  OBVIOUS
<1>1. CASE UNCHANGED <<settings, cmd, asked>> /\ running' \in {running, Nothing}
  BY <1>1
     DEF settings, SettingsInv, SettingsTypeOK, AloneInv, Alone, Hold, RuDns, Agrees, Sound
<1>2. ASSUME NEW c \in Clients, NEW file \in ImportFiles, Import(c, file) PROVE SettingsInv'
  BY <1>2, ListsBegin DEF Import, Listing, ListFiles
<1>3. ASSUME NEW c \in Clients, Clear(c) PROVE SettingsInv'
  BY <1>3, ListsBegin DEF Clear, Listing, ListFiles
<1>4. ASSUME NEW c \in Clients, ResetRuDns(c) \/ \E addr \in Resolvers : SetRuDns(c, addr)
      PROVE  SettingsInv'
  BY <1>4, ResolverChanges
<1>5. ASSUME NEW c \in Clients, Proceed(c) PROVE SettingsInv'
  <2>1. CASE Ensuring(c)
    BY <1>1, <2>1 DEF Ensuring
  <2>2. CASE ~Ensuring(c)
    BY <1>5, <2>2, ImportKeeps, LastWriteKeeps, UpKeeps, WriteConfigKeeps DEF Proceed
  <2> QED
    BY <2>1, <2>2
<1>6. CASE Down \/ UNCHANGED vars
  BY <1>1, <1>6 DEF Down, vars, settings
<1> QED
  BY <1>2, <1>3, <1>4, <1>5, <1>6, UpKeeps DEF Next

\* As long as no two commands have changed the lists at the same time, nobody has read
\* a text that mixes two of them.
Unmixed(k) ==
  /\ k.op \in Listing => k.alone
  /\ k.seen.dnsDomains \in DomainLists /\ k.seen.domains \in DomainLists
UnmixedConfig(config) ==
  config # Nothing =>
    config.seen.dnsDomains \in DomainLists /\ config.seen.domains \in DomainLists

ApartInv ==
  apart =>
    /\ domains \in DomainLists
    /\ \A c \in Clients : Unmixed(cmd[c]) /\ UnmixedConfig(cmd[c].config)
    /\ UnmixedConfig(running)

LEMMA InitApart == Init => ApartInv
<1>1. Unmixed(None) /\ UnmixedConfig(None.config) /\ UnmixedConfig(Nothing)
  BY NothingListed DEF Unmixed, UnmixedConfig, None, NoSeen, Listing
<1> QED
  BY <1>1, NothingListed DEF Init, ApartInv

LEMMA NextApart == SettingsInv /\ ApartInv /\ [Next]_vars => ApartInv'
<1> SUFFICES ASSUME SettingsInv, ApartInv, [Next]_vars, apart'
             PROVE  /\ domains' \in DomainLists
                    /\ \A c \in Clients : Unmixed(cmd'[c]) /\ UnmixedConfig(cmd'[c].config)
                    /\ UnmixedConfig(running')
  BY DEF ApartInv, Unmixed, UnmixedConfig
<1> DEFINE Fine(k) == Unmixed(k) /\ UnmixedConfig(k.config)
<1> DEFINE Goal == /\ domains' \in DomainLists /\ UnmixedConfig(running')
                   /\ \A d \in Clients : Fine(cmd'[d])
<1>0. SettingsTypeOK /\ \A d \in Clients : cmd[d] \in Commands
  BY DEF SettingsInv, SettingsTypeOK
<1>n. Fine(None)
  BY NothingListed DEF Unmixed, UnmixedConfig, None, NoSeen, Listing
<1>u. apart => domains \in DomainLists /\ UnmixedConfig(running) /\ \A d \in Clients : Fine(cmd[d])
  BY DEF ApartInv
<1>t. \A k, m : /\ m.op = k.op /\ m.alone = k.alone /\ m.seen = k.seen
                /\ m.config = k.config /\ Fine(k)
                => Fine(m)
  BY DEF Unmixed
<1>g. SUFFICES Goal
  OBVIOUS
<1> HIDE DEF Fine
<1>1. ASSUME apart, domains' \in DomainLists, UnmixedConfig(running'),
             NEW c \in Clients, NEW k, Fine(k), cmd' = [cmd EXCEPT ![c] = k]
      PROVE  Goal
  <2>1. cmd'[c] = k /\ \A d \in Clients \ {c} : cmd'[d] = cmd[d]
    BY <1>0, <1>1 DEF SettingsTypeOK
  <2> QED
    BY <1>1, <1>u, <2>1
<1>2. ASSUME NEW c \in Clients,
             \/ WriteIps(c) \/ WriteRuDns(c) \/ GeoFailed(c) \/ XrayFails(c) \/ Kill(c)
      PROVE  Goal
  BY <1>1, <1>2, <1>n, <1>u
     DEF WriteIps, WriteRuDns, GeoFailed, XrayFails, Kill, Done, Finish, settings
<1>3. ASSUME NEW c \in Clients, XrayStarts(c) PROVE Goal
  <2>1. apart /\ UNCHANGED domains /\ running' = cmd[c].config /\ cmd' = [cmd EXCEPT ![c] = None]
    BY <1>3 DEF XrayStarts, Done, settings
  <2>2. UnmixedConfig(running')
    BY <1>u, <2>1 DEF Fine
  <2> QED
    BY <1>1, <1>n, <1>u, <2>1, <2>2
<1>4. ASSUME NEW c \in Clients, NEW bypass \in BOOLEAN, Up(c, bypass) PROVE Goal
  <2> DEFINE k == [None EXCEPT !.op = "up", !.bypass = bypass,
                               !.at = IF bypass THEN "geo" ELSE "dump"]
  <2>1. apart /\ UNCHANGED <<domains, running>> /\ cmd' = [cmd EXCEPT ![c] = k]
    BY <1>4 DEF Up, settings
  <2>2. k.op = "up" /\ k.seen = None.seen /\ k.config = None.config
    BY DEF None
  <2>3. Fine(k)
    BY <1>n, <2>2 DEF Fine, Unmixed, Listing
  <2> HIDE DEF k
  <2> QED
    BY <1>1, <1>u, <2>1, <2>3
<1>5. ASSUME NEW c \in Clients, GeoFound(c) PROVE Goal
  <2>0. PICK all \in {HasAll, AllWhole} :
          cmd' = [cmd EXCEPT ![c].at = "dnsDomains", ![c].told = asked,
                             ![c].dir = IF all \/ ~system THEN "assets" ELSE "system"]
    BY <1>5 DEF GeoFound
  <2> DEFINE k == [cmd[c] EXCEPT !.at = "dnsDomains", !.told = asked,
                                 !.dir = IF all \/ ~system THEN "assets" ELSE "system"]
  <2>1. apart /\ UNCHANGED <<domains, running>> /\ cmd' = [cmd EXCEPT ![c] = k]
    BY <1>0, <1>5, <2>0 DEF GeoFound, settings, SettingsTypeOK
  <2>2. k.op = cmd[c].op /\ k.alone = cmd[c].alone /\ k.seen = cmd[c].seen
        /\ k.config = cmd[c].config
    BY <1>0 DEF Commands
  <2> HIDE DEF k
  <2> QED
    BY <1>1, <1>t, <1>u, <2>1, <2>2
<1>6. ASSUME NEW c \in Clients, ReadSettings(c) PROVE Goal
  <2>1. ASSUME NEW k, k.op = "up", k.config = cmd[c].config,
               k.seen.dnsDomains \in {domains, cmd[c].seen.dnsDomains},
               k.seen.domains \in {domains, cmd[c].seen.domains},
               cmd' = [cmd EXCEPT ![c] = k]
        PROVE  Goal
    <3>1. apart /\ UNCHANGED <<domains, running>>
      BY <1>6 DEF ReadSettings, Read, settings
    <3>2. Fine(k)
      BY <1>u, <2>1, <3>1 DEF Fine, Unmixed, Listing
    <3> QED
      BY <1>1, <1>u, <2>1, <3>1, <3>2
  <2>2. CASE Read(c, "dnsDomains", domains, "dnsRu")
    <3> DEFINE k == [cmd[c] EXCEPT !.at = "dnsRu", !.seen.dnsDomains = domains]
    <3>1. cmd' = [cmd EXCEPT ![c] = k] /\ cmd[c].op = "up"
      BY <1>0, <2>2 DEF Read, At, SettingsTypeOK, Commands, Seens
    <3>2. k.op = cmd[c].op /\ k.config = cmd[c].config
          /\ k.seen = [cmd[c].seen EXCEPT !.dnsDomains = domains]
      BY <1>0 DEF Commands, Seens
    <3>3. /\ k.seen.dnsDomains \in {domains, cmd[c].seen.dnsDomains}
          /\ k.seen.domains \in {domains, cmd[c].seen.domains}
      BY <1>0, <3>2 DEF Commands, Seens
    <3> HIDE DEF k
    <3> QED
      BY <2>1, <3>1, <3>2, <3>3
  <2>3. CASE Read(c, "dnsRu", RuDns, "ru")
    <3> DEFINE k == [cmd[c] EXCEPT !.at = "ru", !.seen.dnsRu = RuDns]
    <3>1. cmd' = [cmd EXCEPT ![c] = k] /\ cmd[c].op = "up"
      BY <1>0, <2>3 DEF Read, At, SettingsTypeOK, Commands, Seens
    <3>2. k.op = cmd[c].op /\ k.config = cmd[c].config
          /\ k.seen = [cmd[c].seen EXCEPT !.dnsRu = RuDns]
      BY <1>0 DEF Commands, Seens
    <3>3. /\ k.seen.dnsDomains \in {domains, cmd[c].seen.dnsDomains}
          /\ k.seen.domains \in {domains, cmd[c].seen.domains}
      BY <1>0, <3>2 DEF Commands, Seens
    <3> HIDE DEF k
    <3> QED
      BY <2>1, <3>1, <3>2, <3>3
  <2>4. CASE Read(c, "ru", RuDns, "domains")
    <3> DEFINE k == [cmd[c] EXCEPT !.at = "domains", !.seen.ru = RuDns]
    <3>1. cmd' = [cmd EXCEPT ![c] = k] /\ cmd[c].op = "up"
      BY <1>0, <2>4 DEF Read, At, SettingsTypeOK, Commands, Seens
    <3>2. k.op = cmd[c].op /\ k.config = cmd[c].config
          /\ k.seen = [cmd[c].seen EXCEPT !.ru = RuDns]
      BY <1>0 DEF Commands, Seens
    <3>3. /\ k.seen.dnsDomains \in {domains, cmd[c].seen.dnsDomains}
          /\ k.seen.domains \in {domains, cmd[c].seen.domains}
      BY <1>0, <3>2 DEF Commands, Seens
    <3> HIDE DEF k
    <3> QED
      BY <2>1, <3>1, <3>2, <3>3
  <2>5. CASE Read(c, "domains", domains, "ips")
    <3> DEFINE k == [cmd[c] EXCEPT !.at = "ips", !.seen.domains = domains]
    <3>1. cmd' = [cmd EXCEPT ![c] = k] /\ cmd[c].op = "up"
      BY <1>0, <2>5 DEF Read, At, SettingsTypeOK, Commands, Seens
    <3>2. k.op = cmd[c].op /\ k.config = cmd[c].config
          /\ k.seen = [cmd[c].seen EXCEPT !.domains = domains]
      BY <1>0 DEF Commands, Seens
    <3>3. /\ k.seen.dnsDomains \in {domains, cmd[c].seen.dnsDomains}
          /\ k.seen.domains \in {domains, cmd[c].seen.domains}
      BY <1>0, <3>2 DEF Commands, Seens
    <3> HIDE DEF k
    <3> QED
      BY <2>1, <3>1, <3>2, <3>3
  <2>6. CASE Read(c, "ips", ips, "dump")
    <3> DEFINE k == [cmd[c] EXCEPT !.at = "dump", !.seen.ips = ips]
    <3>1. cmd' = [cmd EXCEPT ![c] = k] /\ cmd[c].op = "up"
      BY <1>0, <2>6 DEF Read, At, SettingsTypeOK, Commands, Seens
    <3>2. k.op = cmd[c].op /\ k.config = cmd[c].config
          /\ k.seen = [cmd[c].seen EXCEPT !.ips = ips]
      BY <1>0 DEF Commands, Seens
    <3>3. /\ k.seen.dnsDomains \in {domains, cmd[c].seen.dnsDomains}
          /\ k.seen.domains \in {domains, cmd[c].seen.domains}
      BY <1>0, <3>2 DEF Commands, Seens
    <3> HIDE DEF k
    <3> QED
      BY <2>1, <3>1, <3>2, <3>3
  <2> QED
    BY <1>6, <2>2, <2>3, <2>4, <2>5, <2>6 DEF ReadSettings
<1>7. ASSUME NEW c \in Clients, WriteDomains(c) \/ OpenIps(c) PROVE Goal
  <2> DEFINE k == [cmd[c] EXCEPT !.at = IF cmd[c].at = "second" THEN "third" ELSE "fourth",
                                 !.fd = IF cmd[c].at = "second" THEN @ ELSE "file"]
  <2>1. k.op = cmd[c].op /\ k.alone = cmd[c].alone /\ k.seen = cmd[c].seen
        /\ k.config = cmd[c].config
    BY <1>0 DEF Commands
  <2>2. cmd' = [cmd EXCEPT ![c] = k] /\ apart /\ UNCHANGED running
    <3>1. CASE WriteDomains(c)
      <4>1. k = [cmd[c] EXCEPT !.at = "third"]
        BY <1>0, <3>1 DEF WriteDomains, At, Commands
      <4> QED
        BY <1>0, <3>1, <4>1 DEF WriteDomains, Goto, SettingsTypeOK
    <3>2. CASE OpenIps(c)
      <4>1. k = [cmd[c] EXCEPT !.at = "fourth", !.fd = "file"]
        BY <1>0, <3>2 DEF OpenIps, At, Commands
      <4> QED
        BY <1>0, <3>2, <4>1 DEF OpenIps, SettingsTypeOK
    <3> QED
      BY <1>7, <3>1, <3>2
  <2> HIDE DEF k
  <2>3. CASE OpenIps(c)
    BY <1>1, <1>t, <1>u, <2>1, <2>2, <2>3 DEF OpenIps
  <2>4. CASE WriteDomains(c)
    <3>1. /\ cmd[c].op = "import" /\ cmd[c].at = "second" /\ cmd[c].arg \in ListFiles
          /\ domains' \in Written(c, domains, Domains(cmd[c].arg), DomainPieces)
      BY <1>0, <2>4 DEF WriteDomains, At, SettingsTypeOK, ListFiles
    <3>2. cmd[c].alone
      BY <1>u, <2>2, <3>1 DEF Fine, Unmixed, Listing
    <3>3. cmd[c].fd = "file" /\ domains = {}
      BY <3>1, <3>2 DEF SettingsInv, AloneInv, Alone
    <3>4. domains' = Domains(cmd[c].arg)
      BY <3>1, <3>3, WrittenAlone
    <3> QED
      BY <1>1, <1>t, <1>u, <2>1, <2>2, <3>1, <3>4 DEF DomainLists
  <2> QED
    BY <1>7, <2>3, <2>4
<1>8. ASSUME NEW c \in Clients, ClearIps(c) PROVE Goal
  <2>1. /\ apart /\ UNCHANGED <<domains, running>>
        /\ cmd' = [d \in Clients |-> IF d = c THEN None ELSE Detached(cmd[d], "import", "fourth")]
    BY <1>8 DEF ClearIps, Finish
  <2>2. ASSUME NEW d \in Clients PROVE Fine(cmd'[d])
    <3>1. cmd'[d] = None \/ cmd'[d] = Detached(cmd[d], "import", "fourth")
      BY <2>1
    <3>2. Fine(Detached(cmd[d], "import", "fourth"))
      BY <1>0, <1>t, <1>u, <2>1, DetachedKeeps
    <3> QED
      BY <1>n, <3>1, <3>2
  <2> QED
    BY <1>u, <2>1, <2>2
<1>9. ASSUME NEW c \in Clients, NEW op \in Listing, NEW arg, Begin(c, op, "lists", arg),
             domains' = {}
      PROVE  Goal
  <2> DEFINE lone == \A d \in Clients : cmd[d].op \notin Listing
             k == [None EXCEPT !.op = op, !.at = "second", !.arg = arg, !.alone = lone]
  <2>1. apart /\ UNCHANGED running /\ lone
    BY <1>9 DEF Begin, Listing
  <2>2. cmd' = [d \in Clients |-> IF d = c THEN k ELSE [cmd[d] EXCEPT !.told.lists = Unknown]]
    BY <1>9, <2>1 DEF Begin, Listing
  <2>3. Fine(k)
    <3>1. k.alone /\ k.seen = None.seen /\ k.config = None.config
      BY <2>1 DEF None
    <3> QED
      BY <1>n, <3>1 DEF Fine, Unmixed
  <2>4. ASSUME NEW d \in Clients PROVE Fine([cmd[d] EXCEPT !.told.lists = Unknown])
    <3> DEFINE t == [cmd[d].told EXCEPT !.lists = Unknown]
               m == [cmd[d] EXCEPT !.told = t]
    <3>1. m.op = cmd[d].op /\ m.alone = cmd[d].alone /\ m.seen = cmd[d].seen
          /\ m.config = cmd[d].config
      BY <1>0 DEF Commands
    <3> HIDE DEF t
    <3>2. Fine(m)
      BY <1>t, <1>u, <2>1, <3>1
    <3> QED
      BY <3>2 DEF t
  <2> HIDE DEF k
  <2> QED
    BY <1>9, <1>u, <2>1, <2>2, <2>3, <2>4, NothingListed
<1>10. ASSUME NEW c \in Clients, ResetRuDns(c) \/ \E addr \in Resolvers : SetRuDns(c, addr)
       PROVE  Goal
  <2>1. ASSUME NEW d \in Clients, NEW k \in Commands, NEW t, NEW a,
               k.op = cmd[d].op, k.seen = cmd[d].seen, k.config = cmd[d].config,
               a = k.alone \/ k.op = "ru-dns", k.alone = cmd[d].alone, apart
        PROVE  Fine([k EXCEPT !.told = t, !.alone = a])
    <3> DEFINE m == [k EXCEPT !.told = t, !.alone = a]
    <3>1. m.op = k.op /\ m.alone = a /\ m.seen = k.seen /\ m.config = k.config
      BY DEF Commands
    <3> HIDE DEF m
    <3>2. Fine(m)
      BY <1>u, <2>1, <3>1 DEF Fine, Unmixed, Listing
    <3> QED
      BY <3>2 DEF m
  <2>2. CASE ResetRuDns(c)
    <3>1. /\ apart /\ UNCHANGED <<domains, running>>
          /\ cmd' = [d \in Clients |-> [Detached(cmd[d], "ru-dns", "second")
               EXCEPT !.told.ru = Unknown, !.alone = @ /\ cmd[d].op # "ru-dns"]]
      BY <2>2 DEF ResetRuDns
    <3>2. ASSUME NEW d \in Clients PROVE Fine(cmd'[d])
      <4> DEFINE k == Detached(cmd[d], "ru-dns", "second")
                 t == [k.told EXCEPT !.ru = Unknown]
                 a == k.alone /\ cmd[d].op # "ru-dns"
      <4>1. /\ k \in Commands /\ k.op = cmd[d].op /\ k.seen = cmd[d].seen
            /\ k.config = cmd[d].config /\ k.alone = cmd[d].alone
        BY <1>0, DetachedKeeps
      <4>2. cmd'[d] = [k EXCEPT !.told = t, !.alone = a]
        BY <3>1
      <4>3. a = k.alone \/ k.op = "ru-dns"
        BY <1>0, <4>1 DEF Commands
      <4> HIDE DEF k, t, a
      <4>4. Fine([k EXCEPT !.told = t, !.alone = a])
        BY <2>1, <3>1, <4>1, <4>3
      <4> QED
        BY <4>2, <4>4
    <3> QED
      BY <1>u, <3>1, <3>2
  <2>3. ASSUME NEW addr \in Resolvers, SetRuDns(c, addr) PROVE Goal
    <3> DEFINE lone == \A d \in Clients : cmd[d].op # "ru-dns"
               k == [None EXCEPT !.op = "ru-dns", !.at = "second", !.arg = addr, !.alone = lone]
    <3>1. /\ apart /\ UNCHANGED <<domains, running>>
          /\ cmd' = [d \in Clients |->
               IF d = c THEN k
               ELSE IF cmd[d].op = "ru-dns" THEN [cmd[d] EXCEPT !.alone = FALSE]
               ELSE [cmd[d] EXCEPT !.told.ru = Unknown]]
      BY <2>3 DEF SetRuDns, Begin
    <3>2. Fine(k)
      <4>1. k.op = "ru-dns" /\ k.seen = None.seen /\ k.config = None.config
        BY DEF None
      <4> QED
        BY <1>n, <4>1 DEF Fine, Unmixed, Listing
    <3> HIDE DEF k
    <3>3. ASSUME NEW d \in Clients PROVE Fine(cmd'[d])
      <4>1. CASE d = c
        BY <3>1, <3>2, <4>1
      <4>2. CASE d # c /\ cmd[d].op = "ru-dns"
        <5>1. cmd'[d] = [cmd[d] EXCEPT !.alone = FALSE]
          BY <3>1, <4>2
        <5>2. cmd'[d].op = "ru-dns" /\ cmd'[d].seen = cmd[d].seen /\ cmd'[d].config = cmd[d].config
          BY <1>0, <4>2, <5>1 DEF Commands
        <5> QED
          BY <1>u, <3>1, <5>2 DEF Fine, Unmixed, Listing
      <4>3. CASE d # c /\ cmd[d].op # "ru-dns"
        <5> DEFINE t == [cmd[d].told EXCEPT !.ru = Unknown]
        <5>1. cmd'[d] = [cmd[d] EXCEPT !.told = t]
          BY <3>1, <4>3
        <5>2. cmd'[d].op = cmd[d].op /\ cmd'[d].seen = cmd[d].seen /\ cmd'[d].alone = cmd[d].alone
              /\ cmd'[d].config = cmd[d].config
          BY <1>0, <5>1 DEF Commands
        <5> QED
          BY <1>t, <1>u, <3>1, <5>2
      <4> QED
        BY <4>1, <4>2, <4>3
    <3> QED
      BY <1>u, <3>1, <3>3
  <2> QED
    BY <1>10, <2>2, <2>3
<1>11. ASSUME NEW c \in Clients, WriteConfig(c) PROVE Goal
  <2> DEFINE built == [bypass |-> cmd[c].bypass, seen |-> cmd[c].seen, told |-> cmd[c].told]
  <2>1. /\ apart /\ UNCHANGED <<domains, running>>
        /\ cmd' = [d \in Clients |->
             IF d = c THEN [cmd[c] EXCEPT !.at = "start", !.config = built]
             ELSE IF At(d, "up", "start") THEN [cmd[d] EXCEPT !.config = built] ELSE cmd[d]]
    BY <1>11 DEF WriteConfig, settings
  <2>2. UnmixedConfig(built)
    BY <1>u, <2>1 DEF Fine, Unmixed, UnmixedConfig
  <2> HIDE DEF built
  <2>3. ASSUME NEW d \in Clients PROVE Fine(cmd'[d])
    <3>1. /\ cmd'[d].op = cmd[d].op /\ cmd'[d].alone = cmd[d].alone
          /\ cmd'[d].seen = cmd[d].seen /\ cmd'[d].config \in {built, cmd[d].config}
      BY <1>0, <2>1 DEF Commands
    <3> QED
      BY <1>u, <2>1, <2>2, <3>1 DEF Fine, Unmixed
  <2> QED
    BY <1>u, <2>1, <2>3
<1>12. CASE UNCHANGED <<domains, cmd, apart>> /\ running' \in {running, Nothing}
  BY <1>12, <1>u DEF UnmixedConfig
<1>13. ASSUME NEW c \in Clients, Proceed(c) PROVE Goal
  <2>1. CASE Ensuring(c)
    BY <1>12, <2>1 DEF Ensuring, settings
  <2> QED
    BY <1>2, <1>3, <1>5, <1>6, <1>7, <1>8, <1>11, <1>13, <2>1 DEF Proceed
<1>14. CASE Down \/ UNCHANGED vars
  BY <1>12, <1>14 DEF Down, vars, settings
<1>15. ASSUME NEW c \in Clients, Clear(c) \/ \E file \in ImportFiles : Import(c, file) PROVE Goal
  BY <1>9, <1>15 DEF Clear, Import, Listing
<1> QED
  BY <1>2, <1>4, <1>10, <1>13, <1>14, <1>15 DEF Next

-----------------------------------------------------------------------------
(***************************************************************************)
(* What the rules decide.                                                  *)
(***************************************************************************)

\* The first rule that matches decides.
LEMMA FirstRule ==
  ASSUME NEW rules, NEW dst, Len(rules) \in Nat, NEW i \in 1..Len(rules),
         Matches(rules[i], dst), \A j \in 1..Len(rules) : j < i => ~Matches(rules[j], dst)
  PROVE  Outbound(rules, dst) = rules[i].out
<1> DEFINE I == {j \in 1..Len(rules) : Matches(rules[j], dst)}
<1>1. i \in I /\ \A j \in I : i <= j /\ j \in Int
  OBVIOUS
<1>2. (CHOOSE x \in I : \A y \in I : x <= y) = i
  BY <1>1
<1>3. SelectInSeq(rules, LAMBDA r : Matches(r, dst)) = i
  BY <1>1, <1>2 DEF SelectInSeq, Min
<1> QED
  BY <1>3 DEF Outbound

\* The rules of a tunnel without bypass, and with it.
RuDirect(ru) == Rule({"dns-in"}, AnyPort, "ip", {ru}, "direct")
DnsProxied == Rule({"dns-in"}, AnyPort, "any", {}, "proxy")
PrivateDirect == Rule(Inbounds, AnyPort, "ip", PrivateNets, "direct")
NamesDirect(seen) == Rule(Inbounds, AnyPort, "domain", RuSites \cup seen.domains, "direct")
NetsDirect(seen) == Rule(Inbounds, AnyPort, "ip", RuNets \cup seen.ips, "direct")
Proxied == Rule(Inbounds, AnyPort, "any", {}, "proxy")

Always(rules) ==
  /\ rules[1] = Rule({"api-in"}, AnyPort, "any", {}, "api")
  /\ rules[2] = Rule({"socks-in"}, {"53"}, "any", {}, "dns-out")
  /\ rules[3] = Rule(Inbounds, {"5355"}, "any", {}, "block")
  /\ rules[4] = Rule(Inbounds, AnyPort, "ip", LinkLocal, "block")

LEMMA RulesWithout ==
  ASSUME NEW seen
  PROVE  LET rules == Routing(FALSE, TRUE, TRUE, seen) IN
         /\ Len(rules) = 7 /\ Always(rules)
         /\ rules[5] = DnsProxied /\ rules[6] = PrivateDirect /\ rules[7] = Proxied
<1> DEFINE r1 == Rule({"api-in"}, AnyPort, "any", {}, "api")
           r2 == Rule({"socks-in"}, {"53"}, "any", {}, "dns-out")
           r3 == Rule(Inbounds, {"5355"}, "any", {}, "block")
           r4 == Rule(Inbounds, AnyPort, "ip", LinkLocal, "block")
<1>1. Routing(FALSE, TRUE, TRUE, seen) =
        (((<<r1, r2, r3, r4>> \o (<<>> \o <<DnsProxied>>)) \o <<PrivateDirect>>) \o <<>>)
        \o <<Proxied>>
  BY DEF Routing, ResolverRules, When, DnsProxied, PrivateDirect, Proxied
<1>2. \A rules : Always(rules) <=>
        rules[1] = r1 /\ rules[2] = r2 /\ rules[3] = r3 /\ rules[4] = r4
  BY DEF Always
<1> DEFINE x == Proxied
           d == DnsProxied
           p == PrivateDirect
           rules == (((<<r1, r2, r3, r4>> \o (<<>> \o <<d>>)) \o <<p>>) \o <<>>) \o <<x>>
<1> HIDE DEF r1, r2, r3, r4, x, d, p
<1>3. /\ Len(rules) = 7 /\ rules[1] = r1 /\ rules[2] = r2 /\ rules[3] = r3 /\ rules[4] = r4
      /\ rules[5] = d /\ rules[6] = p /\ rules[7] = x
  OBVIOUS
<1>4. rules = Routing(FALSE, TRUE, TRUE, seen)
  BY <1>1 DEF x, d, p
<1> HIDE DEF rules
<1> QED
  BY <1>2, <1>3, <1>4 DEF x, d, p

LEMMA RulesWith ==
  ASSUME NEW seen
  PROVE  LET rules == Routing(TRUE, TRUE, TRUE, seen) IN
         /\ Len(rules) = 10 /\ Always(rules)
         /\ rules[5] = RuDirect(seen.ru) /\ rules[6] = DnsProxied
         /\ rules[7] = PrivateDirect /\ rules[8] = NamesDirect(seen)
         /\ rules[9] = NetsDirect(seen) /\ rules[10] = Proxied
<1> DEFINE r1 == Rule({"api-in"}, AnyPort, "any", {}, "api")
           r2 == Rule({"socks-in"}, {"53"}, "any", {}, "dns-out")
           r3 == Rule(Inbounds, {"5355"}, "any", {}, "block")
           r4 == Rule(Inbounds, AnyPort, "ip", LinkLocal, "block")
           r5 == RuDirect(seen.ru)
           r8 == NamesDirect(seen)
           r9 == NetsDirect(seen)
<1>1. Routing(TRUE, TRUE, TRUE, seen) =
        (((<<r1, r2, r3, r4>> \o (<<r5>> \o <<DnsProxied>>)) \o <<PrivateDirect>>)
         \o <<r8, r9>>) \o <<Proxied>>
  BY DEF Routing, ResolverRules, When, DnsProxied, PrivateDirect, Proxied,
         RuDirect, NamesDirect, NetsDirect
<1>2. \A rules : Always(rules) <=>
        rules[1] = r1 /\ rules[2] = r2 /\ rules[3] = r3 /\ rules[4] = r4
  BY DEF Always
<1> DEFINE x == Proxied
           d == DnsProxied
           p == PrivateDirect
           rules == (((<<r1, r2, r3, r4>> \o (<<r5>> \o <<d>>)) \o <<p>>) \o <<r8, r9>>) \o <<x>>
<1> HIDE DEF r1, r2, r3, r4, r5, r8, r9, x, d, p
<1>3. /\ Len(rules) = 10 /\ rules[1] = r1 /\ rules[2] = r2 /\ rules[3] = r3 /\ rules[4] = r4
      /\ rules[5] = r5 /\ rules[6] = d /\ rules[7] = p /\ rules[8] = r8 /\ rules[9] = r9
      /\ rules[10] = x
  OBVIOUS
<1>4. rules = Routing(TRUE, TRUE, TRUE, seen)
  BY <1>1 DEF x, d, p
<1> HIDE DEF rules
<1> QED
  BY <1>2, <1>3, <1>4 DEF x, d, p, r5, r8, r9

\* Which rules a destination matches.
LEMMA MatchesByRule ==
  ASSUME NEW from, NEW ports, NEW by, NEW set, NEW out, NEW dst
  PROVE  LET rule == Rule(from, ports, by, set, out) IN
         /\ rule.out = out
         /\ Matches(rule, dst) => dst.from \in from /\ dst.port \in ports
         /\ by = "any" => (Matches(rule, dst) <=> dst.from \in from /\ dst.port \in ports)
         /\ by = "ip" => (Matches(rule, dst) <=>
              dst.from \in from /\ dst.port \in ports /\ dst.name = Nothing /\ InSome(set, dst.addr))
         /\ by = "domain" => (Matches(rule, dst) <=>
              dst.from \in from /\ dst.port \in ports /\ dst.name # Nothing /\ InSome(set, dst.name))
  BY DEF Rule, Matches

\* With bypass a name is reached directly if it is in the lists.
LEMMA NameDecision ==
  ASSUME NEW bypass \in BOOLEAN, NEW seen, NEW n, n # Nothing
  PROVE  Outbound(Routing(bypass, TRUE, TRUE, seen), ToName(n)) =
           IF bypass /\ InSome(RuSites \cup seen.domains, n) THEN "direct" ELSE "proxy"
<1> DEFINE rules == Routing(bypass, TRUE, TRUE, seen)
           M(i) == Matches(rules[i], ToName(n))
           dst == ToName(n)
<1>1. dst.from = "socks-in" /\ dst.port = "other" /\ dst.name = n
  BY DEF ToName
<1>2. Always(rules) => ~M(1) /\ ~M(2) /\ ~M(3) /\ ~M(4)
  <2>1. /\ ~Matches(Rule({"api-in"}, AnyPort, "any", {}, "api"), dst)
        /\ ~Matches(Rule({"socks-in"}, {"53"}, "any", {}, "dns-out"), dst)
        /\ ~Matches(Rule(Inbounds, {"5355"}, "any", {}, "block"), dst)
        /\ ~Matches(Rule(Inbounds, AnyPort, "ip", LinkLocal, "block"), dst)
    BY <1>1, MatchesByRule DEF Inbounds, AnyPort
  <2> HIDE DEF rules, dst
  <2> QED
    BY <2>1 DEF Always, dst
<1>3. /\ ~Matches(DnsProxied, dst) /\ ~Matches(PrivateDirect, dst)
      /\ Matches(Proxied, dst) /\ Proxied.out = "proxy"
      /\ ~Matches(RuDirect(seen.ru), dst) /\ ~Matches(NetsDirect(seen), dst)
  BY <1>1, MatchesByRule
     DEF DnsProxied, PrivateDirect, Proxied, RuDirect, NetsDirect, Inbounds, AnyPort
<1>4. /\ Matches(NamesDirect(seen), dst) <=> InSome(RuSites \cup seen.domains, n)
      /\ NamesDirect(seen).out = "direct"
  BY <1>1, MatchesByRule DEF NamesDirect, Inbounds, AnyPort
<1>5. CASE ~bypass
  <2>1. /\ Len(rules) = 7 /\ Always(rules)
        /\ rules[5] = DnsProxied /\ rules[6] = PrivateDirect /\ rules[7] = Proxied
    BY <1>5, RulesWithout
  <2> HIDE DEF rules
  <2>2. M(7) /\ \A j \in 1..7 : j < 7 => ~M(j)
    BY <1>2, <1>3, <2>1
  <2>3. Outbound(rules, dst) = rules[7].out
    BY <2>1, <2>2, FirstRule
  <2> QED
    BY <1>3, <1>5, <2>1, <2>3 DEF rules
<1>6. CASE bypass
  <2>1. /\ Len(rules) = 10 /\ Always(rules)
        /\ rules[5] = RuDirect(seen.ru) /\ rules[6] = DnsProxied
        /\ rules[7] = PrivateDirect /\ rules[8] = NamesDirect(seen)
        /\ rules[9] = NetsDirect(seen) /\ rules[10] = Proxied
    BY <1>6, RulesWith
  <2> HIDE DEF rules
  <2>2. \A j \in 1..7 : ~M(j)
    BY <1>2, <1>3, <2>1
  <2>3. CASE M(8)
    <3>1. Outbound(rules, dst) = rules[8].out
      BY <2>1, <2>2, <2>3, FirstRule
    <3> QED
      BY <1>4, <1>6, <2>1, <2>3, <3>1 DEF rules
  <2>4. CASE ~M(8)
    <3>1. M(10) /\ \A j \in 1..10 : j < 10 => ~M(j)
      BY <1>3, <2>1, <2>2, <2>4
    <3>2. Outbound(rules, dst) = rules[10].out
      BY SMTT(30), <2>1, <3>1, FirstRule
    <3> QED
      BY <1>3, <1>4, <2>1, <2>4, <3>2 DEF rules
  <2> QED
    BY <2>3, <2>4
<1> QED
  BY <1>5, <1>6

\* An address outside the link-local network is reached directly if it is private or,
\* with bypass, in the lists.
LEMMA AddrDecision ==
  ASSUME NEW bypass \in BOOLEAN, NEW seen, NEW a, ~InSome(LinkLocal, a)
  PROVE  Outbound(Routing(bypass, TRUE, TRUE, seen), ToAddr(a)) =
           IF InSome(PrivateNets, a) \/ (bypass /\ InSome(RuNets \cup seen.ips, a))
           THEN "direct" ELSE "proxy"
<1> DEFINE rules == Routing(bypass, TRUE, TRUE, seen)
           M(i) == Matches(rules[i], ToAddr(a))
           dst == ToAddr(a)
<1>1. dst.from = "socks-in" /\ dst.port = "other" /\ dst.name = Nothing /\ dst.addr = a
  BY DEF ToAddr
<1>2. Always(rules) => ~M(1) /\ ~M(2) /\ ~M(3) /\ ~M(4)
  <2>1. /\ ~Matches(Rule({"api-in"}, AnyPort, "any", {}, "api"), dst)
        /\ ~Matches(Rule({"socks-in"}, {"53"}, "any", {}, "dns-out"), dst)
        /\ ~Matches(Rule(Inbounds, {"5355"}, "any", {}, "block"), dst)
        /\ ~Matches(Rule(Inbounds, AnyPort, "ip", LinkLocal, "block"), dst)
    BY <1>1, MatchesByRule DEF Inbounds, AnyPort
  <2> HIDE DEF rules, dst
  <2> QED
    BY <2>1 DEF Always, dst
<1>3. /\ ~Matches(DnsProxied, dst) /\ Matches(Proxied, dst) /\ Proxied.out = "proxy"
      /\ ~Matches(RuDirect(seen.ru), dst) /\ ~Matches(NamesDirect(seen), dst)
  BY <1>1, MatchesByRule DEF DnsProxied, Proxied, RuDirect, NamesDirect, Inbounds, AnyPort
<1>4. /\ Matches(PrivateDirect, dst) <=> InSome(PrivateNets, a)
      /\ Matches(NetsDirect(seen), dst) <=> InSome(RuNets \cup seen.ips, a)
      /\ PrivateDirect.out = "direct" /\ NetsDirect(seen).out = "direct"
  <2>1. /\ Matches(PrivateDirect, dst) <=> InSome(PrivateNets, a)
        /\ PrivateDirect.out = "direct"
    BY <1>1, MatchesByRule DEF PrivateDirect, Inbounds, AnyPort
  <2>2. /\ Matches(NetsDirect(seen), dst) <=> InSome(RuNets \cup seen.ips, a)
        /\ NetsDirect(seen).out = "direct"
    BY <1>1, MatchesByRule DEF NetsDirect, Inbounds, AnyPort
  <2> QED
    BY <2>1, <2>2
<1>5. CASE ~bypass
  <2>1. /\ Len(rules) = 7 /\ Always(rules)
        /\ rules[5] = DnsProxied /\ rules[6] = PrivateDirect /\ rules[7] = Proxied
    BY <1>5, RulesWithout
  <2> HIDE DEF rules
  <2>2. \A j \in 1..5 : ~M(j)
    BY <1>2, <1>3, <2>1
  <2>3. CASE M(6)
    <3>1. Outbound(rules, dst) = rules[6].out
      BY <2>1, <2>2, <2>3, FirstRule
    <3> QED
      BY <1>4, <2>1, <2>3, <3>1 DEF rules
  <2>4. CASE ~M(6)
    <3>1. M(7) /\ \A j \in 1..7 : j < 7 => ~M(j)
      BY <1>3, <2>1, <2>2, <2>4
    <3>2. Outbound(rules, dst) = rules[7].out
      BY <2>1, <3>1, FirstRule
    <3> QED
      BY <1>3, <1>4, <1>5, <2>1, <2>4, <3>2 DEF rules
  <2> QED
    BY <2>3, <2>4
<1>6. CASE bypass
  <2>1. /\ Len(rules) = 10 /\ Always(rules)
        /\ rules[5] = RuDirect(seen.ru) /\ rules[6] = DnsProxied
        /\ rules[7] = PrivateDirect /\ rules[8] = NamesDirect(seen)
        /\ rules[9] = NetsDirect(seen) /\ rules[10] = Proxied
    BY <1>6, RulesWith
  <2> HIDE DEF rules
  <2>2. \A j \in 1..6 : ~M(j)
    BY <1>2, <1>3, <2>1
  <2>3. CASE M(7)
    <3>1. Outbound(rules, dst) = rules[7].out
      BY <2>1, <2>2, <2>3, FirstRule
    <3> QED
      BY <1>4, <2>1, <2>3, <3>1 DEF rules
  <2>4. CASE ~M(7) /\ M(9)
    <3>1. \A j \in 1..10 : j < 9 => ~M(j)
      BY <1>3, <2>1, <2>2, <2>4
    <3>2. Outbound(rules, dst) = rules[9].out
      BY <2>1, <2>4, <3>1, FirstRule
    <3> QED
      BY <1>4, <1>6, <2>1, <2>4, <3>2 DEF rules
  <2>5. CASE ~M(7) /\ ~M(9)
    <3>1. M(10) /\ \A j \in 1..10 : j < 10 => ~M(j)
      BY <1>3, <2>1, <2>2, <2>5
    <3>2. Outbound(rules, dst) = rules[10].out
      BY SMTT(30), <2>1, <3>1, FirstRule
    <3> QED
      BY <1>3, <1>4, <1>6, <2>1, <2>5, <3>2 DEF rules
  <2> QED
    BY <2>3, <2>4, <2>5
<1> QED
  BY <1>5, <1>6

\* A resolver is asked directly if it is the RU resolver, with bypass.
LEMMA QueryDecision ==
  ASSUME NEW bypass \in BOOLEAN, NEW seen, NEW a
  PROVE  Outbound(Routing(bypass, TRUE, TRUE, seen), Query(a)) =
           IF InSome(LinkLocal, a) THEN "block"
           ELSE IF bypass /\ InSome({seen.ru}, a) THEN "direct" ELSE "proxy"
<1> DEFINE rules == Routing(bypass, TRUE, TRUE, seen)
           M(i) == Matches(rules[i], Query(a))
           dst == Query(a)
<1>1. dst.from = "dns-in" /\ dst.port = "53" /\ dst.name = Nothing /\ dst.addr = a
  BY DEF Query
<1>2. Always(rules) =>
        ~M(1) /\ ~M(2) /\ ~M(3) /\ (M(4) <=> InSome(LinkLocal, a)) /\ rules[4].out = "block"
  <2>1. /\ ~Matches(Rule({"api-in"}, AnyPort, "any", {}, "api"), dst)
        /\ ~Matches(Rule({"socks-in"}, {"53"}, "any", {}, "dns-out"), dst)
        /\ ~Matches(Rule(Inbounds, {"5355"}, "any", {}, "block"), dst)
        /\ Matches(Rule(Inbounds, AnyPort, "ip", LinkLocal, "block"), dst) <=> InSome(LinkLocal, a)
        /\ Rule(Inbounds, AnyPort, "ip", LinkLocal, "block").out = "block"
    BY <1>1, MatchesByRule DEF Inbounds, AnyPort
  <2> HIDE DEF rules, dst
  <2> QED
    BY <2>1 DEF Always, dst
<1>3. /\ Matches(DnsProxied, dst) /\ DnsProxied.out = "proxy"
      /\ Matches(RuDirect(seen.ru), dst) <=> InSome({seen.ru}, a)
      /\ RuDirect(seen.ru).out = "direct"
  BY SMTT(30), <1>1, MatchesByRule DEF DnsProxied, RuDirect, AnyPort
<1>4. /\ bypass => Len(rules) = 10 /\ Always(rules) /\ rules[5] = RuDirect(seen.ru)
                   /\ rules[6] = DnsProxied
      /\ ~bypass => Len(rules) = 7 /\ Always(rules) /\ rules[5] = DnsProxied
  BY RulesWithout, RulesWith
<1> HIDE DEF rules
<1>5. Len(rules) \in Nat /\ 6 \in 1..Len(rules) /\ \A j \in 1..3 : ~M(j)
  <2>1. (Len(rules) = 7 \/ Len(rules) = 10) /\ Always(rules)
    BY <1>4
  <2>2. ~M(1) /\ ~M(2) /\ ~M(3)
    BY <1>2, <2>1
  <2>3. \A k : k = 7 \/ k = 10 => k \in Nat /\ 6 \in 1..k
    OBVIOUS
  <2>4. \A j \in 1..3 : j = 1 \/ j = 2 \/ j = 3
    OBVIOUS
  <2>5. \A j \in 1..3 : ~M(j)
    BY <2>2, <2>4
  <2> QED
    BY <2>1, <2>3, <2>5
<1>6. CASE M(4)
  <2>1. Outbound(rules, dst) = rules[4].out
    BY <1>5, <1>6, FirstRule
  <2> QED
    BY <1>2, <1>4, <1>6, <2>1 DEF rules
<1>7. CASE ~M(4) /\ M(5)
  <2>1. Outbound(rules, dst) = rules[5].out
    BY <1>5, <1>7, FirstRule
  <2> QED
    BY <1>2, <1>3, <1>4, <1>7, <2>1 DEF rules
<1>8. CASE ~M(4) /\ ~M(5)
  <2>1. bypass /\ M(6)
    BY <1>3, <1>4, <1>8
  <2>2. Outbound(rules, dst) = rules[6].out
    BY <1>5, <1>8, <2>1, FirstRule
  <2> QED
    BY <1>2, <1>3, <1>4, <1>8, <2>1, <2>2 DEF rules
<1> QED
  BY <1>6, <1>7, <1>8

\* The RU resolver is asked first about the names of the lists, the tunnelled
\* resolvers may be asked about any.
LEMMA AskedServers ==
  ASSUME NEW bypass \in BOOLEAN, NEW seen, NEW n
  PROVE  Asked(Dns(bypass, TRUE, seen), n) =
           Tunnelled \cup (IF bypass /\ InSome(RuSites \cup seen.dnsDomains, n)
                           THEN {seen.dnsRu} ELSE {})
<1> DEFINE s == [at |-> {seen.dnsRu}, for |-> RuSites \cup seen.dnsDomains, skip |-> TRUE]
           t == [at |-> Tunnelled, for |-> {}, skip |-> FALSE]
           servers == Dns(bypass, TRUE, seen)
           I == {j \in 1..Len(servers) : InSome(servers[j].for, n) \/ ~servers[j].skip}
<1>1. bypass => servers = <<s>> \o <<t>>
  BY DEF Dns, When
<1>2. ~bypass => servers = <<>> \o <<t>>
  BY DEF Dns, When
<1>3. /\ s.at = {seen.dnsRu} /\ s.for = RuSites \cup seen.dnsDomains /\ s.skip = TRUE
      /\ t.at = Tunnelled /\ t.skip = FALSE
  OBVIOUS
<1> HIDE DEF s, t, servers
<1> DEFINE both == <<s>> \o <<t>>
           one == <<>> \o <<t>>
<1>4. Len(both) = 2 /\ both[1] = s /\ both[2] = t
  OBVIOUS
<1>5. Len(one) = 1 /\ one[1] = t
  OBVIOUS
<1>6. Asked(servers, n) = UNION {servers[k].at : k \in I}
  BY DEF Asked
<1> HIDE DEF both, one
<1>7. CASE ~bypass
  <2>1. Len(servers) = 1 /\ servers[1] = t
    BY <1>2, <1>5, <1>7 DEF one
  <2>2. \A k : k \in I <=> k = 1
    BY <1>3, <2>1
  <2> HIDE DEF I
  <2>3. \A x : x \in UNION {servers[k].at : k \in I} <=> x \in Tunnelled
    BY <1>3, <2>1, <2>2
  <2> QED
    BY <1>6, <1>7, <2>3 DEF servers
<1>8. CASE bypass
  <2>1. Len(servers) = 2 /\ servers[1] = s /\ servers[2] = t
    BY <1>1, <1>4, <1>8 DEF both
  <2>2. 2 \in I
    BY <1>3, <2>1
  <2>3. 1 \in I <=> InSome(RuSites \cup seen.dnsDomains, n)
    BY <1>3, <2>1
  <2>4. \A k \in I : k = 1 \/ k = 2
    BY <2>1
  <2> HIDE DEF I
  <2>5. \A x : x \in UNION {servers[k].at : k \in I} <=>
                 x \in Tunnelled \/ (x = seen.dnsRu /\ 1 \in I)
    BY <1>3, <2>1, <2>2, <2>4
  <2> QED
    BY <1>6, <1>8, <2>3, <2>5 DEF servers
<1> QED
  BY <1>7, <1>8

-----------------------------------------------------------------------------
(***************************************************************************)
(* What the lists contain.                                                 *)
(***************************************************************************)

LEMMA SameStart ==
  ASSUME NEW S, NEW s \in Seq(S), NEW t \in Seq(S), NEW k \in Nat, k <= Len(s), k <= Len(t)
  PROVE  SubSeq(s, 1, k) = SubSeq(t, 1, k) <=> \A i \in 1..k : s[i] = t[i]
<1>1. /\ SubSeq(s, 1, k) \in Seq(S) /\ Len(SubSeq(s, 1, k)) = k
      /\ \A i \in 1..k : SubSeq(s, 1, k)[i] = s[i]
  OBVIOUS
<1>2. /\ SubSeq(t, 1, k) \in Seq(S) /\ Len(SubSeq(t, 1, k)) = k
      /\ \A i \in 1..k : SubSeq(t, 1, k)[i] = t[i]
  OBVIOUS
<1> DEFINE a == SubSeq(s, 1, k)
           b == SubSeq(t, 1, k)
<1> HIDE DEF a, b
<1>3. a \in Seq(S) /\ Len(a) = k /\ \A i \in 1..k : a[i] = s[i]
  BY <1>1 DEF a
<1>4. b \in Seq(S) /\ Len(b) = k /\ \A i \in 1..k : b[i] = t[i]
  BY <1>2 DEF b
<1>5. a = b <=> \A i \in 1..k : a[i] = b[i]
  BY <1>3, <1>4, SeqEqual
<1>6. a = b <=> \A i \in 1..k : s[i] = t[i]
  BY <1>3, <1>4, <1>5
<1> QED
  BY <1>6 DEF a, b

LEMMA PrefixByElement ==
  ASSUME NEW S, NEW s \in Seq(S), NEW t \in Seq(S)
  PROVE  IsPrefix(s, t) <=> Len(s) <= Len(t) /\ \A i \in 1..Len(s) : s[i] = t[i]
  BY SameStart DEF IsPrefix

\* The beginning of a sequence is a prefix of what begins in the same way.
LEMMA StartIsPrefix ==
  ASSUME NEW S, NEW s \in Seq(S), NEW t \in Seq(S), NEW k \in 0..Len(s)
  PROVE  /\ SubSeq(s, 1, k) \in Seq(S) /\ Len(SubSeq(s, 1, k)) = k
         /\ IsPrefix(SubSeq(s, 1, k), t) <=>
              k <= Len(t) /\ SubSeq(s, 1, k) = SubSeq(t, 1, k)
<1>1. /\ SubSeq(s, 1, k) \in Seq(S) /\ Len(SubSeq(s, 1, k)) = k
      /\ \A i \in 1..k : SubSeq(s, 1, k)[i] = s[i]
  OBVIOUS
<1> DEFINE a == SubSeq(s, 1, k)
<1> HIDE DEF a
<1>2. a \in Seq(S) /\ Len(a) = k /\ \A i \in 1..k : a[i] = s[i]
  BY <1>1 DEF a
<1>3. IsPrefix(a, t) <=> k <= Len(t) /\ \A i \in 1..k : s[i] = t[i]
  BY SMTT(30), <1>2, PrefixByElement
<1>4. k <= Len(t) => (SubSeq(s, 1, k) = SubSeq(t, 1, k) <=> \A i \in 1..k : s[i] = t[i])
  BY SameStart
<1> QED
  BY <1>1, <1>3, <1>4 DEF a

\* The domain kept of a host name stands for the names of the same site.
LEMMA RootDomainKeeps ==
  ASSUME NEW h \in Seq(STRING), NEW n \in Seq(STRING), Nothing \notin Seq(STRING)
  PROVE  RootDomain(h) # Nothing /\ IsPrefix(RootDomain(h), n) <=> SameSite(h, n)
<1>1. ASSUME NEW k \in 0..Len(h)
      PROVE  /\ Len(SubSeq(h, 1, k)) = k /\ SubSeq(h, 1, k) # Nothing
             /\ IsPrefix(SubSeq(h, 1, k), n) <=> k <= Len(n) /\ SubSeq(h, 1, k) = SubSeq(n, 1, k)
  <2>1. SubSeq(h, 1, k) \in Seq(STRING)
    BY StartIsPrefix
  <2>2. SubSeq(h, 1, k) # Nothing
    BY <2>1
  <2> QED
    BY <2>2, StartIsPrefix
<1>2. Len(h) \in Nat /\ Len(n) \in Nat
  OBVIOUS
<1>3. ASSUME NEW k \in 3..Len(h), k <= Len(n), SubSeq(h, 1, k) = SubSeq(n, 1, k), NEW j \in 2..k
      PROVE  SubSeq(h, 1, j) = SubSeq(n, 1, j)
  <2>1. \A i \in 1..k : h[i] = n[i]
    BY <1>2, <1>3, SameStart
  <2> QED
    BY <1>2, <1>3, <2>1, SameStart
<1>4. CASE Len(h) < 2
  BY <1>2, <1>4 DEF RootDomain, SameSite
<1>5. CASE Len(h) >= 2 /\ SubSeq(h, 1, 2) \notin MultiSuffix
  <2>1. RootDomain(h) = SubSeq(h, 1, 2)
    <3>1. SubSeq(h, 1, Len(h)) = h
      OBVIOUS
    <3>2. h \notin MultiSuffix
      BY <1>5, <3>1, RulesAssumption
    <3> QED
      BY <1>5, <3>2 DEF RootDomain
  <2>2. ASSUME SameSite(h, n) PROVE 2 <= Len(n) /\ SubSeq(h, 1, 2) = SubSeq(n, 1, 2)
    <3>1. PICK k \in 2..Len(h) : k <= Len(n) /\ SubSeq(h, 1, k) = SubSeq(n, 1, k)
      BY <2>2 DEF SameSite
    <3> QED
      BY <1>2, <1>3, <3>1
  <2>3. ASSUME 2 <= Len(n), SubSeq(h, 1, 2) = SubSeq(n, 1, 2) PROVE SameSite(h, n)
    BY <1>2, <1>5, <2>3 DEF SameSite
  <2>4. 2 \in 0..Len(h)
    BY <1>2, <1>5
  <2> QED
    BY <1>1, <2>1, <2>2, <2>3, <2>4
<1>6. CASE Len(h) >= 2 /\ SubSeq(h, 1, 2) \in MultiSuffix /\ h \in MultiSuffix
  <2>1. Len(h) = 2
    BY <1>6, RulesAssumption
  <2>2. RootDomain(h) = Nothing
    BY <1>6, <2>1 DEF RootDomain
  <2>3. \A k \in 2..Len(h) : SubSeq(h, 1, k) \in MultiSuffix
    BY <1>6, <2>1
  <2> QED
    BY <2>2, <2>3 DEF SameSite
<1>7. CASE Len(h) >= 2 /\ SubSeq(h, 1, 2) \in MultiSuffix /\ h \notin MultiSuffix
  <2>1. RootDomain(h) = SubSeq(h, 1, 3)
    BY <1>2, <1>7 DEF RootDomain
  <2>2. Len(h) >= 3
    <3>1. SubSeq(h, 1, Len(h)) = h
      OBVIOUS
    <3>2. Len(h) # 2
      BY <1>7, <3>1
    <3>3. \A k \in Nat : k >= 2 /\ k # 2 => k >= 3
      OBVIOUS
    <3> QED
      BY <1>2, <1>7, <3>2, <3>3
  <2>3. SubSeq(h, 1, 3) \notin MultiSuffix
    <3>1. 3 \in 0..Len(h)
      BY <1>2, <2>2
    <3>2. Len(SubSeq(h, 1, 3)) = 3
      BY <1>1, <3>1
    <3>3. \A s \in MultiSuffix : Len(s) # 3
      <4>1. 2 # 3
        OBVIOUS
      <4> QED
        BY <4>1, RulesAssumption, Zenon
    <3> QED
      BY <3>2, <3>3, Zenon
  <2>4. ASSUME SameSite(h, n) PROVE 3 <= Len(n) /\ SubSeq(h, 1, 3) = SubSeq(n, 1, 3)
    <3>1. PICK k \in 2..Len(h) : k <= Len(n) /\ SubSeq(h, 1, k) = SubSeq(n, 1, k)
                                 /\ SubSeq(h, 1, k) \notin MultiSuffix
      BY <2>4 DEF SameSite
    <3>2. k \in 3..Len(h)
      BY <1>2, <1>7, <3>1
    <3> QED
      BY <1>2, <1>3, <3>1, <3>2
  <2>5. ASSUME 3 <= Len(n), SubSeq(h, 1, 3) = SubSeq(n, 1, 3) PROVE SameSite(h, n)
    BY <1>2, <2>2, <2>3, <2>5 DEF SameSite
  <2>6. 3 \in 0..Len(h)
    BY <1>2, <2>2
  <2> QED
    BY <1>1, <2>1, <2>4, <2>5, <2>6
<1> QED
  BY <1>2, <1>4, <1>5, <1>6, <1>7

LEMMA EitherSet == ASSUME NEW A, NEW B, NEW x
                   PROVE  InSome(A \cup B, x) <=> InSome(A, x) \/ InSome(B, x)
  BY DEF InSome

\* The domains and networks that are saved of a file are those it lists.
LEMMA DomainsKept ==
  ASSUME NEW file \in ListFiles, NEW n \in Names
  PROVE  InSome(Domains(file), n) <=> \E h \in Hosts({file}) : SameSite(h, n)
<1>1. n \in Seq(STRING) /\ Nothing \notin Seq(STRING)
      /\ \A e \in file : e.host \in Seq(STRING)
  <2>1. \A e \in file : e.host \in Hosts(ImportFiles)
    BY DEF ListFiles, Hosts
  <2> QED
    BY <2>1, DestinationAssumption
<1>2. \A e \in file :
        RootDomain(e.host) # Nothing /\ IsPrefix(RootDomain(e.host), n) <=> SameSite(e.host, n)
  BY <1>1, RootDomainKeeps
<1>3. InSome(Domains(file), n) <=>
        \E e \in file : RootDomain(e.host) # Nothing /\ IsPrefix(RootDomain(e.host), n)
  BY DEF InSome, Domains
<1>4. (\E h \in Hosts({file}) : SameSite(h, n)) <=> \E e \in file : SameSite(e.host, n)
  BY DEF Hosts
<1> QED
  BY <1>2, <1>3, <1>4

LEMMA NetsKept ==
  ASSUME NEW file \in ListFiles, NEW a \in Addresses
  PROVE  InSome(Nets(file), a) <=>
           \E ip \in NetsOf({file}) :
             ip.len >= MinPrefix /\ SubSeq(ip.addr, 1, ip.len) = SubSeq(a, 1, ip.len)
<1>1. a \in Seq({0, 1}) /\ Nothing \notin Seq({0, 1})
  BY DestinationAssumption
<1>2. ASSUME NEW e \in file, e.ip # Nothing
      PROVE  FilterIp(e.ip) # Nothing /\ IsPrefix(FilterIp(e.ip), a) <=>
               e.ip.len >= MinPrefix /\ SubSeq(e.ip.addr, 1, e.ip.len) = SubSeq(a, 1, e.ip.len)
  <2>1. e.ip \in NetsOf(ImportFiles)
    BY <1>2 DEF ListFiles, NetsOf
  <2>2. e.ip.addr \in Seq({0, 1}) /\ e.ip.len \in 0..Len(e.ip.addr) /\ Len(a) = Len(e.ip.addr)
    BY <2>1, DestinationAssumption
  <2> DEFINE s == e.ip.addr
             k == e.ip.len
  <2>3. /\ SubSeq(s, 1, k) \in Seq({0, 1})
        /\ IsPrefix(SubSeq(s, 1, k), a) <=> k <= Len(a) /\ SubSeq(s, 1, k) = SubSeq(a, 1, k)
    <3>1. s \in Seq({0, 1}) /\ k \in 0..Len(s)
      BY <2>2
    <3> HIDE DEF s, k
    <3> QED
      BY <1>1, <3>1, StartIsPrefix
  <2>4. k \in Nat /\ k <= Len(a) /\ MinPrefix \in Nat
    BY <2>2, RulesAssumption
  <2>5. SubSeq(s, 1, k) # Nothing
    BY <1>1, <2>3
  <2>6. FilterIp(e.ip) = IF k < MinPrefix THEN Nothing ELSE SubSeq(s, 1, k)
    BY <1>2 DEF FilterIp
  <2> HIDE DEF s, k
  <2> QED
    BY <2>3, <2>4, <2>5, <2>6 DEF s, k
<1>3. InSome(Nets(file), a) <=>
        \E e \in file : FilterIp(e.ip) # Nothing /\ IsPrefix(FilterIp(e.ip), a)
  BY DEF InSome, Nets
<1>4. \A e \in file : FilterIp(e.ip) # Nothing => e.ip # Nothing
  BY DEF FilterIp
<1>5. \A ip : ip \in NetsOf({file}) <=> \E e \in file : e.ip = ip /\ ip # Nothing
  BY DEF NetsOf
<1> QED
  BY ZenonT(30), <1>2, <1>3, <1>4, <1>5

LEMMA SameAddress ==
  ASSUME NEW a \in ResolverAddresses, NEW b \in ResolverAddresses
  PROVE  InSome({a}, b) <=> a = b
<1>1. a \in Seq({0, 1}) /\ b \in Seq({0, 1}) /\ Len(a) = Len(b)
  BY DestinationAssumption
<1>2. IsPrefix(a, b) <=> Len(a) <= Len(b) /\ \A i \in 1..Len(a) : a[i] = b[i]
  BY <1>1, PrefixByElement
<1>3. Len(a) \in Nat /\ Len(b) \in Nat
  BY <1>1
<1>4. IsPrefix(a, b) <=> a = b
  BY <1>1, <1>2, <1>3, SeqEqual
<1> QED
  BY <1>4 DEF InSome

-----------------------------------------------------------------------------
(***************************************************************************)
(* What the running xray does.                                             *)
(***************************************************************************)

LEMMA RunningSees ==
  ASSUME SettingsInv, running # Nothing
  PROVE  /\ running.bypass \in BOOLEAN
         /\ running.seen.dnsDomains \in DomainTexts /\ running.seen.domains \in DomainTexts
         /\ running.seen.dnsRu \in RuAddresses /\ running.seen.ru \in RuAddresses
         /\ running.told.lists # Unknown =>
              /\ running.told.lists \in ListFiles
              /\ running.seen.dnsDomains = Domains(running.told.lists)
              /\ running.seen.domains = Domains(running.told.lists)
              /\ running.seen.ips = Nets(running.told.lists)
         /\ running.told.ru # Unknown =>
              running.seen.dnsRu = running.told.ru /\ running.seen.ru = running.told.ru
<1>1. running \in Configs /\ Agrees(running.seen, running.told, "dump")
  BY DEF SettingsInv, SettingsTypeOK, Sound
<1>2. running.seen \in Seens /\ running.told \in Tolds /\ running.bypass \in BOOLEAN
  BY <1>1 DEF Configs
<1> QED
  BY <1>1, <1>2 DEF Seens, Tolds, Agrees

LEMMA RunningDecides ==
  ASSUME SettingsInv, running # Nothing
  PROVE  /\ \A n \in Names :
              Direct(ToName(n)) <=> running.bypass /\ InSome(RuSites \cup running.seen.domains, n)
         /\ \A a : ~InSome(LinkLocal, a) =>
              (Direct(ToAddr(a)) <=>
                 \/ InSome(PrivateNets, a)
                 \/ running.bypass /\ InSome(RuNets \cup running.seen.ips, a))
         /\ \A a \in ResolverAddresses :
              Direct(Query(a)) <=>
                running.bypass /\ ~InSome(LinkLocal, a) /\ a = running.seen.ru
         /\ \A n :
              Asked(Servers, n) =
                Tunnelled \cup (IF running.bypass /\ InSome(RuSites \cup running.seen.dnsDomains, n)
                                THEN {running.seen.dnsRu} ELSE {})
<1> DEFINE bypass == running.bypass
           seen == running.seen
<1>1. bypass \in BOOLEAN /\ seen.ru \in ResolverAddresses
  BY RunningSees DEF RuAddresses, ResolverAddresses
<1> HIDE DEF bypass, seen
<1>2. "direct" # "proxy" /\ "direct" # "block"
  OBVIOUS
<1>3. \A dst : Direct(dst) <=> Outbound(Routing(bypass, TRUE, TRUE, seen), dst) = "direct"
  BY DEF Direct, Active, bypass, seen
<1>4. ASSUME NEW n \in Names
      PROVE  Direct(ToName(n)) <=> bypass /\ InSome(RuSites \cup seen.domains, n)
  <2>1. n # Nothing
    BY DestinationAssumption
  <2> QED
    BY <1>1, <1>2, <1>3, <2>1, NameDecision
<1>5. ASSUME NEW a, ~InSome(LinkLocal, a)
      PROVE  Direct(ToAddr(a)) <=>
               \/ InSome(PrivateNets, a)
               \/ bypass /\ InSome(RuNets \cup seen.ips, a)
  BY <1>1, <1>2, <1>3, <1>5, AddrDecision
<1>6. ASSUME NEW a \in ResolverAddresses
      PROVE  Direct(Query(a)) <=> bypass /\ ~InSome(LinkLocal, a) /\ a = seen.ru
  <2>1. InSome({seen.ru}, a) <=> a = seen.ru
    BY <1>1, SameAddress
  <2> QED
    BY <1>1, <1>2, <1>3, <2>1, QueryDecision
<1>7. ASSUME NEW n
      PROVE  Asked(Servers, n) =
               Tunnelled \cup (IF bypass /\ InSome(RuSites \cup seen.dnsDomains, n)
                               THEN {seen.dnsRu} ELSE {})
  BY <1>1, AskedServers DEF Servers, bypass, seen
<1> QED
  BY <1>4, <1>5, <1>6, <1>7 DEF bypass, seen

\* A name below an entry of a list is a name that list has.
LEMMA EntryListed ==
  ASSUME NEW list \in DomainLists, NEW n \in Names, ~NameListed(ImportFiles, n)
  PROVE  ~InSome(RuSites \cup list, n)
<1>1. PICK file \in ListFiles : list = Domains(file)
  BY DEF DomainLists
<1>2. Hosts({file}) \subseteq Hosts(ImportFiles)
  BY DEF ListFiles, Hosts
<1>3. ~InSome(list, n)
  BY <1>1, <1>2, DomainsKept DEF NameListed
<1> QED
  BY <1>3, EitherSet DEF NameListed

\* What is below an entry of a text, but on no list, is below a piece of an entry.
LEMMA StrayBelowPiece ==
  ASSUME NEW list \in DomainTexts, NEW n \in Names, ~NameListed(ImportFiles, n),
         InSome(RuSites \cup list, n)
  PROVE  BelowPiece(list, n)
<1>1. PICK p \in list : IsPrefix(p, n)
  BY EitherSet DEF NameListed, InSome
<1>2. p \notin Entries
  BY <1>1, EntryListed DEF Entries, InSome
<1>3. PICK x \in DomainPieces : x[1] \in Entries /\ p = x[2]
  BY <1>2 DEF DomainTexts
<1>4. PICK file \in ListFiles : x[1] \in Domains(file)
  BY <1>3 DEF Entries, DomainLists
<1>5. file \in ImportFiles
  BY <1>4, NothingListed DEF ListFiles
<1>6. <<x[1], p>> \in DomainPieces
  BY <1>3, SettingsAssumption
<1> QED
  BY <1>1, <1>4, <1>5, <1>6 DEF BelowPiece

LEMMA StrayNever == SettingsInv /\ ApartInv => NeverStray
<1> SUFFICES ASSUME SettingsInv, ApartInv, running # Nothing,
                    NEW n \in Names, ~NameListed(ImportFiles, n)
             PROVE  /\ Direct(ToName(n)) => ~apart /\ BelowPiece(running.seen.domains, n)
                    /\ AskedDirect(n) /\ running.seen.ru \notin Tunnelled =>
                         ~apart /\ BelowPiece(running.seen.dnsDomains, n)
  BY DEF NeverStray
<1>1. ASSUME NEW list \in DomainTexts, apart => list \in DomainLists,
             InSome(RuSites \cup list, n)
      PROVE  ~apart /\ BelowPiece(list, n)
  BY <1>1, EntryListed, StrayBelowPiece
<1>2. running.seen.dnsDomains \in DomainTexts /\ running.seen.domains \in DomainTexts
      /\ (apart => running.seen.dnsDomains \in DomainLists
                   /\ running.seen.domains \in DomainLists)
  BY RunningSees DEF ApartInv, UnmixedConfig
<1>3. Direct(ToName(n)) => ~apart /\ BelowPiece(running.seen.domains, n)
  BY <1>1, <1>2, RunningDecides
<1>4. ASSUME AskedDirect(n), running.seen.ru \notin Tunnelled
      PROVE  ~apart /\ BelowPiece(running.seen.dnsDomains, n)
  <2>1. PICK a \in Asked(Servers, n) : Direct(Query(a))
    BY <1>4 DEF AskedDirect
  <2>2. \A b \in Tunnelled : ~Direct(Query(b))
    BY <1>4, RunningDecides DEF ResolverAddresses
  <2>3. InSome(RuSites \cup running.seen.dnsDomains, n)
    BY <2>1, <2>2, RunningDecides
  <2> QED
    BY <1>1, <1>2, <2>3
<1> QED
  BY <1>3, <1>4

LEMMA RoutedThen == SettingsInv => RoutedAsAsked
<1> SUFFICES ASSUME SettingsInv, running # Nothing,
                    running.bypass => running.told.lists # Unknown
             PROVE  /\ \A n \in Names :
                         Direct(ToName(n)) <=>
                           running.bypass /\ NameListed({running.told.lists}, n)
                    /\ \A a \in Addresses : ~InSome(LinkLocal, a) =>
                         (Direct(ToAddr(a)) <=>
                            \/ InSome(PrivateNets, a)
                            \/ running.bypass /\ AddrListed({running.told.lists}, a))
  BY DEF RoutedAsAsked
<1>1. ASSUME running.bypass
      PROVE  /\ running.told.lists \in ListFiles
             /\ running.seen.domains = Domains(running.told.lists)
             /\ running.seen.ips = Nets(running.told.lists)
  BY <1>1, RunningSees
<1>2. ASSUME NEW n \in Names
      PROVE  Direct(ToName(n)) <=> running.bypass /\ NameListed({running.told.lists}, n)
  <2>1. Direct(ToName(n)) <=> running.bypass /\ InSome(RuSites \cup running.seen.domains, n)
    BY RunningDecides
  <2>2. running.bypass =>
          (InSome(RuSites \cup running.seen.domains, n) <=> NameListed({running.told.lists}, n))
    BY <1>1, EitherSet, DomainsKept DEF NameListed
  <2> QED
    BY <2>1, <2>2
<1>3. ASSUME NEW a \in Addresses, ~InSome(LinkLocal, a)
      PROVE  Direct(ToAddr(a)) <=>
               \/ InSome(PrivateNets, a)
               \/ running.bypass /\ AddrListed({running.told.lists}, a)
  <2>1. Direct(ToAddr(a)) <=>
          \/ InSome(PrivateNets, a)
          \/ running.bypass /\ InSome(RuNets \cup running.seen.ips, a)
    BY <1>3, RunningDecides
  <2>2. running.bypass =>
          (InSome(RuNets \cup running.seen.ips, a) <=> AddrListed({running.told.lists}, a))
    <3> SUFFICES ASSUME running.bypass
                 PROVE  InSome(RuNets \cup running.seen.ips, a)
                        <=> AddrListed({running.told.lists}, a)
      OBVIOUS
    <3>1. InSome(RuNets \cup running.seen.ips, a)
          <=> InSome(RuNets, a) \/ InSome(running.seen.ips, a)
      BY EitherSet
    <3>2. InSome(running.seen.ips, a) <=>
            \E ip \in NetsOf({running.told.lists}) :
              ip.len >= MinPrefix /\ SubSeq(ip.addr, 1, ip.len) = SubSeq(a, 1, ip.len)
      BY <1>1, NetsKept
    <3> QED
      BY <3>1, <3>2 DEF AddrListed
  <2> QED
    BY <2>1, <2>2
<1> QED
  BY <1>2, <1>3

LEMMA ResolvedThere == SettingsInv => ResolvedWhereRouted
<1> DEFINE ru == running.told.ru
<1> SUFFICES ASSUME SettingsInv, running # Nothing, running.bypass,
                    running.told.lists # Unknown, ru # Unknown, ru \notin Tunnelled,
                    NEW n \in Names
             PROVE  /\ AskedDirect(n) <=> Direct(ToName(n))
                    /\ AskedDirect(n) => ru \in Asked(Servers, n) /\ Direct(Query(ru))
  BY DEF ResolvedWhereRouted
<1>1. /\ running.seen.dnsRu = ru /\ running.seen.ru = ru /\ ru \in RuAddresses
      /\ running.seen.dnsDomains = running.seen.domains
  BY RunningSees
<1> HIDE DEF ru
<1>2. ru \in ResolverAddresses /\ ~InSome(LinkLocal, ru)
  BY <1>1, DestinationAssumption DEF RuAddresses, ResolverAddresses
<1>3. Direct(Query(ru)) /\ \A a \in Tunnelled : ~Direct(Query(a))
  BY <1>1, <1>2, RunningDecides DEF ResolverAddresses
<1>4. Direct(ToName(n)) <=> InSome(RuSites \cup running.seen.domains, n)
  BY RunningDecides
<1>5. Asked(Servers, n) =
        Tunnelled \cup (IF InSome(RuSites \cup running.seen.domains, n) THEN {ru} ELSE {})
  BY <1>1, RunningDecides
<1> QED
  BY <1>3, <1>4, <1>5 DEF AskedDirect

\* Whatever commands interleave or are killed, a name of no list is neither reached nor
\* asked for outside the tunnel, unless two commands have changed the lists at the same
\* time: then only what is below a piece of an entry they cut (config._routing,
\* config._dns, storage.write_text).
THEOREM StraysNever == Spec => []NeverStray
<1>1. SettingsInv /\ ApartInv /\ [Next]_vars => (SettingsInv /\ ApartInv)'
  BY NextSettings, NextApart
<1>2. Spec => [](SettingsInv /\ ApartInv)
  BY <1>1, InitSettings, InitApart, PTL DEF Spec
<1> QED
  BY <1>2, StrayNever, PTL

\* What the user last imported decides, and it alone, where a name or an address goes
\* (bypass.import_file, config._routing).
THEOREM RoutesAsAsked == Spec => []RoutedAsAsked
<1>1. Spec => []SettingsInv
  BY InitSettings, NextSettings, PTL DEF Spec
<1> QED
  BY <1>1, RoutedThen, PTL

\* The same names are resolved outside the tunnel that are reached outside it, at the
\* resolver the user chose (config._dns).
THEOREM ResolvesWhereRouted == Spec => []ResolvedWhereRouted
<1>1. Spec => []SettingsInv
  BY InitSettings, NextSettings, PTL DEF Spec
<1> QED
  BY <1>1, ResolvedThere, PTL
=============================================================================
