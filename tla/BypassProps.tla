---------------------------- MODULE BypassProps ----------------------------
(***************************************************************************)
(* What leaves outside the tunnel, and what does not.                      *)
(***************************************************************************)
EXTENDS Bypass

CONSTANTS
  Names, Addresses   \* destinations to look at

\* Two names of one registrable domain: they share more than a public suffix.
SameSite(m, n) ==
  \E k \in 2..Len(m) : k <= Len(n) /\ SubSeq(m, 1, k) = SubSeq(n, 1, k)
                       /\ SubSeq(m, 1, k) \notin MultiSuffix

Hosts(files) == UNION {{e.host : e \in file} : file \in files}
NetsOf(files) == UNION {{e.ip : e \in file} \ {Nothing} : file \in files}

\* Names are sequences of labels, addresses of one family sequences of as many bits.
\* ru-dns accepts IPv4 addresses, and the link-local network is one of IPv6.
ResolverAddresses == Resolvers \cup Tunnelled \cup {DnsRu}
ASSUME DestinationAssumption ==
  /\ Nothing \notin Seq(STRING) \cup Seq({0, 1})
  /\ Hosts(ImportFiles) \cup Names \subseteq Seq(STRING)
  /\ \A ip \in NetsOf(ImportFiles) :
       /\ ip.addr \in Seq({0, 1}) /\ ip.len \in 0..Len(ip.addr)
       /\ \A a \in Addresses : Len(a) = Len(ip.addr)
  /\ Addresses \cup ResolverAddresses \subseteq Seq({0, 1})
  /\ \A a, b \in ResolverAddresses : Len(a) = Len(b)
  /\ \A a \in Resolvers \cup {DnsRu} : ~InSome(LinkLocal, a)

\* The names and addresses that a set of imported files sends direct.
NameListed(files, n) ==
  InSome(RuSites, n) \/ \E h \in Hosts(files) : SameSite(h, n)
AddrListed(files, a) ==
  \/ InSome(RuNets, a)
  \/ \E ip \in NetsOf(files) : ip.len >= MinPrefix /\ SubSeq(ip.addr, 1, ip.len) = SubSeq(a, 1, ip.len)

\* What the running xray does.
Active == Routing(running.bypass, TRUE, TRUE, running.seen)
Servers == Dns(running.bypass, TRUE, running.seen)
Direct(dst) == Outbound(Active, dst) = "direct"
AskedDirect(n) == \E a \in Asked(Servers, n) : Direct(Query(a))

\* A name below what is left of an entry that two overlapping imports have cut.
BelowPiece(list, n) ==
  \E p \in list : IsPrefix(p, n) /\ \E file \in ImportFiles :
    \E e \in Domains(file) : <<e, p>> \in DomainPieces

\* As long as no two commands change the lists at the same time, a name that no list ever
\* had is neither reached nor asked for outside the tunnel, wherever a command is killed
\* and however up and ups interleave with the writing of the files, provided that ru-dns
\* is none of the tunnelled resolvers (config.py:11: "Must be a DISTINCT IP").  Two that
\* overlap can cut an entry (storage.write_text), and only what is below such a piece
\* may then stray.
NeverStray ==
  running # Nothing =>
    \A n \in Names : ~NameListed(ImportFiles, n) =>
      /\ Direct(ToName(n)) => ~apart /\ BelowPiece(running.seen.domains, n)
      /\ AskedDirect(n) /\ running.seen.ru \notin Tunnelled =>
           ~apart /\ BelowPiece(running.seen.dnsDomains, n)

\* If no list changed while up read them, exactly the sites and networks of the last
\* import go direct, and nothing does without bypass except private addresses.
RoutedAsAsked ==
  running # Nothing /\ (running.bypass => running.told.lists # Unknown) =>
    /\ \A n \in Names :
         Direct(ToName(n)) <=> running.bypass /\ NameListed({running.told.lists}, n)
    /\ \A a \in Addresses : ~InSome(LinkLocal, a) =>
         (Direct(ToAddr(a)) <=>
            \/ InSome(PrivateNets, a)
            \/ running.bypass /\ AddrListed({running.told.lists}, a))

\* If no setting changed while up read it twice, a name is asked for directly, at
\* the resolver the user chose, if and only if it is reached directly (_dns, _routing).
ResolvedWhereRouted ==
  running # Nothing /\ running.bypass /\ Unknown \notin {running.told.lists, running.told.ru}
    /\ running.told.ru \notin Tunnelled =>
    \A n \in Names :
      /\ AskedDirect(n) <=> Direct(ToName(n))
      /\ AskedDirect(n) => running.told.ru \in Asked(Servers, n)
                           /\ Direct(Query(running.told.ru))

\* As long as downloads did not overlap, and none was cut short unnoticed, a geo file
\* that is there is whole, whoever was killed when (ensure: .part, then rename).
AssetsWhole ==
  calm => \A f \in 1..Len(Files) : target[f].has # "partial"

\* Every command ends, although the server of the geo files may hang (geo.py:54).
CommandsEnd == \A c \in Clients : cmd[c] # None ~> cmd[c] = None
=============================================================================
