------------------------------- MODULE Rules -------------------------------
(***************************************************************************)
(* The xray configuration as a decision: what bypass.py keeps of an         *)
(* imported list, the routing rules and the resolver that config.build     *)
(* makes of it, and what xray (external) does with them.                   *)
(*                                                                         *)
(* Abstraction: a host name is the sequence of its labels from the top     *)
(* level down, an address a sequence of bits, a network the prefix it      *)
(* stands for, so that both "below a domain" and "inside a network" are    *)
(* IsPrefix.  One address family; the other has its own MinPrefix.         *)
(***************************************************************************)
EXTENDS Integers, Sequences, SequencesExt

CONSTANTS
  MultiSuffix,   \* _MULTI_SUFFIX: public suffixes of two labels
  MinPrefix,     \* the shortest prefix filter_ip accepts
  RuSites, RuNets, PrivateNets, LinkLocal,  \* what the geo files and fe80::/10 contain
  Tunnelled,     \* 1.1.1.1 and 8.8.8.8
  DnsRu,         \* DNS_RU
  Nothing        \* no domain, no network, no name

ASSUME RulesAssumption ==
  /\ \A s \in MultiSuffix : Len(s) = 2
  /\ MinPrefix \in Nat /\ DnsRu \notin Tunnelled

-----------------------------------------------------------------------------
\* bypass.py.  A host that is no domain name (an IP literal, a bad character) is <<>>.

\* Mutant: a bare public suffix is kept like any other pair of labels.
RootOfTwo(host) == IF Len(host) < 2 THEN Nothing ELSE SubSeq(host, 1, 2)

RootDomain(host) ==
  CASE Len(host) < 2 -> Nothing
    [] Len(host) >= 2 /\ SubSeq(host, 1, 2) \notin MultiSuffix -> SubSeq(host, 1, 2)
    [] host \in MultiSuffix -> Nothing
    [] OTHER -> SubSeq(host, 1, 3)

\* ip is Nothing (missing, invalid) or an address with a prefix length; strict=False.
FilterIp(ip) ==
  IF ip = Nothing THEN Nothing
  ELSE IF ip.len < MinPrefix THEN Nothing ELSE SubSeq(ip.addr, 1, ip.len)

\* What import_file saves of a file, a set of {hostname, ip} entries.
Domains(file) == {RootDomain(e.host) : e \in file} \ {Nothing}
Nets(file) == {FilterIp(e.ip) : e \in file} \ {Nothing}

-----------------------------------------------------------------------------
\* config.py.  "seen" is what one build read from the settings:
\* [dnsDomains, dnsRu, ru, domains, ips], in the order of the reads.

Inbounds == {"api-in", "socks-in", "dns-in"}

\* A rule: the inbounds and ports it is for, and a condition on the destination.
Rule(from, ports, by, set, out) ==
  [from |-> from, ports |-> ports, by |-> by, set |-> set, out |-> out]

AnyPort == {"53", "5355", "other"}

When(cond, rules) == IF cond THEN rules ELSE <<>>

\* Mutant: the rule of the tunnelled resolvers stands before the RU resolver's.
ResolversSwapped(bypass, tunnel, ru) ==
  When(tunnel, <<Rule({"dns-in"}, AnyPort, "any", {}, "proxy")>>)
  \o When(tunnel /\ bypass, <<Rule({"dns-in"}, AnyPort, "ip", {ru}, "direct")>>)

ResolverRules(bypass, tunnel, ru) ==
  When(tunnel /\ bypass, <<Rule({"dns-in"}, AnyPort, "ip", {ru}, "direct")>>)
  \o When(tunnel, <<Rule({"dns-in"}, AnyPort, "any", {}, "proxy")>>)

Routing(bypass, geo, tunnel, seen) ==
  << Rule({"api-in"}, AnyPort, "any", {}, "api"),
     Rule({"socks-in"}, {"53"}, "any", {}, "dns-out"),
     Rule(Inbounds, {"5355"}, "any", {}, "block"),
     Rule(Inbounds, AnyPort, "ip", LinkLocal, "block") >>
  \o ResolverRules(bypass, tunnel, seen.ru)
  \o When(geo, <<Rule(Inbounds, AnyPort, "ip", PrivateNets, "direct")>>)
  \o When(bypass, << Rule(Inbounds, AnyPort, "domain", RuSites \cup seen.domains, "direct"),
                     Rule(Inbounds, AnyPort, "ip", RuNets \cup seen.ips, "direct") >>)
  \o << Rule(Inbounds, AnyPort, "any", {}, "proxy") >>

\* Mutant: the RU server also answers for the names of no other server.
DnsFallback(bypass, tunnel, seen) ==
  When(tunnel /\ bypass,
       <<[at |-> {seen.dnsRu}, for |-> RuSites \cup seen.dnsDomains, skip |-> FALSE]>>)
  \o <<[at |-> Tunnelled, for |-> {}, skip |-> FALSE]>>

\* The upstream servers: their addresses, the domains they are first asked for,
\* and skipFallback.
Dns(bypass, tunnel, seen) ==
  When(tunnel /\ bypass,
       <<[at |-> {seen.dnsRu}, for |-> RuSites \cup seen.dnsDomains, skip |-> TRUE]>>)
  \o <<[at |-> Tunnelled, for |-> {}, skip |-> FALSE]>>

-----------------------------------------------------------------------------
\* xray: the first rule that matches decides.  A destination is a name or, where
\* nothing was sniffed, an address.  With IPIfNonMatch the address of a name is
\* looked up only if no rule matched, and the last rule always does.

InSome(set, x) == \E p \in set : IsPrefix(p, x)

Matches(rule, dst) ==
  /\ dst.from \in rule.from /\ dst.port \in rule.ports
  /\ CASE rule.by = "any" -> TRUE
       [] rule.by = "ip" -> dst.name = Nothing /\ InSome(rule.set, dst.addr)
       [] rule.by = "domain" -> dst.name # Nothing /\ InSome(rule.set, dst.name)

Outbound(rules, dst) == rules[SelectInSeq(rules, LAMBDA r : Matches(r, dst))].out

ToName(name) == [from |-> "socks-in", port |-> "other", name |-> name, addr |-> Nothing]
ToAddr(addr) == [from |-> "socks-in", port |-> "other", name |-> Nothing, addr |-> addr]
Query(addr) == [from |-> "dns-in", port |-> "53", name |-> Nothing, addr |-> addr]

\* The addresses the resolver may ask about a name: the servers that are for it,
\* and if they fail those that do not skip the fallback.
Asked(servers, name) ==
  UNION {servers[k].at : k \in {j \in 1..Len(servers) :
                                  InSome(servers[j].for, name) \/ ~servers[j].skip}}
=============================================================================
