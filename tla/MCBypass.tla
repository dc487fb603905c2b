------------------------------ MODULE MCBypass ------------------------------
(***************************************************************************)
(* A small instance of Bypass for TLC: addresses of three bits, names of   *)
(* up to three labels, a list to import.                                *)
(***************************************************************************)
EXTENDS BypassProps

CONSTANTS c1, c2

TwoClients == {c1, c2}
GeoFiles == <<"geosite.dat", "geoip.dat">>

PublicSuffixes == {<<"ru", "msk">>}
RuSite == {<<"ru", "site">>}
RuNet == {<<0, 1>>}
Private == {<<0, 0, 0>>}
Link == {<<0, 0, 1>>}
Yandex == <<0, 1, 0>>
Cloudflare == {<<1, 0, 0>>}

\* A site below its root, and a network.
List1 == {[host |-> <<"com", "shop", "www">>, ip |-> [addr |-> <<1, 1, 1>>, len |-> 2]]}
\* A bare suffix with a network that is too broad, and a site below the suffix.
List2 == {[host |-> <<"ru", "msk">>, ip |-> [addr |-> <<1, 0, 1>>, len |-> 1]],
          [host |-> <<"ru", "msk", "city">>, ip |-> Nothing]}
\* An IP literal as host name, an address.
List3 == {[host |-> <<>>, ip |-> [addr |-> <<1, 0, 1>>, len |-> 3]]}

TwoLists == {List1, List2 \cup List3}
Chosen == {<<1, 0, 1>>, <<1, 1, 1>>}

\* Without its head shop.com reads as hop.com or com, 16.0.0.0/8 as 6.0.0.0/8.
Cuts == {<<<<"com", "shop">>, <<"com", "hop">>>>, <<<<"com", "shop">>, <<"com">>>>,
         <<<<"com", "hop">>, <<"com">>>>}
NetCuts == {<<<<1, 1>>, <<1, 0>>>>}

SomeNames == {<<"com", "shop">>, <<"com", "shop", "m">>, <<"com", "other">>,
              <<"com", "hop", "www">>, <<"ru", "site", "www">>, <<"ru", "msk", "city", "m">>, <<"ru", "msk", "town">>}
\* The bound: one of the geo data, the lists and the resolver changes at a time, which
\* share only that up reads one after the other, and two ups run at once only with the
\* lists and the resolver as they were installed.
GeoAsIs == target = [f \in 1..Len(Files) |-> NoFile] /\ part = target /\ system
SeenNow == {cmd[c].seen : c \in Clients} \cup (IF running = Nothing THEN {} ELSE {running.seen})
ListsAsIs ==
  /\ domains = {} /\ ips = {} /\ asked.lists = {} /\ apart
  /\ \A s \in SeenNow : s.dnsDomains \cup s.domains = {} /\ s.ips = {}
ResolverAsIs ==
  /\ ruFile = Absent /\ asked.ru = DnsRu
  /\ \A s \in SeenNow : s.dnsRu = DnsRu /\ s.ru = DnsRu

OneAtATime ==
  \/ ListsAsIs /\ ResolverAsIs
  \/ GeoAsIs /\ (ListsAsIs \/ ResolverAsIs) /\ \E c \in Clients : cmd[c].op # "up"

MCSpec == Init /\ [][Next /\ OneAtATime']_vars /\ Fairness

AllAddresses == [1..3 -> {0, 1}]
=============================================================================
