SPECIFICATION MCSpec
CONSTANTS
  c1 = c1
  c2 = c2
  Clients <- TwoClients
  Files <- GeoFiles
  NoOne = NoOne
  MultiSuffix <- PublicSuffixes
  MinPrefix = 2
  RuSites <- RuSite
  RuNets <- RuNet
  PrivateNets <- Private
  LinkLocal <- Link
  Tunnelled <- Cloudflare
  DnsRu <- Yandex
  Nothing = Nothing
  ImportFiles <- TwoLists
  DomainPieces <- Cuts
  NetPieces <- NetCuts
  Resolvers <- Chosen
  Absent = Absent
  Torn = Torn
  Unknown = Unknown
  Names <- SomeNames
  Addresses <- AllAddresses
INVARIANTS
  NeverStray
  RoutedAsAsked
  ResolvedWhereRouted
  AssetsWhole
PROPERTIES
  CommandsEnd
