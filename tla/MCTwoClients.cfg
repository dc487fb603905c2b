SPECIFICATION Spec
CONSTANTS
  u1 = u1
  u2 = u2
  c1 = c1
  c2 = c2
  Clients <- TwoClients
  Urls <- MCUrls
  AddBases <- ByHand
  Manual = Manual
  Torn = Torn
  NoName = NoName
  Blank = Blank
  MaxIndex = 2
  MaxCopy = 2
  MaxLinks = 1
  MaxCrashes = 0
PROPERTIES NeverOverwritten
