CONSTANTS
  alice = alice
  bob = bob
  shop = shop
  Key = {alice, bob}
  Address = {alice, bob, shop}
  Program = {"client", "clientui"}
  Allotment <- MCAllotment
  Amount = {1, 2}
  MaxTx = 3
SPECIFICATION FairSpec
INVARIANTS WalletReplays PaysWhenFunded ConflictsGivenUp
PROPERTIES SetPays AnsweredIsApplied
CHECK_DEADLOCK FALSE
