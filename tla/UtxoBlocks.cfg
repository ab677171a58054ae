CONSTANTS
  t1 = t1  t2 = t2  t3 = t3  t4 = t4  t5 = t5
  Tx = {t1, t2, t3, t4, t5}
  Utxo <- MCUtxo
  Initial <- MCInitial
  Inputs <- MCInputs
  Outputs <- MCOutputs
  Listing <- MCListing
  Block <- MCBlock
  NoStamp = "bare"
SPECIFICATION Spec
INVARIANTS FailsOnOverlap ListsCreated LostByTwice
CHECK_DEADLOCK FALSE
