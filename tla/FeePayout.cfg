SPECIFICATION Spec
CONSTANTS
  gov = gov  relayer = relayer  installer = installer  fees = fees  other = other  minter = minter  anon = anon
  Principals <- AllPrincipals
  Governance = gov  Relayer = relayer  Installer = installer  FirstRecipient = fees  Anonymous = anon  Minter = minter
  Amounts = {1, 2}
  LedgerFee = 1
  FeeAmounts = {2}
  MaxEarned = 4
  MaxPayouts = 2
  Pages = 1
INVARIANTS PayoutsWithinEarnedFees RecordedOutcomeIsTrue UnpaidFeesBelongToRecipient
CHECK_DEADLOCK FALSE
