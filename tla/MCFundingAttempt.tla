---------------------------- MODULE MCFundingAttempt ----------------------------
EXTENDS FundingAttempt
=============================================================================
