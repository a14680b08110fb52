SPECIFICATION FairSpec
CONSTANTS
  StaTimeout = 2
  RetryInterval = 1
  ForgetDelay = 1
  RebootDelay = 1
  Off = Off
  NoDraft = NoDraft
  Names = {old, new}
  Keys = {k1, k2}
INVARIANTS Inv NextBootIsThisOne
PROPERTIES Reconnects ForgetOpensPortal
