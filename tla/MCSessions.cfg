\* One browser with two requests at once, three tokens, one change of password,
\* one fault.  No deadlock check: nothing happens once the account is deleted
\* and the tokens of the bound are issued.
SPECIFICATION FairSpec
CONSTANTS
  Browsers = {b1}
  Calls = {c1, c2}
  MaxRequests = 3
  MaxTokens = 3
  MaxPasswords = 1
  MaxFaults = 1
INVARIANTS SessionsInv StoredTokenUsable
PROPERTIES  CallsEnd
CHECK_DEADLOCK FALSE
