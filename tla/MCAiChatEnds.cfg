SPECIFICATION FairSpec
CONSTANTS
  q1 = q1
  q2 = q2
  k1 = k1
  k2 = k2
  hello = hello
  more = more
  Requests <- MCRequests
  Keys <- MCKeys
  Texts <- MCTexts
  FirstText = hello
  MaxDisturbed = 0
  OwnerCalls <- MCOwnerCalls
CHECK_DEADLOCK FALSE
PROPERTIES
  RunsEnd
