SPECIFICATION Spec
CONSTANTS
  q1 = q1
  q2 = q2
  k1 = k1
  k2 = k2
  hello = hello
  more = more
  Requests <- MCRequests
  Keys <- MCKeys
  Texts <- MCTexts
  FirstText = hello
  MaxDisturbed = 1
  OwnerCalls <- MCOwnerCalls
SYMMETRY MCSymmetry
INVARIANTS
  TypeOK
  OneActiveRun
  CompletedIffReported
  MessagesInOrder
  UserMessageOnce
  NoStuckStatus
PROPERTIES
  EndIsFinal
CHECK_DEADLOCK FALSE
