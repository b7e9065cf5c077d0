---------------------------- MODULE MCAiChatRuns ----------------------------
(***************************************************************************)
(* Model values for AiChatRuns: two requests of one conversation.          *)
(***************************************************************************)
EXTENDS AiChatRuns, TLC

CONSTANTS q1, q2, k1, k2, hello, more

MCRequests == {q1, q2}
MCKeys == {k1, k2}
MCTexts == {more}
MCSymmetry == Permutations(MCRequests) \cup Permutations(MCKeys)
MCNoOwnerCalls == {}
MCArchive == {"archive"}
MCOwnerCalls == {"archive", "delete"}
=============================================================================
