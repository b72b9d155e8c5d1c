--------------------------- MODULE MCConversation ---------------------------
\* One conversation and three overlapping calls: a question may be asked as an
\* arrival check, as something else, or with a payload of the other kind.
EXTENDS Conversation, TLC

CONSTANTS k1, c1, c2, c3, t1

MCTalk == {k1}
MCCall == {c1, c2, c3}

Check == [kind |-> "arrival_check", about |-> t1]
Draft == [kind |-> "request_draft", about |-> t1]

MCProposal ==
  {[state |-> "awaiting_arrival_confirmation", payload |-> Check],
   [state |-> "awaiting_arrival_confirmation", payload |-> Draft],
   [state |-> "awaiting_confirmation", payload |-> Check]}

Symmetric == Permutations(MCCall)
=============================================================================
