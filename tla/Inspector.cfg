SPECIFICATION FairSpec
INVARIANTS ReceiverArmed
PROPERTIES LossNoticed Recovers AlertFollows
