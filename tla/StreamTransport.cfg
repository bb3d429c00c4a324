SPECIFICATION FairSpec
CONSTANT MaxEvents = 7
INVARIANTS TypeOK YieldedInOrder DoneIsComplete NoLostWakeup MailboxInv
PROPERTY StreamEnds
CHECK_DEADLOCK FALSE
