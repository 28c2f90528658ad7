SPECIFICATION FairSpec
CONSTANTS
  Mask = 3
  Word = 8
  MaxKey = 5
  MaxPacket = 5
INVARIANTS WakeupNotLost
PROPERTIES CollectedOnce MailboxesEmptied
