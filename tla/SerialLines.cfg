\* A ring of three bytes: an answer fits while a key waits, and a packet and a key
\* leave no room for another packet.
SPECIFICATION FairSpec
CONSTANTS
  Width = 2
  RingSize = 3
  Lengths = {2}
  Replies = {2}
  Delays = {0, 1}
  Controls = {"both"}
INVARIANTS TypeOK IrqFollows NoSilentLoss PacketsWhole
PROPERTIES DeliversBytes ImplementsLink KeepsSending
