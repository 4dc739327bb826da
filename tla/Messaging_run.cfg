\* Two clients that may be killed, a server that crashes, exits, restarts, gives up.
CONSTANTS
  c1 = c1
  c2 = c2
  Clients <- TwoClients
  MaxMessages = 2
  MaxAsked = 2
  MaxQueues = 3
  Long <- SomeLong
  Faults <- AllFaults
SPECIFICATION FairSpec
INVARIANTS IInv OutstandingBounded
PROPERTIES OwnAnswer 
CHECK_DEADLOCK FALSE
