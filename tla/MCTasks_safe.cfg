CONSTANTS
  GC = GC
  Deferred = Deferred
  Blink = Blink
  PCLink = PCLink
  NIL = NIL
  User <- Users
  Period <- Periodic
  MayInstall <- Install_PCLink
  MayRemove <- Remove_Self
  BasicCycle = 1
  IntMax = 7
  Start = 0
  MaxTicks = 2
  MaxEvents = 2
  MaxFaults = 2
  MaxOps = 2
SPECIFICATION FairSpec
INVARIANTS
  RingSound
PROPERTIES
  SchedulerSpec
  Served
  Reported
