SPECIFICATION Spec
CONSTANTS
  Threads <- Three
  Idle = "idle"
  Lists <- AllLists
  Flag <- Flags
  Lowest = 1
  InitPrio <- Prio
  Startup <- Order
  TickMod = 7
  SemList = "sem"
  Units = 1
  Mutexes = {"outer", "inner"}
  MaxHold = 2
  EvList = "event"
  Events = {"x", "y"}
  RecvList = "recv"
  SendList = "send"
  MbSize = 2
  Mails = {"a", "b"}
  FirstMail = "a"
  MqList = "queue"
  Slots <- TwoSlots
  Messages = {"a", "b"}
  FirstMessage = "a"
  PoolList = "pool"
  Blocks <- TwoSlots
  Jobs <- TwoWriters
INVARIANTS
  AllocReturnsBlock
