SPECIFICATION QueueSpec
CONSTANTS
  app = app
  worker = worker
  loop = loop
  m1 = m1
  m2 = m2
  NoThread = NoThread
  NoMsg = NoMsg
  Threads <- MCThreads
  Consumer = loop
  Msgs <- MCMsgs
  MaxPending = 4
INVARIANTS QueueTypeOK LockDiscipline
PROPERTIES FifoSpec
