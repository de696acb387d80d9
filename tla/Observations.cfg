SPECIFICATION MCSpec
CONSTANTS
  o1 = o1  o2 = o2  u1 = u1  u2 = u2  f1 = f1  f2 = f2
  Obs = {o1, o2}
  Uploads = {u1, u2}
  Prints = {f1, f2}
  NoPrint = NoPrint
  Worker = Worker
  NoOne = NoOne
  MaxDaily = 1
  MaxDay = 2
  MaxAccount = 2
  MaxFaults = 1
INVARIANTS MediaSafe QuotaExact ReadsHonest
PROPERTIES AcceptedUnderItsCredential ImplementsReceiver NothingLeftBehind
