\* One thread of each kind; liveness, so no symmetry.
SPECIFICATION FairSpec
CONSTANTS
  Uploader = {u1}
  Reader = {r1}
  Dpc = {d1}
  Buf = {b1, b2, b3, b4}
  Frame = {f1}
  Allocations <- OneAllocation
  NoBuf = NoBuf
  Freed = Freed
  Blank = Blank
  Torn = Torn
  Placeholder = Placeholder
INVARIANTS
  NoUseAfterFree
  NoInterruptAfterStop
PROPERTIES
  MailboxImplemented
  WaitsEnd
