\* Expected violation: an epoch prepared after a downgrade gets no key package.
SPECIFICATION Spec
CONSTANTS
  Tids = {0, 1, 2}
  Versions = {0, 1}
  Wait = 2
  NoManager = NoManager
  NoTimer = NoTimer
  NotPending = NotPending
  MaxOps = 3
INVARIANTS EpochGetsKeyPackage
