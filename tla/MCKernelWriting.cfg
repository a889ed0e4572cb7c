SPECIFICATION FRSpec
CONSTANTS
  c1 = c1
  c2 = c2
  Cpus <- TwoCpus
  None = None
  Stubborn <- OneStubborn
  Texts <- SomeTexts
  Calls <- SomeCalls
INVARIANTS RegistersRestored WriterPrepared ReplacedAsAsked
PROPERTY LockReleased
