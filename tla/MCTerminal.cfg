SPECIFICATION FairAllSpec
CONSTANTS
  Clients = {c1, c2, c3}
  Max = 2
  MaxInputs = 2
  StuckOnes = {c1}
  Urls = 2
  Kinds = {"text", "detach", "next"}
  Frames = {"connected", "replaced", "error"}
  Codes = {1000, 4410, 1006}
  MaxKeys = 2
  MaxFrames = 1
  MaxResizes = 1
CHECK_DEADLOCK FALSE
INVARIANTS AttachmentsConsistent KeysConsistent
PROPERTIES AttachmentsProceed
