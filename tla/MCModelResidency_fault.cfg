SPECIFICATION Spec
CONSTANTS
  Digests = {"d1", "d2"}
  Device = "cuda:0"
  EncoderDevices = {"cuda:0"}
  Capacity = 1
  MaxStranded = 1
  Mappings <- Configurations
  ModelFile = "model"
  Datasets = {"images", "images2"}
  Links = {"latest"}
  OtherPaths = {"cache"}
  NoConfig = NoConfig
INVARIANTS
  NoHotModel
