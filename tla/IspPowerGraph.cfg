CONSTANTS
  h1 = h1
  h2 = h2
  Handles = {h1, h2}
  Inputs = {"prev_in"}
  Outputs = {"ccdc_out", "res_out"}
  Subdevs = {"soc1040", "ov7670", "csi2a", "ccdc", "prev", "res"}
  Sensors = {"soc1040", "ov7670"}
  MayFail = {"soc1040", "ov7670"}
  Links <- BoardLinks
  Immutable <- SensorLink
  InputExclusive = {"ccdc"}
  OutputExclusive = {"csi2a", "ccdc", "prev"}
  MaxDepth = 16
  None = None
SPECIFICATION Spec
SYMMETRY HandleSymmetry
INVARIANTS
  UseCountExact
  PoweredIffUsed
  ClocksCounted
  StreamCountExact
  OneOutputPerPipeline
  ResetBeforeReuse
