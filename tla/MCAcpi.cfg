SPECIFICATION Spec
CONSTANTS
  t1 = t1
  t2 = t2
  i1 = i1
  i2 = i2
  i3 = i3
  None = None
  NumMasks = 2
  MaskWidth = 2
  TbThread = {1, 2}
  Client = {1, 2}
  Unloader = {1}
  Firmware = 2
  DataTables = {2}
  Contents = {3}
  LoadKinds = {"AcpiLoadTable", "Load", "LoadTable"}
  FailKinds = {"boot", "AcpiLoadTable", "LoadTable"}
  MaxLoads = 1
  MaxUnloads = 1
  Validations = 3
  MaxPtr = 4
SYMMETRY Symmetry
INVARIANTS
  ExecSound
  TablesSound
  WalksSound
  RegionsSound
  RegistersExact
  GpeBlocksSound
CHECK_DEADLOCK FALSE
