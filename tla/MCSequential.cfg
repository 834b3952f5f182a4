SPECIFICATION Spec
INVARIANTS
  
  FileToolsSound
  FormatSound
  CmdLineSound
  
  RepairSound
  
  
CHECK_DEADLOCK FALSE
