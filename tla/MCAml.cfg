SPECIFICATION AmlSpec
CONSTANTS
  Lookup <- McLookup
  DescendingCallback <- McDescending
  AscendingCallback <- McAscending
  WordBytes = 2
  IntegerBytes = 1
  LocalsPerMethod = 3
  Names <- McNames
  Params <- McParams
  RootNode <- McRootNode
  MaxLoopTurns = 3
  CaVersion = 33
  OsName <- McOsName
  Cases <- McCases
  FieldDecl <- MCFieldDecl
  BufferDecl <- MCBufferDecl
  FieldSource <- MCFieldSource
  PlainImage <- MCPlainImage
  BufferBytes = 16
  IntegerByteWidth = 8
  MaxFieldNames = 2
  MaxFieldOps = 2
  Gbl_GetResourceDispatch <- GetResourceDispatch
  Gbl_SetResourceDispatch <- SetResourceDispatch
  Templates <- MCTemplates
  RoutingTables <- MCRoutingTables
  VendorLengths = {0, 1, 2, 6, 8, 9}
INVARIANTS
  MethodsSound
  ValuesSound
  
  FieldsExact
  ConversionFits
 
CHECK_DEADLOCK FALSE
