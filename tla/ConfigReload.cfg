SPECIFICATION FairHandleSpec
CONSTANTS
  Versions     <- VersionsDef
  Unloadable   <- FailsToLoad
  Unbuildable  <- FailsToBuild
  Unredactable = {}
  MaxReloads   = 2
  File         <- FileDef
  Env          <- EnvDef
  SocketHosts  <- SocketHostsDef
  HttpUrls     <- HttpUrlsDef
  GrpcUrls     <- GrpcUrlsDef
  Paths        <- PathsDef
  ModelFiles   <- ModelFilesDef
  RuleFiles    <- RuleFilesDef
  BundledRules <- BundledRulesDef
  Comments     <- CommentsDef
  BadRules     <- BadRulesDef
  SlowRules    <- SlowRulesDef
  Cpus = 4
  HeaderValues <- HeaderValuesDef
  Probes       <- ProbesDef
  PiiWords     <- PiiWordsDef
  Leftovers    <- Nothing
  LuhnInvalid  = {}
  Harmful      <- HarmfulDef
  LongWords    = {}
  LongWordBytes = 1
  WindowTokens  = 2
  WindowStride  = 1
  BytesPerToken = 1
INVARIANTS OnlyUsableInUse CellsInStep PoliciesMeant StagesMeant CallersServed
PROPERTIES SighupServed
