SPECIFICATION Spec
\* An exchange ends with its reply.
CHECK_DEADLOCK FALSE
CONSTANTS
  Clients      <- ClientsDef
  Answers      <- AnswersDef
  File         <- FileDef
  Env          <- EnvDef
  SocketHosts  <- SocketHostsDef
  HttpUrls     <- HttpUrlsDef
  GrpcUrls     = {}
  Paths        <- ModelFilesDef
  ModelFiles   <- ModelFilesDef
  RuleFiles    <- RuleFilesDef
  BundledRules <- BundledRulesDef
  Comments     <- CommentsDef
  BadRules     = {}
  SlowRules    = {}
  Cpus         = 4
  HeaderValues = {"k1"}
  PiiWords     <- PiiWordsDef
  Leftovers    <- LeftoversDef
  LuhnInvalid  = {"4112"}
  Harmful      <- HarmfulDef
  LongWords    = {"blob"}
  LongWordBytes = 8
  WindowTokens  = 3
  WindowStride  = 1
  BytesPerToken = 2
INVARIANTS ScreenedInFull RedactionsOnly NoHarmForwarded HeadersClean ResponseClean
