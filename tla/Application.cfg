\* Overlapping calls of Managers.Init; uploads and deletes with each provider;
\* decorated calls, the logger without and with its cache, and authorization.
SPECIFICATION ApplicationSpec
CONSTANTS
  Initializers = {1, 2, 3}
  Uploads = {u1, u2}
  OriginalName <- SameName
  Type <- JpegAndWebp
  Compressors <- ThreeCompressors
  Deletes = {d1, d2}
  LastMoment = 1
  Methods = {"method"}
  Calls = {1, 2, 3}
  MethodOf <- OneMethod
  IdOf <- TwoIds
  RandomOf <- Random
  Saving = {"method"}
  None = None
  Logs = {1, 2, 3}
  Clears = {1, 2}
  maxLogsInMemoryCache = 2
  saveOld = {TRUE, FALSE}
  Milliseconds = {1, 2}
  MaxFailures = 1
  Topics = {"webhooks", "media"}
  Actions = {"create", "edit"}
CHECK_DEADLOCK FALSE
INVARIANTS
  AssetsAreKept
  StartupIsSound
  CallsAreLogged
  LogsAreKept
  ExactlyCoveredCallsPass
PROPERTIES
  UploadsEnd
  FullCacheIsCommitted
