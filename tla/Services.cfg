\* The queue sources, the sinks, the HTTP layer, paging, watermarks and the model.
SPECIFICATION ServicesSpec
CONSTANTS
    Messages = {m1, m2}
    Brokers = {"sqs", "pubsub", "rabbitmq"}
    MaxRecords = 2
    Batch = 1
    Hold = 8
    Short = 2
    CallTime = 1
    MaxTrouble = 1
    RowCount = 4
    BatchLimit = 2
    Retries = 1
    PageSize = 2
    MaxPages = 5
    MaxChurn = 2
    Records = 3
    Places = 2
    Workers = {w1, w2}
    MaxRows = 4
    MaxCap = 1
    StartAt = 1
    Clients = {1, 2}
    Attempts = 2
    Backoff = 1
    MinInterval = 2
    MaxRetryAfter = 3
    Timeout = 1
    Margin = 8
    Lasts = 10
INVARIANTS
    DeletedWereDelivered QueueTells SinksTell LoadsTell PagesRead ModelAnswers
PROPERTIES
    CallsSignedIn WatermarkReads ServicesEnd
