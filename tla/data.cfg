\* Telemetry to the viewers, the Grafana datasource and the log sync pages.
SPECIFICATION DataSpec
CONSTANTS
    Scenes = {"config", "stream", "stale", "status", "absent", "wire", "own", "query", "jobs", "settle", "page", "notes", "shared", "files"}
    Used = {"securityProtocol", "saslMechanisms", "saslUsername", "saslPassword",
            "tlsAuthWithCACert", "tlsAuth", "tlsCACert", "tlsClientCert", "tlsClientKey",
            "bootstrapServers", "clientId", "logLevel", "serverName", "tlsSkipVerify",
            "schemaRegistryUrl", "schemaRegistryUsername", "schemaRegistryPassword",
            "timeout", "flattenMaxDepth"}
    Numbers = {0, 25, 70}
    MaxEdits = 3
    None = None
    PanelTopics = {"a", "b"}
    PanelControls = {"topic", "partition", "format", "key", "offset", "stamp", "fields",
                     "filters", "alias", "rate", "buffer", "schema", "upload", "close"}
    PanelEdits = 3
INVARIANTS
    WireKeeps
    GrafanaSound
PROPERTIES
    FeedsTrue
    SavedAsEntered
    JobsSound
    LogPagesTrue
    DataSettles
CHECK_DEADLOCK FALSE
