CONSTANTS
    Hosts <- MCHosts
    Servers <- MCServers
    Agents <- MCAgents
    KeyFile <- MCKeyFile
    MaxAuthTries = 3
    MaxAttempts = 2
SPECIFICATION Spec
INVARIANTS ViableWins ClearedNotReused FormsTellTrue
PROPERTIES TriesNotSquandered
