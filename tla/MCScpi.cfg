SPECIFICATION Spec
CONSTANTS
    Setting = {"SSID", "SYSNAME", "COUNTRY", "ECHO", "LED", "PORT", "MASK",
               "LOG", "TLS", "DEBUG", "EVERY", "IP"}
    KindOf <- KindOfC
    Output = {1, 2}
    Sensor = {1}
    Key = {"k1", "k2"}
    Net = {"n1"}
    Bits = 4
    MaxKeys = 2
    MaxAcl = 2
    MaxSources = 2
    MaxChanges = 3
INVARIANTS TypeOK ParentNamed SaveLosesNothing FailedChangesNothing
PROPERTIES OnlyNamedOutput
