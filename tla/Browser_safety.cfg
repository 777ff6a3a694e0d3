SPECIFICATION Spec
CONSTANTS
    Screen = {"channel", "compatibility", "account", "settings", "key", "models",
              "import", "dialogs", "creation", "logs", "session"}
    Res = {a, b}
    Field = {f1, f2}
    MaxRev = 2
    Gone = Gone
    Model = {a, b}
    View = {all, page1, page2}
    First = all
    Filtered = {page1, page2}
    MaxList = 1
    Candidate = {a, b}
    MaxImport = 2
    Key = {a, b}
    MaxCalls = 3
    MaxCreations = 3
    Log = {a, b}
    Tab = {a, b}
    MaxLogins = 2
    MaxPrelogins = 2
    MaxPending = 2
    None = None
SYMMETRY DataSymmetry
INVARIANTS BrowserTypeOK BatchAsChosen SecretForItsKey SecretsDropped BodyOnDemand
           WritesActAsShown SignedInCanWrite
PROPERTIES NoSilentOverwrite EditsKept ImportAsChosen
CHECK_DEADLOCK FALSE
