SPECIFICATION Spec
CONSTANTS
    Units = 3
    Kinds = {"deploy", "retry"}
    Clients = {{"pool"}, {"loop"}}
    MaxReady = 3
INVARIANTS PauseAgrees CancelStopsNewUnits
PROPERTIES EventuallyEnds KeepsLifecycle
