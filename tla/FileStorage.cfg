SPECIFICATION FilesSpec
CONSTANTS
    Users = {u1}
    Filenames = {"a b.txt", "a_b.txt", ".."}
    Clean <- MCClean
    Refused = {".."}
    FirstEndpoint = e1
    Endpoints = {e1, e2}
    EmptyContent = EmptyContent
    Deleters = {d1, d2}
    MaxUploads = 2
    MaxRows = 1
    MaxMillis = 1
CHECK_DEADLOCK FALSE
INVARIANTS
    RowShowsItsUpload
    DeleteLeavesNoObject
PROPERTIES
    DeleteSucceeds
