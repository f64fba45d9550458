SPECIFICATION Spec
CONSTANTS
    Clients = {c1, c2}
    Filenames = {f1}
    UploadIds = {u1, u2}
    NoUpload = NoUpload
    MAX_FILE_SIZE = 3
    chunk_size = 2
    upload_mode = "STRICT"
    MaxCalls = 3
INVARIANTS
    UploadIntact
    NeverRefused
CHECK_DEADLOCK FALSE
SYMMETRY Symmetry
