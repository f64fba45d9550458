SPECIFICATION PeersSpec
CONSTANTS
    Filenames = {f1, f2}
    UploadIds = {u1, u2, u3}
    MAX_FILE_SIZE = 7
    chunk_size = 2
    upload_mode = "BUFFERABLE"
INVARIANTS
    SessionTypeOK
    PrefixOnDisk
    BufferAhead
    CompleteIsWhole
CHECK_DEADLOCK FALSE
