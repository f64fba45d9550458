--------------------------- MODULE UploadSession ----------------------------
(***************************************************************************)
(* UploadSessionManager of server/agent/upload_session.py and the handlers *)
(* of handlers/put.py that drive it, with the files they write.            *)
(*                                                                         *)
(* The bytes of an upload are told apart by the upload they belong to and  *)
(* their offset, so a chunk is given by its upload, offset and length.     *)
(* cleanup_expired_sessions is never called: a session ends only when its  *)
(* last byte has been written.                                             *)
(***************************************************************************)
EXTENDS Integers, Sequences, Functions, FiniteSetsExt

CONSTANTS
    Filenames,
    UploadIds,       \* uuid4: never used twice
    MAX_FILE_SIZE,
    chunk_size,      \* of the client: 8192
    upload_mode      \* "STRICT" (the server's choice) or "BUFFERABLE"

ASSUME SizeAssumption == MAX_FILE_SIZE \in Nat
ASSUME ChunkSizeAssumption == chunk_size \in Nat \ {0}
ASSUME ModeAssumption == upload_mode \in {"STRICT", "BUFFERABLE"}

VARIABLES
    sessions,   \* upload id -> open session
    files,      \* file name -> sequence of bytes
    used        \* upload ids given out so far

sessionVars == <<sessions, files, used>>

SessionInit == sessions = <<>> /\ files = <<>> /\ used = {}

\* The byte in a gap between the end of a file and a write beyond it.
Zero == <<"zero">>

\* The file when bytes of upload u were written at these offsets.
Written(file, u, offsets) ==
    [i \in 1..Max({Len(file)} \cup {o + 1 : o \in offsets}) |->
        IF i - 1 \in offsets THEN <<u, i - 1>>
        ELSE IF i \in 1..Len(file) THEN file[i]
        ELSE Zero]

-----------------------------------------------------------------------------
(***************************************************************************)
(* handle_put_meta                                                         *)
(***************************************************************************)

\* Mutant: the declared size is not checked.
MetaRefusedAnySize(filename, total_size, overwrite) ==
    filename \in DOMAIN files /\ ~ overwrite

MetaRefused(filename, total_size, overwrite) ==
    \/ total_size > MAX_FILE_SIZE
    \/ filename \in DOMAIN files /\ ~ overwrite

RefuseMeta(filename, total_size, overwrite) ==
    /\ MetaRefused(filename, total_size, overwrite)
    /\ UNCHANGED sessionVars

\* Mutant: an old file is not truncated.
EmptiedKept(filename) ==
    [f \in DOMAIN files \cup {filename} |->
        IF f \in DOMAIN files THEN files[f] ELSE <<>>]

Emptied(filename) ==
    [f \in DOMAIN files \cup {filename} |->
        IF f = filename THEN <<>> ELSE files[f]]

\* The file is created or truncated, then the session is opened as u.
CreateSession(u, filename, total_size, overwrite) ==
    /\ ~ MetaRefused(filename, total_size, overwrite)
    /\ u \in UploadIds \ used
    /\ used' = used \cup {u}
    /\ files' = Emptied(filename)
    /\ sessions' =
         [s \in DOMAIN sessions \cup {u} |->
             IF s = u
             THEN [filename |-> filename, total_size |-> total_size,
                   next_expected_offset |-> 0, buffered_chunks |-> <<>>]
             ELSE sessions[s]]

\* Creating or truncating the file raises, before or after it is emptied: no
\* session is opened.
FailMeta(filename, total_size, overwrite) ==
    /\ ~ MetaRefused(filename, total_size, overwrite)
    /\ files' \in {files, Emptied(filename)}
    /\ UNCHANGED <<sessions, used>>

-----------------------------------------------------------------------------
(***************************************************************************)
(* handle_put_chunk, apply_chunk                                           *)
(***************************************************************************)

\* No such session, a chunk that runs across the expected offset, or one ahead
\* of it in strict mode.
ChunkRefused(u, offset, len) ==
    IF u \notin DOMAIN sessions THEN TRUE
    ELSE LET next == sessions[u].next_expected_offset
         IN  \/ offset < next /\ offset + len > next
             \/ offset > next /\ upload_mode = "STRICT"

RefuseChunk(u, offset, len) ==
    /\ ChunkRefused(u, offset, len)
    /\ UNCHANGED sessionVars

\* The chunk is there already.
IgnoreChunk(u, offset, len) ==
    /\ u \in DOMAIN sessions
    /\ offset < sessions[u].next_expected_offset
    /\ offset + len <= sessions[u].next_expected_offset
    /\ UNCHANGED sessionVars

\* Ahead of the expected offset: kept, the last one sent for its offset.
BufferChunk(u, offset, len) ==
    /\ upload_mode = "BUFFERABLE"
    /\ u \in DOMAIN sessions
    /\ offset > sessions[u].next_expected_offset
    /\ sessions' = [sessions EXCEPT ![u].buffered_chunks =
                       [o \in DOMAIN @ \cup {offset} |->
                            IF o = offset THEN len ELSE @[o]]]
    /\ UNCHANGED <<files, used>>

\* _process_buffer: the run of buffered chunks that begins at n.
Run(buffered, n) ==
    LET run[k \in 0..MAX_FILE_SIZE] ==
            IF k \in DOMAIN buffered THEN {k} \cup run[k + buffered[k]] ELSE {}
    IN  run[n]

\* Mutant: only the chunk right after the written one is taken.
DrainedOne(u, n) == {n} \cap DOMAIN sessions[u].buffered_chunks

\* Mutant: all buffered chunks are written, whether or not there is a gap.
DrainedAll(u, n) == DOMAIN sessions[u].buffered_chunks

\* The buffered chunks that are written after the one that ends at n.
Drained(u, n) ==
    IF upload_mode = "BUFFERABLE" THEN Run(sessions[u].buffered_chunks, n) ELSE {}

\* The offset reached after them.
Reached(u, n) ==
    LET run == Drained(u, n)
    IN  IF run = {} THEN n
        ELSE Max(run) + sessions[u].buffered_chunks[Max(run)]

\* What is written: the chunk and the drained ones, each where it belongs.
Extent(u, offset, len) ==
    offset..(offset + len - 1) \cup
    UNION {o..(o + sessions[u].buffered_chunks[o] - 1) :
              o \in Drained(u, offset + len)}

\* Mutant: complete when the end has been received, if not yet written.
FinishedByEnd(u, reached) ==
    \/ reached = sessions[u].total_size
    \/ \E o \in DOMAIN sessions[u].buffered_chunks :
          o + sessions[u].buffered_chunks[o] = sessions[u].total_size

\* Mutant: the last byte is forgotten.
FinishedEarly(u, reached) == reached + 1 >= sessions[u].total_size

Finished(u, reached) == reached = sessions[u].total_size

\* The expected chunk, and in BUFFERABLE mode the buffered ones it is followed
\* by, are written; a session that has all its bytes is deleted.
WriteChunk(u, offset, len) ==
    /\ u \in DOMAIN sessions
    /\ offset = sessions[u].next_expected_offset
    /\ LET reached == Reached(u, offset + len)
       IN  /\ files' = [files EXCEPT ![sessions[u].filename] =
                            Written(@, u, Extent(u, offset, len))]
           /\ sessions' =
                IF Finished(u, reached)
                THEN Restrict(sessions, DOMAIN sessions \ {u})
                ELSE [sessions EXCEPT
                        ![u].next_expected_offset = reached,
                        ![u].buffered_chunks =
                            Restrict(@, DOMAIN @ \ Drained(u, offset + len))]
    /\ UNCHANGED used

\* The write of the expected chunk raises after k of its bytes: the offset is
\* not advanced.  (In BUFFERABLE mode the write of a buffered chunk may raise as
\* well; the server does not use that mode, and this is left out.)
FailChunk(u, offset, len) ==
    /\ u \in DOMAIN sessions
    /\ offset = sessions[u].next_expected_offset
    /\ \E k \in 0..len :
          files' = [files EXCEPT ![sessions[u].filename] =
                        Written(@, u, offset..(offset + k - 1))]
    /\ UNCHANGED <<sessions, used>>

ApplyChunk(u, offset, len) ==
    \/ IgnoreChunk(u, offset, len)
    \/ BufferChunk(u, offset, len)
    \/ WriteChunk(u, offset, len)

-----------------------------------------------------------------------------
\* The first n bytes of upload u.
Bytes(u, n) == [i \in 1..n |-> <<u, i - 1>>]

\* Type invariant: an open session has a file, and its offsets stay within the
\* file size that PUT_META accepted.
SessionTypeOK ==
    /\ DOMAIN sessions \subseteq used
    /\ used \subseteq UploadIds
    /\ DOMAIN files \subseteq Filenames
    /\ \A u \in DOMAIN sessions :
          /\ sessions[u].filename \in DOMAIN files
          /\ sessions[u].total_size \in 0..MAX_FILE_SIZE
          /\ sessions[u].next_expected_offset \in 0..MAX_FILE_SIZE
          /\ DOMAIN sessions[u].buffered_chunks \subseteq 0..MAX_FILE_SIZE

=============================================================================
