-------------------------- MODULE MCUploadSession ---------------------------
(***************************************************************************)
(* The session manager alone, in either mode, against peers that send the  *)
(* chunks of their upload in any order and any number of times.  Each file *)
(* has one upload at a time: a new one starts when the last is complete.   *)
(***************************************************************************)
EXTENDS UploadSession

VARIABLES
    size_of,    \* sizes declared
    owner,      \* the last upload of each file
    complete    \* uploads that were answered "complete"

peersVars == <<sessions, files, used, size_of, owner, complete>>

PeersInit ==
    /\ SessionInit
    /\ size_of = <<>>
    /\ owner = <<>>
    /\ complete = {}

InUse(f) == \E u \in DOMAIN sessions : sessions[u].filename = f

Meta(u, f, size, overwrite) ==
    /\ ~ InUse(f)
    /\ CreateSession(u, f, size, overwrite)
    /\ size_of' = [v \in used' |-> IF v = u THEN size ELSE size_of[v]]
    /\ owner' = [g \in DOMAIN owner \cup {f} |-> IF g = f THEN u ELSE owner[g]]
    /\ UNCHANGED complete

BadMeta(f, size, overwrite) ==
    /\ RefuseMeta(f, size, overwrite)
    /\ UNCHANGED <<size_of, owner, complete>>

\* Where the client cuts an upload of this size.
Offsets(size) == {k * chunk_size : k \in 0..(size \div chunk_size)} \cap 0..(size - 1)
Length(size, offset) == Min({chunk_size, size - offset})

Chunk(u, offset) ==
    LET len == Length(size_of[u], offset)
    IN  /\ ApplyChunk(u, offset, len) \/ RefuseChunk(u, offset, len)
        /\ complete' = IF u \in DOMAIN sessions \ DOMAIN sessions'
                       THEN complete \cup {u} ELSE complete
        /\ UNCHANGED <<size_of, owner>>

PeersNext ==
    \/ \E u \in UploadIds, f \in Filenames, size \in 0..(MAX_FILE_SIZE + 1),
          overwrite \in BOOLEAN : Meta(u, f, size, overwrite)
    \/ \E f \in Filenames, size \in 0..(MAX_FILE_SIZE + 1),
          overwrite \in BOOLEAN : BadMeta(f, size, overwrite)
    \/ \E u \in used : \E offset \in Offsets(size_of[u]) : Chunk(u, offset)

PeersSpec == PeersInit /\ [][PeersNext]_peersVars

-----------------------------------------------------------------------------
\* What is on disk of an open upload is its beginning, up to the expected
\* offset and no further, whatever order its chunks came in.
PrefixOnDisk ==
    \A u \in DOMAIN sessions :
        files[sessions[u].filename] = Bytes(u, sessions[u].next_expected_offset)

\* Every buffered chunk lies ahead of the expected offset, so that the drain
\* loop will come to it; none is left behind or waits for nothing.
BufferAhead ==
    \A u \in DOMAIN sessions : \A o \in DOMAIN sessions[u].buffered_chunks :
        /\ o > sessions[u].next_expected_offset
        /\ o + sessions[u].buffered_chunks[o] <= sessions[u].total_size

\* A file whose upload was answered "complete" holds all of it, and stays so
\* until the next upload of that name, whatever late chunks still arrive.
CompleteIsWhole ==
    \A f \in DOMAIN owner :
        owner[f] \in complete => files[f] = Bytes(owner[f], size_of[owner[f]])

=============================================================================
