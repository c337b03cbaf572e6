---------------------------- MODULE MCBlobStore ----------------------------
EXTENDS BlobStore, ArchiveExport, TLC

\* Two payloads that share an attachment; the second is what a completed event
\* stream, the third, is rewritten to.
MCPayloads == {"a", "b", "stream"}
MCBlobs == {"ma", "mb", "ms", "attachment", "raw"}
MCParts == "a" :> {"ma", "attachment"} @@ "b" :> {"mb", "attachment"} @@ "stream" :> {"ms", "raw"}
MCTerminal == "a" :> "a" @@ "b" :> "b" @@ "stream" :> "b"
MCRank == "r1" :> 1 @@ "r2" :> 2

\* The store in detail, or an export over its contract: from the same initial
\* states, because an export needs no more of the store than KeepsContract.
detail == <<normalized, commits, gc, normalize, migrate>>

\* The archive starts with the garbage of at most one payload.
MCInit ==
    /\ Init /\ ExportInit
    /\ \E p \in Refs : blobs = Reachable \cup BlobsOf(p)

MCNext ==
    \/ /\ export.step = "idle" /\ \A r \in Requests : home[r] = "session"
       /\ Next
       /\ UNCHANGED readers
    \/ /\ <<commits, gc, normalize, migrate>> = <<0, Idle, Idle, Idle>>
       /\ ExportNext
       /\ UNCHANGED detail

MCSpec == MCInit /\ [][MCNext]_<<vars, readers>>
=============================================================================
