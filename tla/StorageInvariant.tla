-------------------------- MODULE StorageInvariant --------------------------
(***************************************************************************)
(* The inductive invariant of StorageSystem: how the session, the object,  *)
(* the files and the running handlers of one upload belong together.       *)
(***************************************************************************)
EXTENDS StorageSystem

\* No object row yet, or no longer.
Objectless == {"none", "staged", "lost", "active", "expired", "failed"}

\* finalize_upload's first transaction has committed; never left again.
PastBegin == {"finalizing", "completed", "failed", "deleted"}

\* The bytes of an upload that is not finalized: what a PATCH has written is the
\* acknowledged prefix and its own body, and never more than was declared.
BytesInv(u) ==
    /\ sess[u].state \in {"none", "staged", "lost"} =>
         acked[u] = <<>> /\ sess[u].received = 0
    /\ sess[u].state = "staged" => staging[u] = <<>>
    /\ sess[u].state = "active" =>
         /\ Len(acked[u]) = sess[u].received
         /\ sess[u].received <= sess[u].expected
         /\ staging[u] # NULL
         /\ Len(staging[u]) >= sess[u].received
         /\ Len(staging[u]) <= sess[u].expected
         /\ SubSeq(staging[u], 1, sess[u].received) = acked[u]
    /\ Locked(u) =>
         /\ sess[u].state = "active"
         /\ staging[u] = acked[u] \o patch[u]

\* A session's columns agree with its state.
SessionInv(u) ==
    /\ sess[u].final # NULL <=> sess[u].state \in {"finalizing", "completed"}
    /\ sess[u].cleaned => sess[u].state \in {"expired", "failed"}
    /\ sess[u].cleaned => staging[u] = NULL
    /\ sess[u].state \notin PastBegin => ver[u] = NULL

\* The object row follows the session, and a ready one holds the bytes.
ObjectInv(u) ==
    /\ sess[u].state \in Objectless => obj[u].state = "none"
    /\ sess[u].state = "finalizing" => obj[u].state = "pending"
    /\ obj[u].state = "ready" =>
         staging[u] = NULL /\ payload[u] = acked[u] /\ obj[u].sum = acked[u]

\* Files on the HDD
DiskInv(u) ==
    /\ payload[u] # NULL => sess[u].state \in PastBegin
    /\ staging[u] # NULL =>
         payload[u] = NULL /\ sess[u].state \notin {"none", "completed", "failed"}

\* Finalizing
FinalizingInv(u) ==
    sess[u].state = "finalizing" =>
        /\ ver[u] # NULL
        /\ ver[u].file = sess[u].final
        /\ ver[u].object = u
        /\ file[sess[u].final].state # "none"
        /\ \/ staging[u] = acked[u] /\ payload[u] = NULL
           \/ staging[u] = NULL /\ payload[u] = acked[u]
        /\ Len(acked[u]) = sess[u].expected

\* A running finalizer: its digest is that of the acknowledged bytes, and it
\* unlinks only what it has rejected.
FinalizerInv(f) ==
    LET u == fin[f].upload
    IN fin[f].pc # "idle" =>
         /\ u # NULL
         /\ sess[u].state \in PastBegin
         /\ fin[f].pc \in {"complete", "reject"} /\ sess[u].state = "finalizing" =>
              payload[u] = acked[u] /\ fin[f].sum = acked[u]
         /\ fin[f].pc = "unlink" => sess[u].state = "failed"

\* What a sweeper still has to handle stays disposable until it gets there.
Handling(w) == sweep[w].todo \cup ({sweep[w].doing} \ {NULL})

SweeperInv(w) ==
    /\ sweep[w].pc \in {"cancel", "staging"} =>
         \A u \in Handling(w) : sess[u].state \in {"expired", "failed"}
    /\ sweep[w].pc \in {"cancel", "staging"} /\ sweep[w].doing # NULL =>
         staging[sweep[w].doing] = NULL
    /\ sweep[w].pc \in {"erase", "objects"} =>
         \A o \in Handling(w) :
             /\ sess[o].state \in {"completed", "deleted"}
             /\ obj[o].state \in {"none", "deleting"}

\* A link holds an object, and a version is inserted once.
CloneInv(c) ==
    /\ clone[c].pc = "link" => clone[c].object # NULL
    /\ clone[c].pc # "done" => ver[c] = NULL

UploadInv(u) ==
    BytesInv(u) /\ SessionInv(u) /\ ObjectInv(u) /\ DiskInv(u) /\ FinalizingInv(u)

StorageInv ==
    /\ \A u \in Uploads : UploadInv(u)
    /\ \A f \in Finalizers : FinalizerInv(f)
    /\ \A w \in Sweepers : SweeperInv(w)
    /\ \A c \in Clones : CloneInv(c)
    /\ ReferencesHold
=============================================================================
