------------------------ MODULE StorageSystem_proofs ------------------------
(***************************************************************************)
(* StorageInv is an invariant of StorageSystem for any number of uploads,  *)
(* finalizers, sweepers, links and copies, and with it the safety          *)
(* properties of the storage core.                                         *)
(*                                                                         *)
(* The argument: a step touches the rows and files of few uploads.  What   *)
(* it does to any upload is Evolves; that alone keeps the invariant of     *)
(* every handler that does not take the step (FinalizerFrame,              *)
(* SweeperFrame), and an upload that is not touched keeps its own          *)
(* (UploadFrame).  What is left is one case per action.                    *)
(***************************************************************************)
EXTENDS StorageTypes_proofs

-----------------------------------------------------------------------------
(* Frames *)

\* What a step may do to an upload that a handler has in hand: a session that
\* finalize_upload has begun is never active again and a settled one stays
\* settled; the payload of a finalizing one stays; what is gone stays gone.
Evolves(u) ==
    /\ sess[u].state \in PastBegin => sess'[u].state \in PastBegin
    /\ sess[u].state \in PastBegin /\ sess'[u].state = "finalizing" =>
         /\ sess[u].state = "finalizing"
         /\ acked'[u] = acked[u]
         /\ payload[u] = acked[u] => payload'[u] = acked[u]
    /\ sess[u].state = "failed" => sess'[u].state = "failed"
    /\ sess[u].state = "expired" => sess'[u].state = "expired"
    /\ sess[u].state \in {"expired", "failed"} /\ staging[u] = NULL =>
         staging'[u] = NULL
    /\ sess[u].state \in {"completed", "deleted"} =>
         /\ sess'[u].state \in {"completed", "deleted"}
         /\ obj[u].state \in {"none", "deleting"} =>
              obj'[u].state \in {"none", "deleting"}

\* A finalizer that does not take the step keeps its invariant.
LEMMA FinalizerFrame ==
    ASSUME TypeOK, TypeOK', NEW f \in Finalizers, FinalizerInv(f),
           fin'[f] = fin[f], \A u \in Uploads : Evolves(u)
    PROVE  FinalizerInv(f)'
<1>1. fin[f].upload \in Uploads \cup {NULL}
  BY DEF TypeOK, Finalizer
<1>2. CASE fin[f].pc = "idle"
  BY <1>2 DEF FinalizerInv
<1>3. CASE fin[f].pc # "idle"
  <2>1. fin[f].upload \in Uploads /\ sess[fin[f].upload].state \in PastBegin
    BY <1>1, <1>3 DEF FinalizerInv
  <2>2. QED
    BY <1>3, <2>1 DEF FinalizerInv, Evolves
<1>4. QED
  BY <1>2, <1>3

\* A sweeper that does not take the step keeps its invariant.
LEMMA SweeperFrame ==
    ASSUME TypeOK, TypeOK', NEW w \in Sweepers, SweeperInv(w),
           sweep'[w] = sweep[w], \A u \in Uploads : Evolves(u)
    PROVE  SweeperInv(w)'
<1>1. /\ sweep[w].todo \in SUBSET Uploads
      /\ sweep[w].doing \in Uploads \cup {NULL}
  BY DEF TypeOK, Sweeper
<1>2. Handling(w)' = Handling(w) /\ Handling(w) \in SUBSET Uploads
  BY <1>1 DEF Handling
<1>3. ASSUME sweep[w].pc \in {"cancel", "staging"}
      PROVE  /\ \A u \in Handling(w) : sess'[u].state \in {"expired", "failed"}
             /\ sweep[w].doing # NULL => staging'[sweep[w].doing] = NULL
  BY <1>1, <1>2, <1>3 DEF SweeperInv, Evolves, Handling
<1>4. ASSUME sweep[w].pc \in {"erase", "objects"}, NEW o \in Handling(w)
      PROVE  /\ sess'[o].state \in {"completed", "deleted"}
             /\ obj'[o].state \in {"none", "deleting"}
  BY <1>2, <1>4 DEF SweeperInv, Evolves
<1>5. QED
  BY <1>2, <1>3, <1>4 DEF SweeperInv

\* An upload whose rows and files the step leaves alone keeps its invariant.
LEMMA UploadFrame ==
    ASSUME NEW u \in Uploads, UploadInv(u),
           sess'[u] = sess[u], obj'[u] = obj[u], ver'[u] = ver[u],
           staging'[u] = staging[u], payload'[u] = payload[u],
           patch'[u] = patch[u], acked'[u] = acked[u],
           sess[u].state = "finalizing" => file'[sess[u].final].state # "none"
    PROVE  UploadInv(u)'
<1>1. BytesInv(u)'
  BY DEF UploadInv, BytesInv, Locked
<1>2. SessionInv(u)'
  BY DEF UploadInv, SessionInv
<1>3. ObjectInv(u)'
  BY DEF UploadInv, ObjectInv
<1>4. DiskInv(u)'
  BY DEF UploadInv, DiskInv
<1>5. FinalizingInv(u)'
  BY DEF UploadInv, FinalizingInv
<1>6. QED
  BY <1>1, <1>2, <1>3, <1>4, <1>5 DEF UploadInv

\* An upload of which the step changes nothing but handlers evolves.
LEMMA EvolvesFrame ==
    ASSUME NEW u \in Uploads, sess'[u].state = sess[u].state, obj'[u] = obj[u],
           staging'[u] = staging[u], payload'[u] = payload[u], acked'[u] = acked[u]
    PROVE  Evolves(u)
BY DEF Evolves

\* The versions and current versions are untouched and the objects they
\* reference keep their rows.
LEMMA ReferencesFrame ==
    ASSUME TypeOK, ReferencesHold, ver' = ver,
           \A g \in Minted : /\ file'[g].cur = file[g].cur
                             /\ file[g].state # "none" => file'[g].state # "none",
           \A o \in Uploads : HasVersion(o) => obj'[o].state # "none"
    PROVE  ReferencesHold'
<1>1. ASSUME NEW v \in Minted, ver[v] # NULL
      PROVE  obj'[ver[v].object].state # "none" /\ file'[ver[v].file].state # "none"
  <2>1. ver[v].object \in Uploads /\ ver[v].file \in Minted
    BY <1>1 DEF TypeOK, Version
  <2>2. QED
    BY <1>1, <2>1 DEF ReferencesHold, HasVersion
<1>2. QED
  BY <1>1 DEF ReferencesHold, VersionsOf

\* AddVersion under a fresh id.
LEMMA ReferencesAdd ==
    ASSUME TypeOK, ReferencesHold, NEW v \in Minted, NEW f \in Minted,
           NEW o \in Uploads, ver[v] = NULL, AddVersion(v, f, o),
           obj'[o].state # "none",
           \A x \in Uploads : obj[x].state # "none" => obj'[x].state # "none"
    PROVE  ReferencesHold'
<1>1. ASSUME NEW x \in Minted, ver'[x] # NULL
      PROVE  /\ obj'[ver'[x].object].state # "none"
             /\ file'[ver'[x].file].state # "none"
  <2>1. CASE x = v
    BY <2>1 DEF AddVersion, TypeOK
  <2>2. CASE x # v
    <3>1. ver'[x] = ver[x] /\ ver[x] # NULL
      BY <1>1, <2>2 DEF AddVersion, TypeOK
    <3>2. ver[x].object \in Uploads /\ ver[x].file \in Minted
      BY <3>1 DEF TypeOK, Version
    <3>3. file[ver[x].file].state # "none" /\ obj[ver[x].object].state # "none"
      BY <3>1 DEF ReferencesHold
    <3>4. file'[ver[x].file].state # "none"
      BY <3>2, <3>3 DEF AddVersion, TypeOK
    <3>5. QED
      BY <3>1, <3>2, <3>3, <3>4
  <2>3. QED
    BY <2>1, <2>2
<1>2. ASSUME NEW g \in Minted, file'[g].cur # NULL
      PROVE  file'[g].cur \in Minted /\ ver'[file'[g].cur] # NULL
             /\ ver'[file'[g].cur].file = g
  <2>1. CASE g = f
    <3>1. file'[g].cur = v /\ ver'[v] = [file |-> f, object |-> o, at |-> clock]
      BY <2>1 DEF AddVersion, TypeOK
    <3>2. ver'[v] # NULL
      BY <3>1, VersionAssumption DEF Version, TypeOK
    <3>3. QED
      BY <2>1, <3>1, <3>2
  <2>2. CASE g # f
    <3>1. file'[g] = file[g]
      BY <2>2 DEF AddVersion, TypeOK
    <3>2. file[g].cur \in Minted /\ ver[file[g].cur] # NULL /\ ver[file[g].cur].file = g
      BY <1>2, <3>1 DEF ReferencesHold, VersionsOf
    <3>3. ver'[file[g].cur] = ver[file[g].cur]
      BY <3>2 DEF AddVersion, TypeOK
    <3>4. QED
      BY <3>1, <3>2, <3>3
  <2>3. QED
    BY <2>1, <2>2
<1>3. QED
  BY <1>1, <1>2 DEF ReferencesHold, VersionsOf

\* DeleteFileRows: an object that loses its row with the file has no other
\* version.
LEMMA ReferencesDelete ==
    ASSUME TypeOK, ReferencesHold, NEW f \in Minted, NEW sessions,
           DeleteFileRows(f, sessions),
           \A v \in Minted \ VersionsOf(f) :
               ver[v] # NULL => obj'[ver[v].object].state # "none"
    PROVE  ReferencesHold'
<1>1. ASSUME NEW v \in Minted
      PROVE  /\ v \in VersionsOf(f) => ver'[v] = NULL
             /\ v \notin VersionsOf(f) => ver'[v] = ver[v]
  BY DEF DeleteFileRows
<1>2. \A g \in Minted : g # f => file'[g] = file[g]
  BY DEF DeleteFileRows, TypeOK
<1>3. file'[f].cur = NULL
  BY DEF DeleteFileRows, TypeOK
<1>4. ASSUME NEW v \in Minted, ver'[v] # NULL
      PROVE  /\ obj'[ver'[v].object].state # "none"
             /\ file'[ver'[v].file].state # "none"
  <2>1. v \notin VersionsOf(f) /\ ver'[v] = ver[v]
    BY <1>1, <1>4
  <2>2. ver[v].file \in Minted /\ ver[v].file # f
    BY <1>4, <2>1 DEF VersionsOf, TypeOK, Version
  <2>3. QED
    BY <1>2, <1>4, <2>1, <2>2 DEF ReferencesHold
<1>5. ASSUME NEW g \in Minted, file'[g].cur # NULL
      PROVE  file'[g].cur \in Minted /\ ver'[file'[g].cur] # NULL
             /\ ver'[file'[g].cur].file = g
  <2>1. g # f /\ file'[g] = file[g]
    BY <1>2, <1>3, <1>5
  <2>2. file[g].cur \in VersionsOf(g)
    BY <1>5, <2>1 DEF ReferencesHold
  <2>3. file[g].cur \in Minted /\ file[g].cur \notin VersionsOf(f)
    BY <2>1, <2>2 DEF VersionsOf
  <2>4. ver'[file[g].cur] = ver[file[g].cur]
    BY <1>1, <2>3
  <2>5. QED
    BY <2>1, <2>2, <2>4 DEF VersionsOf
<1>6. QED
  BY <1>4, <1>5 DEF ReferencesHold, VersionsOf

\* A link or copy that does not take the step keeps its invariant unless its
\* version id is used.
LEMMA CloneFrame ==
    ASSUME NEW c \in Clones, CloneInv(c), clone'[c] = clone[c],
           ver[c] = NULL => ver'[c] = NULL
    PROVE  CloneInv(c)'
BY DEF CloneInv

\* A step that only moves handlers, to which every upload and every reference
\* looks the same.
LEMMA HandlerStep ==
    ASSUME TypeOK, StorageInv, UNCHANGED <<rows, disk, patch, acked>>
    PROVE  /\ \A u \in Uploads : UploadInv(u)' /\ Evolves(u)
           /\ ReferencesHold'
           /\ \A c \in Clones : clone'[c] = clone[c] => CloneInv(c)'
<1>1. /\ sess' = sess /\ obj' = obj /\ file' = file /\ ver' = ver
      /\ staging' = staging /\ payload' = payload /\ patch' = patch /\ acked' = acked
  BY DEF rows, disk
<1>2. ASSUME NEW u \in Uploads PROVE UploadInv(u)' /\ Evolves(u)
  <2>1. UploadInv(u)
    BY DEF StorageInv
  <2>2. sess[u].state = "finalizing" => file'[sess[u].final].state # "none"
    BY <1>1, <2>1 DEF UploadInv, FinalizingInv
  <2>3. UploadInv(u)'
    BY <1>1, <2>1, <2>2, UploadFrame
  <2>4. Evolves(u)
    BY <1>1, EvolvesFrame
  <2>5. QED
    BY <2>3, <2>4
<1>3. ReferencesHold'
  BY <1>1 DEF StorageInv, ReferencesHold, VersionsOf
<1>4. \A c \in Clones : clone'[c] = clone[c] => CloneInv(c)'
  BY <1>1 DEF StorageInv, CloneInv
<1>5. QED
  BY <1>2, <1>3, <1>4

-----------------------------------------------------------------------------
(* create_upload, patch_upload, expiry *)

\* Acknowledged bytes followed by others: the length, and the prefix again.
LEMMA AckedPrefix ==
    ASSUME NEW s \in Seq(Data), NEW t \in Seq(Data)
    PROVE  /\ s \o t \in Seq(Data)
           /\ Len(s \o t) = Len(s) + Len(t)
           /\ SubSeq(s \o t, 1, Len(s)) = s
           /\ SubSeq(s, 1, Len(s)) = s
           /\ s \o <<>> = s
           /\ Len(s) \in Nat
<1>1. s \o t \in Seq(Data) /\ Len(s \o t) = Len(s) + Len(t) /\ Len(s) \in Nat
  BY ConcatProperties, LenProperties
<1>2. SubSeq(s, 1, Len(s)) = s
  BY SubSeqFull
<1>3. SubSeq(s \o t, 1, Len(s)) = s
  <2>1. SubSeq(s \o t, 1, Len(s)) = SubSeq(s, 1, Len(s))
    BY <1>1, SubSeqOfConcat1
  <2>2. QED
    BY <1>2, <2>1
<1>4. s \o <<>> = s
  BY ConcatEmptySeq
<1>5. QED
  BY <1>1, <1>2, <1>3, <1>4

\* One more byte after a body.
LEMMA AppendedByte ==
    ASSUME NEW s \in Seq(Data), NEW t \in Seq(Data), NEW d \in Data
    PROVE  /\ Append(s \o t, d) = s \o Append(t, d)
           /\ Append(t, d) \in Seq(Data)
           /\ Len(Append(t, d)) = Len(t) + 1
<1>1. Append(t, d) \in Seq(Data) /\ Len(Append(t, d)) = Len(t) + 1
  BY AppendProperties
<1>2. <<d>> \in Seq(Data) /\ s \o t \in Seq(Data)
  BY ConcatProperties
<1>3. Append(s \o t, d) = (s \o t) \o <<d>> /\ Append(t, d) = t \o <<d>>
  BY <1>2, AppendIsConcat
<1>4. (s \o t) \o <<d>> = s \o (t \o <<d>>)
  BY <1>2, ConcatAssociative
<1>5. QED
  BY <1>1, <1>3, <1>4

\* What the invariant says of a session a PATCH may touch.
LEMMA ActiveFacts ==
    ASSUME TypeOK, NEW u \in Uploads, UploadInv(u), sess[u].state = "active"
    PROVE  /\ sess[u].received \in Nat /\ sess[u].expected \in Nat
           /\ acked[u] \in Seq(Data) /\ staging[u] \in Seq(Data)
           /\ Len(acked[u]) = sess[u].received
           /\ sess[u].received <= sess[u].expected
           /\ Truncated(u) = acked[u]
           /\ payload[u] = NULL /\ ver[u] = NULL /\ obj[u].state = "none"
           /\ ~sess[u].cleaned /\ sess[u].final = NULL
BY DEF TypeOK, Session, Content, UploadInv, BytesInv, SessionInv, ObjectInv,
   DiskInv, Truncated, PastBegin, Objectless

\* A PATCH step leaves the session's row alone, or only moves received: it is
\* enough that the bytes still agree.
LEMMA PatchBytes ==
    ASSUME TypeOK, NEW u \in Uploads, UploadInv(u),
           sess[u].state = "active", sess'[u].state = "active",
           sess'[u].expected = sess[u].expected, sess'[u].final = sess[u].final,
           sess'[u].cleaned = sess[u].cleaned,
           obj'[u] = obj[u], payload'[u] = payload[u], ver'[u] = ver[u],
           NEW q \in Seq(Data), acked'[u] \in Seq(Data),
           staging'[u] = acked'[u] \o q,
           patch'[u] = NULL \/ patch'[u] = q,
           sess'[u].received = Len(acked'[u]),
           Len(acked'[u]) + Len(q) <= sess[u].expected
    PROVE  UploadInv(u)' /\ Evolves(u)
<1>1. /\ payload[u] = NULL /\ ver[u] = NULL /\ obj[u].state = "none"
      /\ ~sess[u].cleaned /\ sess[u].final = NULL
  BY ActiveFacts
<1>2. /\ staging'[u] \in Seq(Data)
      /\ Len(staging'[u]) = Len(acked'[u]) + Len(q)
      /\ SubSeq(staging'[u], 1, Len(acked'[u])) = acked'[u]
      /\ Len(acked'[u]) \in Nat /\ Len(q) \in Nat
  BY AckedPrefix
<1>3. staging'[u] # NULL
  BY <1>2, DataAssumption
<1>4. sess[u].expected \in Nat
  BY DEF TypeOK, Session
<1>5. BytesInv(u)'
  <2>1. patch'[u] # NULL => patch'[u] = q
    OBVIOUS
  <2>2. /\ sess'[u].received <= sess'[u].expected
        /\ Len(staging'[u]) >= sess'[u].received
        /\ Len(staging'[u]) <= sess'[u].expected
    BY <1>2, <1>4
  <2>3. SubSeq(staging'[u], 1, sess'[u].received) = acked'[u]
    BY <1>2, Zenon
  <2> QED
    BY <1>3, <2>1, <2>2, <2>3, Zenon DEF BytesInv, Locked
<1>6. SessionInv(u)' /\ ObjectInv(u)' /\ DiskInv(u)' /\ FinalizingInv(u)'
  BY <1>1 DEF SessionInv, ObjectInv, DiskInv, FinalizingInv, PastBegin, Objectless
<1>7. Evolves(u)
  BY DEF Evolves, PastBegin
<1>8. QED
  BY <1>5, <1>6, <1>7 DEF UploadInv

\* Each step keeps the invariant of its own upload.
LEMMA UploadOwn ==
    ASSUME TypeOK, TypeOK', NEW u \in Uploads, UploadInv(u), UploadStep(u)
    PROVE  UploadInv(u)' /\ Evolves(u)
<1> USE DEF rows, disk
<1>s. sess \in [Uploads -> Session] /\ sess[u] \in Session
  BY DEF TypeOK
<1>1. ASSUME NEW n \in Sizes, NEW r \in Minted \cup {NULL}, CreateStage(u, n, r)
      PROVE  UploadInv(u)' /\ Evolves(u)
  <2> DEFINE t == [sess[u] EXCEPT !.state = "staged", !.expected = n, !.replace = r]
  <2>1. sess'[u] = t
    <3>1. sess' = [sess EXCEPT ![u] = t]
      BY <1>1, Zenon DEF CreateStage
    <3>2. QED
      BY <3>1, <1>s
  <2>2. /\ t.state = "staged" /\ t.received = sess[u].received
        /\ t.final = sess[u].final /\ t.cleaned = sess[u].cleaned
    BY <1>s, Zenon DEF Session
  <2> HIDE DEF t
  <2>3. staging'[u] = <<>> /\ payload'[u] = payload[u] /\ obj'[u] = obj[u]
        /\ ver'[u] = ver[u] /\ patch'[u] = patch[u] /\ acked'[u] = acked[u]
    BY <1>1 DEF CreateStage, TypeOK
  <2>4. sess[u].state = "none"
    BY <1>1 DEF CreateStage
  <2>5. ~Locked(u) /\ ~sess[u].cleaned /\ payload[u] = NULL
    BY <2>4 DEF UploadInv, BytesInv, SessionInv, DiskInv, PastBegin
  <2>6. BytesInv(u)'
    BY <2>1, <2>2, <2>3, <2>4, <2>5 DEF UploadInv, BytesInv, Locked
  <2>7. SessionInv(u)'
    BY <2>1, <2>2, <2>3, <2>4, <2>5 DEF UploadInv, SessionInv, PastBegin
  <2>8. ObjectInv(u)'
    BY <2>1, <2>2, <2>3, <2>4 DEF UploadInv, ObjectInv, Objectless
  <2>9. DiskInv(u)' /\ FinalizingInv(u)' /\ Evolves(u)
    BY <2>1, <2>2, <2>3, <2>4, <2>5 DEF DiskInv, FinalizingInv, Evolves, PastBegin
  <2>10. QED
    BY <2>6, <2>7, <2>8, <2>9 DEF UploadInv
<1>2. CASE CreateCommit(u)
  <2>1. /\ sess'[u].state = "active" /\ sess'[u].received = sess[u].received
        /\ sess'[u].final = sess[u].final /\ sess'[u].cleaned = sess[u].cleaned
        /\ sess'[u].expected = sess[u].expected
    BY <1>2, <1>s DEF CreateCommit, Session
  <2>2. staging'[u] = staging[u] /\ payload'[u] = payload[u] /\ obj'[u] = obj[u]
        /\ ver'[u] = ver[u] /\ patch'[u] = patch[u] /\ acked'[u] = acked[u]
        /\ sess[u].state = "staged"
    BY <1>2 DEF CreateCommit, TypeOK
  <2>3. /\ acked[u] = <<>> /\ sess[u].received = 0 /\ staging[u] = <<>>
        /\ ~Locked(u) /\ sess[u].expected \in Nat
    BY <2>2, <1>s DEF UploadInv, BytesInv, Session
  <2>4. BytesInv(u)'
    <3>1. <<>> \in Seq(Data) /\ Len(<<>>) = 0
      OBVIOUS
    <3>2. <<>> # NULL /\ SubSeq(<<>>, 1, 0) = <<>>
      BY <3>1, DataAssumption, AckedPrefix
    <3>3. QED
      BY <2>1, <2>2, <2>3, <3>1, <3>2 DEF BytesInv, Locked
  <2>5. SessionInv(u)' /\ ObjectInv(u)' /\ DiskInv(u)' /\ FinalizingInv(u)'
    BY <2>1, <2>2 DEF UploadInv, SessionInv, ObjectInv, DiskInv, FinalizingInv,
       PastBegin, Objectless
  <2>6. Evolves(u)
    BY <2>1, <2>2 DEF Evolves, PastBegin
  <2>7. QED
    BY <2>4, <2>5, <2>6 DEF UploadInv
<1>3. CASE CreateFail(u)
  <2>1. /\ sess'[u].state = "lost" /\ sess'[u].received = 0
        /\ sess'[u].final = NULL /\ sess'[u].cleaned = FALSE
    BY <1>3, <1>s DEF CreateFail, NoSession
  <2>2. payload'[u] = payload[u] /\ obj'[u] = obj[u]
        /\ ver'[u] = ver[u] /\ patch'[u] = patch[u] /\ acked'[u] = acked[u]
        /\ sess[u].state = "staged"
        /\ (staging'[u] = staging[u] \/ staging'[u] = NULL)
    BY <1>3 DEF CreateFail, TypeOK
  <2>3. acked[u] = <<>> /\ ~Locked(u)
    BY <2>2 DEF UploadInv, BytesInv
  <2>4. BytesInv(u)'
    BY <2>1, <2>2, <2>3 DEF BytesInv, Locked
  <2>5. SessionInv(u)' /\ ObjectInv(u)' /\ DiskInv(u)' /\ FinalizingInv(u)'
    BY <2>1, <2>2 DEF UploadInv, SessionInv, ObjectInv, DiskInv, FinalizingInv,
       PastBegin, Objectless
  <2>6. Evolves(u)
    BY <2>1, <2>2 DEF Evolves, PastBegin
  <2>7. QED
    BY <2>4, <2>5, <2>6 DEF UploadInv
<1>4. CASE SessionTimesOut(u)
  <2>1. /\ sess'[u].state = sess[u].state /\ sess'[u].received = sess[u].received
        /\ sess'[u].final = sess[u].final /\ sess'[u].cleaned = sess[u].cleaned
        /\ sess'[u].expected = sess[u].expected
    BY <1>4, <1>s DEF SessionTimesOut, Session
  <2>2. UNCHANGED <<obj, ver, file, staging, payload, patch, acked>>
    BY <1>4 DEF SessionTimesOut
  <2>3. BytesInv(u)'
    BY <2>1, <2>2 DEF UploadInv, BytesInv, Locked
  <2>4. SessionInv(u)' /\ ObjectInv(u)' /\ DiskInv(u)' /\ FinalizingInv(u)'
    BY <2>1, <2>2 DEF UploadInv, SessionInv, ObjectInv, DiskInv, FinalizingInv
  <2>5. Evolves(u)
    BY <2>1, <2>2 DEF Evolves
  <2>6. QED
    BY <2>3, <2>4, <2>5 DEF UploadInv
<1>t. CASE TargetToggles(u)
  <2>1. /\ sess'[u].state = sess[u].state /\ sess'[u].received = sess[u].received
        /\ sess'[u].final = sess[u].final /\ sess'[u].cleaned = sess[u].cleaned
        /\ sess'[u].expected = sess[u].expected
    BY <1>t, <1>s DEF TargetToggles, Session
  <2>2. UNCHANGED <<obj, ver, file, staging, payload, patch, acked>>
    BY <1>t DEF TargetToggles, disk
  <2>3. BytesInv(u)'
    BY <2>1, <2>2 DEF UploadInv, BytesInv, Locked
  <2>4. SessionInv(u)' /\ ObjectInv(u)' /\ DiskInv(u)' /\ FinalizingInv(u)'
    BY <2>1, <2>2 DEF UploadInv, SessionInv, ObjectInv, DiskInv, FinalizingInv
  <2>5. Evolves(u)
    BY <2>1, <2>2 DEF Evolves
  <2>6. QED
    BY <2>3, <2>4, <2>5 DEF UploadInv
<1>5. CASE PatchOpen(u)
  <2>1. sess[u].state = "active" /\ sess' = sess /\ acked' = acked /\ obj' = obj
        /\ payload' = payload /\ ver' = ver
        /\ staging'[u] = Truncated(u) /\ patch'[u] = <<>>
    BY <1>5 DEF PatchOpen, UsableSession, TypeOK
  <2>2. Truncated(u) = acked[u] /\ acked[u] \in Seq(Data) /\ sess[u].received \in Nat
        /\ Len(acked[u]) = sess[u].received /\ sess[u].received <= sess[u].expected
    BY <2>1, ActiveFacts
  <2>3. <<>> \in Seq(Data) /\ Len(<<>>) = 0 /\ acked[u] = acked[u] \o <<>>
    BY <2>2, AckedPrefix
  <2>4. Len(acked[u]) + Len(<<>>) <= sess[u].expected
    BY <2>2, <2>3
  <2>5. QED
    BY <2>1, <2>2, <2>3, <2>4, PatchBytes
<1>6. ASSUME NEW d \in Data, PatchWrite(u, d)
      PROVE  UploadInv(u)' /\ Evolves(u)
  <2>1. /\ sess' = sess /\ acked' = acked /\ obj' = obj /\ payload' = payload
        /\ ver' = ver /\ patch[u] # NULL /\ Len(patch[u]) < PatchLimit(u)
        /\ staging'[u] = Append(staging[u], d) /\ patch'[u] = Append(patch[u], d)
    BY <1>6 DEF PatchWrite, TypeOK, Locked
  <2>2. /\ sess[u].state = "active" /\ staging[u] = acked[u] \o patch[u]
        /\ patch[u] \in Seq(Data)
    BY <2>1 DEF UploadInv, BytesInv, Locked, TypeOK, Content
  <2>3. acked[u] \in Seq(Data) /\ sess[u].received \in Nat /\ sess[u].expected \in Nat
        /\ Len(acked[u]) = sess[u].received /\ sess[u].received <= sess[u].expected
    BY <2>2, ActiveFacts
  <2>4. /\ staging'[u] = acked[u] \o patch'[u] /\ patch'[u] \in Seq(Data)
        /\ Len(patch'[u]) = Len(patch[u]) + 1 /\ Len(patch[u]) \in Nat
    <3>1. /\ Append(acked[u] \o patch[u], d) = acked[u] \o Append(patch[u], d)
          /\ Append(patch[u], d) \in Seq(Data)
          /\ Len(Append(patch[u], d)) = Len(patch[u]) + 1
      BY <2>2, <2>3, AppendedByte, ZenonT(30)
    <3>2. Len(patch[u]) \in Nat
      BY <2>2, LenProperties
    <3>3. QED
      BY <2>1, <2>2, <3>1, <3>2, Zenon
  <2>5. Len(acked[u]) + Len(patch'[u]) <= sess[u].expected
    BY <2>1, <2>3, <2>4, DataAssumption DEF PatchLimit
  <2>6. QED
    BY <2>1, <2>2, <2>3, <2>4, <2>5, PatchBytes
<1>7. CASE PatchCommit(u)
  <2>1. /\ obj' = obj /\ payload' = payload /\ staging' = staging
        /\ ver' = ver /\ patch[u] # NULL
        /\ acked'[u] = acked[u] \o patch[u] /\ patch'[u] = NULL
    BY <1>7 DEF PatchCommit, TypeOK, Locked
  <2>2. /\ sess'[u].state = sess[u].state /\ sess'[u].received = NewOffset(u)
        /\ sess'[u].final = sess[u].final /\ sess'[u].cleaned = sess[u].cleaned
        /\ sess'[u].expected = sess[u].expected
    BY <1>7, <1>s DEF PatchCommit, Session
  <2>3. /\ sess[u].state = "active" /\ staging[u] = acked[u] \o patch[u]
        /\ patch[u] \in Seq(Data) /\ Len(staging[u]) <= sess[u].expected
    BY <2>1 DEF UploadInv, BytesInv, Locked, TypeOK, Content
  <2>4. acked[u] \in Seq(Data) /\ staging[u] \in Seq(Data)
        /\ Len(acked[u]) = sess[u].received
    BY <2>3, ActiveFacts
  <2>5. /\ acked'[u] = staging[u]
        /\ Len(acked'[u]) = NewOffset(u)
        /\ staging'[u] = acked'[u] \o <<>>
        /\ <<>> \in Seq(Data) /\ Len(<<>>) = 0
        /\ Len(staging[u]) \in Nat
    <3>1. acked'[u] = staging[u] /\ Len(staging[u]) \in Nat
      BY <2>1, <2>3, <2>4, LenProperties
    <3>2. Len(acked[u] \o patch[u]) = Len(acked[u]) + Len(patch[u])
      BY <2>3, <2>4, AckedPrefix, Zenon
    <3>3. staging[u] \o <<>> = staging[u]
      BY <2>4, AckedPrefix, Zenon
    <3>4. <<>> \in Seq(Data) /\ Len(<<>>) = 0
      OBVIOUS
    <3>5. Len(acked'[u]) = NewOffset(u)
      BY <2>3, <2>4, <3>1, <3>2, Zenon DEF NewOffset
    <3>6. QED
      BY <2>1, <3>1, <3>3, <3>4, <3>5, Zenon
  <2>6. Len(acked'[u]) + Len(<<>>) <= sess[u].expected
    BY <2>3, <2>5
  <2>7. QED
    BY <2>1, <2>2, <2>3, <2>4, <2>5, <2>6, PatchBytes
<1>8. CASE PatchFail(u)
  <2>1. /\ sess' = sess /\ acked' = acked /\ obj' = obj /\ payload' = payload
        /\ ver' = ver /\ patch[u] # NULL /\ patch'[u] = NULL
        /\ (staging'[u] = staging[u] \/ staging'[u] = Truncated(u))
    BY <1>8 DEF PatchFail, TypeOK, Locked
  <2>2. /\ sess[u].state = "active" /\ staging[u] = acked[u] \o patch[u]
        /\ patch[u] \in Seq(Data) /\ Len(staging[u]) <= sess[u].expected
    BY <2>1 DEF UploadInv, BytesInv, Locked, TypeOK, Content
  <2>3. acked[u] \in Seq(Data) /\ sess[u].received \in Nat
        /\ Len(acked[u]) = sess[u].received /\ sess[u].received <= sess[u].expected
        /\ Truncated(u) = acked[u]
    BY <2>2, ActiveFacts
  <2>4. /\ <<>> \in Seq(Data) /\ Len(<<>>) = 0 /\ acked[u] = acked[u] \o <<>>
        /\ Len(acked[u] \o patch[u]) = Len(acked[u]) + Len(patch[u])
    <3>1. <<>> \in Seq(Data) /\ Len(<<>>) = 0
      OBVIOUS
    <3>2. QED
      BY <2>2, <2>3, <3>1, AckedPrefix, Zenon
  <2>5. CASE staging'[u] = staging[u]
    BY <2>1, <2>2, <2>3, <2>4, <2>5, PatchBytes
  <2>6. CASE staging'[u] = Truncated(u)
    <3>1. Len(acked[u]) + Len(<<>>) <= sess[u].expected
      BY <2>3, <2>4
    <3>2. QED
      BY <2>1, <2>2, <2>3, <2>4, <2>6, <3>1, PatchBytes
  <2>7. QED
    BY <2>1, <2>5, <2>6
<1>9. QED
  BY <1>1, <1>2, <1>3, <1>4, <1>5, <1>6, <1>7, <1>8, <1>t DEF UploadStep

\* The invariant again from its parts: only handlers that move need an argument.
LEMMA Combine ==
    ASSUME TypeOK, TypeOK', StorageInv,
           \A u \in Uploads : UploadInv(u)' /\ Evolves(u),
           \A f \in Finalizers : fin'[f] = fin[f] \/ FinalizerInv(f)',
           \A w \in Sweepers : sweep'[w] = sweep[w] \/ SweeperInv(w)',
           \A c \in Clones : CloneInv(c)',
           ReferencesHold'
    PROVE  StorageInv'
<1>1. ASSUME NEW f \in Finalizers PROVE FinalizerInv(f)'
  BY FinalizerFrame DEF StorageInv
<1>2. ASSUME NEW w \in Sweepers PROVE SweeperInv(w)'
  BY SweeperFrame DEF StorageInv
<1>3. QED
  BY <1>1, <1>2 DEF StorageInv

\* create_upload, patch_upload and expiry preserve the invariant.
LEMMA UploadStepInv ==
    ASSUME TypeOK, TypeOK', StorageInv, NEW u \in Uploads, UploadStep(u)
    PROVE  StorageInv'
<1>1. /\ UNCHANGED <<obj, file, ver, clock, payload, fin, sweep, clone>>
      /\ \A x \in Uploads \ {u} :
            /\ sess'[x] = sess[x] /\ staging'[x] = staging[x]
            /\ patch'[x] = patch[x] /\ acked'[x] = acked[x]
  <2> USE DEF TypeOK, rows, disk
  <2>1. CASE \E n \in Sizes, r \in Minted \cup {NULL} : CreateStage(u, n, r)
    BY <2>1 DEF CreateStage
  <2>2. CASE CreateCommit(u) \/ SessionTimesOut(u) \/ TargetToggles(u)
    BY <2>2 DEF CreateCommit, SessionTimesOut, TargetToggles
  <2>3. CASE CreateFail(u)
    BY <2>3 DEF CreateFail
  <2>4. CASE PatchOpen(u) \/ \E d \in Data : PatchWrite(u, d)
    BY <2>4 DEF PatchOpen, PatchWrite
  <2>5. CASE PatchCommit(u)
    BY <2>5 DEF PatchCommit
  <2>6. CASE PatchFail(u)
    BY <2>6 DEF PatchFail
  <2>7. QED
    BY <2>1, <2>2, <2>3, <2>4, <2>5, <2>6 DEF UploadStep
<1>2. ASSUME NEW x \in Uploads PROVE UploadInv(x)' /\ Evolves(x)
  <2>0. UploadInv(x)
    BY DEF StorageInv
  <2>1. CASE x = u
    BY <2>0, <2>1, UploadOwn
  <2>2. CASE x # u
    <3>1. sess[x].state = "finalizing" => file'[sess[x].final].state # "none"
      BY <1>1, <2>0 DEF UploadInv, FinalizingInv
    <3>2. UploadInv(x)'
      BY <1>1, <2>0, <2>2, <3>1, UploadFrame
    <3>3. Evolves(x)
      BY <1>1, <2>2, EvolvesFrame
    <3>4. QED
      BY <3>2, <3>3
  <2>3. QED
    BY <2>1, <2>2
<1>3. ReferencesHold'
  BY <1>1 DEF StorageInv, ReferencesHold, VersionsOf
<1>4. \A c \in Clones : CloneInv(c)'
  BY <1>1, CloneFrame DEF StorageInv
<1>5. QED
  BY <1>1, <1>2, <1>3, <1>4, Combine

-----------------------------------------------------------------------------
(* Rows deleted with a file *)

\* What DeleteFileRows leaves of the invariant of an upload that is not the one
\* being rejected.
LEMMA DeleteFileRowsUpload ==
    ASSUME TypeOK, NEW f \in Minted, NEW sessions \in [Uploads -> Session],
           DeleteFileRows(f, sessions),
           NEW x \in Uploads, sessions[x] = sess[x], UploadInv(x),
           obj'[x] = obj[x], UNCHANGED <<staging, payload, patch, acked>>
    PROVE  UploadInv(x)' /\ Evolves(x)
<1>s. sess[x] \in Session
  BY DEF TypeOK
<1>v. ver'[x] = IF x \in VersionsOf(f) THEN NULL ELSE ver[x]
  BY DEF DeleteFileRows, Minted
<1>f. \A g \in Minted : g # f => file'[g] = file[g]
  BY DEF DeleteFileRows, TypeOK
<1>d. /\ staging'[x] = staging[x] /\ payload'[x] = payload[x]
      /\ patch'[x] = patch[x] /\ acked'[x] = acked[x]
  OBVIOUS
<1>1. CASE sess[x].final = f
  <2>1. sess[x].state \in {"finalizing", "completed"}
    BY <1>1, IdAssumption DEF UploadInv, SessionInv
  <2> DEFINE t == [sess[x] EXCEPT !.state = "deleted", !.replace = NULL,
                                  !.final = NULL]
  <2>2. sess'[x] = t
    BY <1>1 DEF DeleteFileRows
  <2>3. t.state = "deleted" /\ t.final = NULL /\ t.cleaned = sess[x].cleaned
    BY <1>s, Zenon DEF Session
  <2> HIDE DEF t
  <2>4. ~Locked(x) /\ ~sess[x].cleaned
    BY <2>1 DEF UploadInv, BytesInv, SessionInv
  <2>5. BytesInv(x)'
    BY <1>d, <2>2, <2>3, <2>4 DEF BytesInv, Locked
  <2>6. SessionInv(x)' /\ ObjectInv(x)' /\ DiskInv(x)' /\ FinalizingInv(x)'
    BY <1>d, <2>1, <2>2, <2>3, <2>4 DEF UploadInv, SessionInv, ObjectInv, DiskInv,
       FinalizingInv, PastBegin, Objectless
  <2>7. Evolves(x)
    BY <1>d, <2>1, <2>2, <2>3 DEF Evolves, PastBegin
  <2>8. QED
    BY <2>5, <2>6, <2>7 DEF UploadInv
<1>2. CASE sess[x].final # f
  <2>1. /\ sess'[x].state = sess[x].state /\ sess'[x].received = sess[x].received
        /\ sess'[x].final = sess[x].final /\ sess'[x].cleaned = sess[x].cleaned
        /\ sess'[x].expected = sess[x].expected
    <3>1. sess'[x] = sess[x] \/ sess'[x] = [sess[x] EXCEPT !.replace = NULL]
      BY <1>2 DEF DeleteFileRows
    <3>2. QED
      BY <1>s, <3>1, Zenon DEF Session
  <2>2. BytesInv(x)'
    BY <1>d, <2>1 DEF UploadInv, BytesInv, Locked
  <2>3. SessionInv(x)' /\ ObjectInv(x)' /\ DiskInv(x)'
    BY <1>d, <1>v, <2>1 DEF UploadInv, SessionInv, ObjectInv, DiskInv
  <2>4. FinalizingInv(x)'
    <3>1. SUFFICES ASSUME sess[x].state = "finalizing" PROVE FinalizingInv(x)'
      BY <2>1 DEF FinalizingInv
    <3>2. sess[x].final \in Minted
      BY <1>s, <3>1 DEF UploadInv, SessionInv, Session
    <3>3. x \notin VersionsOf(f)
      BY <1>2, <3>1 DEF UploadInv, FinalizingInv, VersionsOf
    <3>4. QED
      BY <1>2, <1>d, <1>f, <1>v, <2>1, <3>1, <3>2, <3>3 DEF UploadInv, FinalizingInv
  <2>5. Evolves(x)
    BY <1>d, <2>1 DEF Evolves
  <2>6. QED
    BY <2>2, <2>3, <2>4, <2>5 DEF UploadInv
<1>3. QED
  BY <1>1, <1>2

-----------------------------------------------------------------------------
(* finalize_upload *)

\* A finalizer's upload, while it runs.
LEMMA FinalizerUpload ==
    ASSUME TypeOK, StorageInv, NEW f \in Finalizers, fin[f].pc # "idle"
    PROVE  /\ fin[f].upload \in Uploads /\ fin[f].upload \in Minted
           /\ UploadInv(fin[f].upload)
           /\ sess[fin[f].upload] \in Session
           /\ sess[fin[f].upload].state \in PastBegin
BY DEF TypeOK, StorageInv, FinalizerInv, Finalizer, Minted

\* A step of a finalizer that only moves to another label.
LEMMA FinalizerMoves ==
    ASSUME TypeOK, TypeOK', StorageInv, NEW f \in Finalizers,
           UNCHANGED <<rows, disk, patch, sweep, clone, acked>>,
           \A g \in Finalizers \ {f} : fin'[g] = fin[g],
           FinalizerInv(f)'
    PROVE  StorageInv'
<1>1. /\ \A u \in Uploads : UploadInv(u)' /\ Evolves(u)
      /\ ReferencesHold'
      /\ \A c \in Clones : CloneInv(c)'
  BY HandlerStep
<1>2. \A g \in Finalizers : fin'[g] = fin[g] \/ FinalizerInv(g)'
  OBVIOUS
<1>3. QED
  BY <1>1, <1>2, Combine

\* The first transaction of finalize_upload.
LEMMA FinalizeBeginInv ==
    ASSUME TypeOK, TypeOK', StorageInv, NEW f \in Finalizers, NEW u \in Uploads,
           FinalizeBegin(f, u)
    PROVE  StorageInv'
<1> DEFINE target == IF sess[u].replace = NULL THEN u ELSE sess[u].replace
           t == [sess[u] EXCEPT !.state = "finalizing", !.final = target]
<1>s. sess[u] \in Session /\ u \in Minted /\ UploadInv(u)
  BY DEF TypeOK, Minted, StorageInv
<1>a. sess[u].state = "active" /\ ~Locked(u) /\ sess[u].received = sess[u].expected
  BY DEF FinalizeBegin, UsableSession
<1>b. target \in Minted /\ target # NULL
  BY <1>s, IdAssumption DEF Session
<1>1. sess' = [sess EXCEPT ![u] = t]
  BY Zenon DEF FinalizeBegin
<1>2. /\ t.state = "finalizing" /\ t.final = target /\ t.cleaned = sess[u].cleaned
      /\ t.received = sess[u].received /\ t.expected = sess[u].expected
  BY <1>s, Zenon DEF Session
<1>3. AddVersion(u, target, u)
  BY DEF FinalizeBegin
<1> HIDE DEF target, t
<1>4. sess'[u] = t /\ \A x \in Uploads : x # u => sess'[x] = sess[x]
  BY <1>1 DEF TypeOK
<1>5. /\ obj'[u] = [state |-> "pending", sum |-> NULL]
      /\ \A x \in Uploads : x # u => obj'[x] = obj[x]
      /\ fin'[f] = [pc |-> "reload", upload |-> u, sum |-> NULL]
      /\ \A g \in Finalizers : g # f => fin'[g] = fin[g]
      /\ UNCHANGED <<staging, payload, patch, sweep, clone, acked>>
  BY DEF FinalizeBegin, TypeOK, disk
<1>6. /\ ver'[u] = [file |-> target, object |-> u, at |-> clock]
      /\ \A v \in Minted : v # u => ver'[v] = ver[v]
      /\ file'[target].state # "none"
      /\ \A g \in Minted : g # target => file'[g] = file[g]
  BY <1>3, <1>s, <1>b DEF AddVersion, TypeOK
<1>7. ver'[u] # NULL
  BY <1>6, <1>s, <1>b, VersionAssumption DEF Version, TypeOK
<1>8. /\ acked[u] \in Seq(Data) /\ staging[u] \in Seq(Data)
      /\ Len(acked[u]) = sess[u].received /\ Truncated(u) = acked[u]
      /\ payload[u] = NULL /\ ver[u] = NULL /\ ~sess[u].cleaned
  BY <1>s, <1>a, ActiveFacts
<1>9. staging[u] = acked[u]
  <2>1. Len(staging[u]) = sess[u].received
    <3>1. Len(staging[u]) >= sess[u].received /\ Len(staging[u]) <= sess[u].expected
          /\ sess[u].received \in Nat
      BY <1>s, <1>a DEF UploadInv, BytesInv, Session
    <3>2. Len(staging[u]) \in Nat
      BY <1>8, LenProperties
    <3>3. QED
      BY <1>a, <3>1, <3>2
  <2>2. SubSeq(staging[u], 1, Len(staging[u])) = staging[u]
    BY <1>8, SubSeqFull
  <2>3. QED
    BY <1>8, <2>1, <2>2 DEF Truncated
<1>10. UploadInv(u)' /\ Evolves(u)
  <2>1. BytesInv(u)'
    BY <1>2, <1>4, <1>5, <1>a DEF BytesInv, Locked
  <2>2. SessionInv(u)'
    BY <1>2, <1>4, <1>8, <1>b DEF SessionInv, PastBegin
  <2>3. ObjectInv(u)' /\ DiskInv(u)'
    BY <1>2, <1>4, <1>5, <1>8 DEF ObjectInv, DiskInv, PastBegin, Objectless
  <2>4. FinalizingInv(u)'
    BY <1>2, <1>4, <1>5, <1>6, <1>7, <1>8, <1>9, <1>a DEF FinalizingInv
  <2>5. Evolves(u)
    BY <1>a DEF Evolves, PastBegin
  <2>6. QED
    BY <2>1, <2>2, <2>3, <2>4, <2>5 DEF UploadInv
<1>11. ASSUME NEW x \in Uploads PROVE UploadInv(x)' /\ Evolves(x)
  <2>1. CASE x = u
    BY <1>10, <2>1
  <2>2. CASE x # u
    <3>1. UploadInv(x) /\ x \in Minted
      BY DEF StorageInv, Minted
    <3>2. sess[x].state = "finalizing" => file'[sess[x].final].state # "none"
      <4>1. SUFFICES ASSUME sess[x].state = "finalizing"
                     PROVE  file'[sess[x].final].state # "none"
        OBVIOUS
      <4>2. sess[x].final \in Minted /\ file[sess[x].final].state # "none"
        BY <3>1, <4>1 DEF UploadInv, FinalizingInv, SessionInv, TypeOK, Session
      <4>3. QED
        BY <1>6, <4>2
    <3>3. UploadInv(x)'
      BY <1>4, <1>5, <1>6, <2>2, <3>1, <3>2, UploadFrame
    <3>4. Evolves(x)
      BY <1>4, <1>5, <2>2, EvolvesFrame
    <3>5. QED
      BY <3>3, <3>4
  <2>3. QED
    BY <2>1, <2>2
<1>12. FinalizerInv(f)'
  BY <1>2, <1>4, <1>5, IdAssumption DEF FinalizerInv, PastBegin, Minted
<1>13. ReferencesHold'
  <2>1. \A x \in Uploads : obj[x].state # "none" => obj'[x].state # "none"
    BY <1>5
  <2>2. QED
    BY <1>3, <1>5, <1>8, <1>s, <1>b, <2>1, ReferencesAdd DEF StorageInv
<1>14. \A c \in Clones : CloneInv(c)'
  <2>1. \A c \in Clones : c # u /\ c \in Minted
    BY IdAssumption DEF Minted
  <2>2. QED
    BY <1>5, <1>6, <2>1, CloneFrame DEF StorageInv
<1>15. QED
  BY <1>5, <1>11, <1>12, <1>13, <1>14, Combine

\* FinalizeRename: the bytes change sides, never their content.
LEMMA FinalizeRenameInv ==
    ASSUME TypeOK, TypeOK', StorageInv, NEW f \in Finalizers,
           NEW u \in Uploads, u = fin[f].upload, FinalizeRename(f)
    PROVE  StorageInv'
<1>p. fin[f].pc = "rename"
  BY DEF FinalizeRename
<1>s. u \in Uploads /\ UploadInv(u) /\ sess[u].state \in PastBegin
  BY <1>p, FinalizerUpload
<1>0. /\ fin'[f].upload = u /\ fin'[f].pc = "hash"
      /\ \A g \in Finalizers : g # f => fin'[g] = fin[g]
      /\ UNCHANGED <<sess, obj, file, ver, clock, patch, sweep, clone, acked>>
  BY DEF FinalizeRename, GoTo, rows, TypeOK, Finalizer
<1>1. FinalizerInv(f)'
  BY <1>0, <1>s, IdAssumption DEF FinalizerInv, Minted
<1>2. CASE UNCHANGED disk
  <2>1. UNCHANGED <<rows, disk, patch, sweep, clone, acked>>
    BY <1>0, <1>2 DEF rows
  <2>2. QED
    BY <1>0, <1>1, <2>1, FinalizerMoves
<1>3. CASE staging[u] # NULL /\ Rename(u)
  <2>1. /\ payload'[u] = staging[u] /\ staging'[u] = NULL
        /\ \A x \in Uploads : x # u => payload'[x] = payload[x] /\ staging'[x] = staging[x]
    BY <1>3, <1>s DEF Rename, TypeOK
  <2>2. payload[u] = NULL /\ sess[u].state \notin {"completed", "failed"}
        /\ obj[u].state # "ready" /\ acked[u] # NULL
    BY <1>3, <1>s, DataAssumption DEF UploadInv, DiskInv, ObjectInv, TypeOK, Content
  <2>3. UploadInv(u)' /\ Evolves(u)
    <3>1. BytesInv(u)'
      BY <1>0, <1>s DEF UploadInv, BytesInv, Locked, PastBegin
    <3>2. SessionInv(u)' /\ ObjectInv(u)' /\ DiskInv(u)'
      BY <1>0, <1>s, <2>1, <2>2 DEF UploadInv, SessionInv, ObjectInv, DiskInv
    <3>3. FinalizingInv(u)'
      BY <1>0, <1>3, <1>s, <2>1 DEF UploadInv, FinalizingInv
    <3>4. Evolves(u)
      BY <1>0, <2>1, <2>2 DEF Evolves
    <3>5. QED
      BY <3>1, <3>2, <3>3, <3>4 DEF UploadInv
  <2>4. ASSUME NEW x \in Uploads PROVE UploadInv(x)' /\ Evolves(x)
    <3>0. UploadInv(x)
      BY DEF StorageInv
    <3>1. CASE x # u
      <4>1. sess[x].state = "finalizing" => file'[sess[x].final].state # "none"
        BY <1>0, <3>0 DEF UploadInv, FinalizingInv
      <4>2. UploadInv(x)'
        BY <1>0, <2>1, <3>0, <3>1, <4>1, UploadFrame
      <4>3. QED
        BY <1>0, <2>1, <3>1, <4>2, EvolvesFrame
    <3>2. CASE x = u
      BY <2>3, <3>2
    <3>3. QED
      BY <3>1, <3>2
  <2>5. ReferencesHold'
    BY <1>0 DEF StorageInv, ReferencesHold, VersionsOf
  <2>6. \A c \in Clones : CloneInv(c)'
    BY <1>0, CloneFrame DEF StorageInv
  <2>7. QED
    BY <1>0, <1>1, <2>4, <2>5, <2>6, Combine
<1>4. QED
  BY <1>2, <1>3 DEF FinalizeRename

\* The second transaction: what becomes ready is what was acknowledged.
LEMMA FinalizeCompleteInv ==
    ASSUME TypeOK, TypeOK', StorageInv, NEW f \in Finalizers,
           NEW u \in Uploads, u = fin[f].upload, FinalizeComplete(f)
    PROVE  StorageInv'
<1>p. fin[f].pc = "complete" /\ sess[u].state = "finalizing"
  BY DEF FinalizeComplete
<1>s. UploadInv(u) /\ sess[u] \in Session /\ FinalizerInv(f)
  BY DEF StorageInv, TypeOK
<1>d. /\ payload[u] = acked[u] /\ fin[f].sum = acked[u] /\ acked[u] # NULL
      /\ staging[u] = NULL /\ obj[u].state = "pending"
  <2>1. payload[u] = acked[u] /\ fin[f].sum = acked[u]
    BY <1>p, <1>s DEF FinalizerInv
  <2>2. acked[u] # NULL
    BY DataAssumption DEF TypeOK, Content
  <2>3. QED
    BY <1>p, <1>s, <2>1, <2>2 DEF UploadInv, DiskInv, ObjectInv
<1>0. /\ fin'[f] = IdleFinalizer /\ \A g \in Finalizers : g # f => fin'[g] = fin[g]
      /\ obj'[u] = [state |-> "ready", sum |-> fin[f].sum]
      /\ \A x \in Uploads : x # u => obj'[x] = obj[x] /\ sess'[x] = sess[x]
      /\ UNCHANGED <<file, ver, clock, staging, payload, patch, sweep, clone, acked>>
  BY <1>d DEF FinalizeComplete, disk, TypeOK
<1>1. /\ sess'[u].state = "completed" /\ sess'[u].final = sess[u].final
      /\ sess'[u].cleaned = sess[u].cleaned
  BY <1>s DEF FinalizeComplete, TypeOK, Session
<1>2. UploadInv(u)' /\ Evolves(u)
  <2>1. BytesInv(u)'
    BY <1>0, <1>1, <1>p, <1>s DEF UploadInv, BytesInv, Locked
  <2>2. SessionInv(u)' /\ ObjectInv(u)' /\ DiskInv(u)' /\ FinalizingInv(u)'
    BY <1>0, <1>1, <1>d, <1>p, <1>s DEF UploadInv, SessionInv, ObjectInv, DiskInv,
       FinalizingInv, PastBegin, Objectless
  <2>3. Evolves(u)
    BY <1>1, <1>p DEF Evolves, PastBegin
  <2>4. QED
    BY <2>1, <2>2, <2>3 DEF UploadInv
<1>3. ASSUME NEW x \in Uploads PROVE UploadInv(x)' /\ Evolves(x)
  <2>0. UploadInv(x)
    BY DEF StorageInv
  <2>1. CASE x # u
    <3>1. sess[x].state = "finalizing" => file'[sess[x].final].state # "none"
      BY <1>0, <2>0 DEF UploadInv, FinalizingInv
    <3>2. UploadInv(x)'
      BY <1>0, <2>0, <2>1, <3>1, UploadFrame
    <3>3. QED
      BY <1>0, <2>1, <3>2, EvolvesFrame
  <2>2. CASE x = u
    BY <1>2, <2>2
  <2>3. QED
    BY <2>1, <2>2
<1>4. FinalizerInv(f)'
  BY <1>0 DEF FinalizerInv, IdleFinalizer
<1>5. ReferencesHold'
  <2>1. \A o \in Uploads : HasVersion(o) => obj'[o].state # "none"
    BY <1>0 DEF StorageInv, ReferencesHold, HasVersion
  <2>2. QED
    BY <1>0, <2>1, ReferencesFrame DEF StorageInv
<1>6. \A c \in Clones : CloneInv(c)'
  BY <1>0, CloneFrame DEF StorageInv
<1>7. QED
  BY <1>0, <1>3, <1>4, <1>5, <1>6, Combine

\* The upload a rejection settles, by either of its two transactions.
LEMMA RejectedUpload ==
    ASSUME TypeOK, StorageInv, NEW f \in Finalizers,
           NEW u \in Uploads, u = fin[f].upload,
           fin[f].pc = "reject", sess[u].state = "finalizing",
           sess'[u].state = "failed", sess'[u].final = NULL,
           sess'[u].cleaned = sess[u].cleaned,
           obj'[u] = [state |-> "none", sum |-> NULL],
           UNCHANGED <<disk, patch, acked>>
    PROVE  UploadInv(u)' /\ Evolves(u)
<1>1. UploadInv(u) /\ FinalizerInv(f)
  BY DEF StorageInv
<1>2. payload[u] = acked[u] /\ acked[u] # NULL
  BY <1>1, DataAssumption DEF FinalizerInv, TypeOK, Content
<1>3. staging[u] = NULL /\ staging' = staging /\ payload' = payload
  BY <1>1, <1>2 DEF UploadInv, DiskInv, disk
<1>4. BytesInv(u)'
  BY <1>1 DEF UploadInv, BytesInv, Locked
<1>5. SessionInv(u)' /\ ObjectInv(u)' /\ DiskInv(u)' /\ FinalizingInv(u)'
  BY <1>1, <1>3 DEF UploadInv, SessionInv, ObjectInv, DiskInv, FinalizingInv,
     PastBegin, Objectless
<1>6. Evolves(u)
  BY DEF Evolves, PastBegin
<1>7. QED
  BY <1>4, <1>5, <1>6 DEF UploadInv

\* The finalizer goes on to unlink what it rejected.
LEMMA RejectedFinalizer ==
    ASSUME TypeOK, NEW f \in Finalizers, NEW u \in Uploads, u = fin[f].upload,
           GoTo(f, "unlink"), sess'[u].state = "failed"
    PROVE  FinalizerInv(f)' /\ \A g \in Finalizers : g # f => fin'[g] = fin[g]
<1>1. /\ fin'[f].upload = u /\ fin'[f].pc = "unlink"
      /\ \A g \in Finalizers : g # f => fin'[g] = fin[g]
  BY DEF GoTo, TypeOK, Finalizer
<1>2. u # NULL
  BY IdAssumption DEF Minted
<1>3. QED
  BY <1>1, <1>2 DEF FinalizerInv, PastBegin

\* reject_mismatched_upload for a replacement: the version it deletes is its own.
LEMMA RejectReplacementInv ==
    ASSUME TypeOK, TypeOK', StorageInv, NEW f \in Finalizers,
           NEW u \in Uploads, u = fin[f].upload, RejectReplacement(f)
    PROVE  StorageInv'
<1> DEFINE target == sess[u].final
           t == [sess[u] EXCEPT !.state = "failed", !.final = NULL]
           cur == file[target].cur
<1>p. fin[f].pc = "reject" /\ sess[u].state = "finalizing" /\ sess[u].replace # NULL
  BY DEF RejectReplacement
<1>s. UploadInv(u) /\ sess[u] \in Session /\ u \in Minted /\ ReferencesHold
  BY DEF StorageInv, TypeOK, Minted
<1>t. target \in Minted /\ ver[u] # NULL /\ ver[u].file = target /\ ver[u].object = u
  BY <1>p, <1>s DEF UploadInv, SessionInv, FinalizingInv, Session
<1>c. cur = u
  <2>1. ObjectDeletable(u, RejectedVersions(u))
    BY DEF RejectReplacement
  <2>2. u \in RejectedVersions(u)
    BY <1>s, <1>t, <2>1 DEF ObjectDeletable
  <2>3. QED
    BY <1>p, <2>2 DEF RejectedVersions
<1>r. RejectedVersions(u) = {u}
  BY <1>c, <1>p, <1>s, IdAssumption DEF RejectedVersions
<1>1. /\ sess' = [sess EXCEPT ![u] = t]
      /\ file' = [file EXCEPT ![target].cur = PreviousVersion(target, u)]
      /\ ver' = [v \in Minted |-> IF v \in {u} THEN NULL ELSE ver[v]]
      /\ obj' = [obj EXCEPT ![u] = [state |-> "none", sum |-> NULL]]
      /\ GoTo(f, "unlink")
      /\ UNCHANGED <<clock, disk, patch, sweep, clone, acked>>
  BY <1>c, <1>r, Zenon DEF RejectReplacement
<1>2. t.state = "failed" /\ t.final = NULL /\ t.cleaned = sess[u].cleaned
  BY <1>s, Zenon DEF Session
<1> HIDE DEF t
<1>3. /\ sess'[u] = t /\ obj'[u] = [state |-> "none", sum |-> NULL]
      /\ \A x \in Uploads : x # u => sess'[x] = sess[x] /\ obj'[x] = obj[x]
  BY <1>1 DEF TypeOK
<1>4. /\ ver'[u] = NULL /\ \A v \in Minted : v # u => ver'[v] = ver[v]
      /\ \A g \in Minted : /\ g # target => file'[g] = file[g]
                           /\ file'[g].state = file[g].state
      /\ file'[target].cur = PreviousVersion(target, u)
  <2>1. file[target] \in Entry
    BY <1>t DEF TypeOK
  <2>2. QED
    BY <1>1, <1>s, <1>t, <2>1 DEF TypeOK, Entry
<1>5. UploadInv(u)' /\ Evolves(u)
  BY <1>1, <1>2, <1>3, <1>p, RejectedUpload
<1>6. ASSUME NEW x \in Uploads PROVE UploadInv(x)' /\ Evolves(x)
  <2>0. UploadInv(x) /\ sess[x] \in Session /\ x \in Minted
    BY DEF StorageInv, TypeOK, Minted
  <2>1. CASE x # u
    <3>1. sess[x].state = "finalizing" => file'[sess[x].final].state # "none"
      BY <1>4, <2>0 DEF UploadInv, SessionInv, FinalizingInv, Session
    <3>2. UploadInv(x)'
      BY <1>1, <1>3, <1>4, <2>0, <2>1, <3>1, UploadFrame DEF disk
    <3>3. QED
      BY <1>1, <1>3, <2>1, <3>2, EvolvesFrame DEF disk
  <2>2. CASE x = u
    BY <1>5, <2>2
  <2>3. QED
    BY <2>1, <2>2
<1>7. FinalizerInv(f)' /\ \A g \in Finalizers : g # f => fin'[g] = fin[g]
  BY <1>1, <1>2, <1>3, RejectedFinalizer
<1>8. ReferencesHold'
  <2>1. ASSUME NEW v \in Minted, ver'[v] # NULL
        PROVE  /\ obj'[ver'[v].object].state # "none"
               /\ file'[ver'[v].file].state # "none"
    <3>1. v # u /\ ver'[v] = ver[v] /\ ver[v] # NULL
      BY <1>4, <2>1
    <3>2. ver[v].object \in Uploads /\ ver[v].file \in Minted
      BY <3>1 DEF TypeOK, Version
    <3>3. ver[v].object # u
      <4>1. ObjectDeletable(u, {u})
        BY <1>r DEF RejectReplacement
      <4>2. QED
        BY <3>1, <4>1 DEF ObjectDeletable
    <3>4. QED
      BY <1>3, <1>4, <1>s, <3>1, <3>2, <3>3 DEF ReferencesHold
  <2>2. ASSUME NEW g \in Minted, file'[g].cur # NULL
        PROVE  file'[g].cur \in Minted /\ ver'[file'[g].cur] # NULL
               /\ ver'[file'[g].cur].file = g
    <3>1. CASE g = target
      <4>1. PreviousVersion(target, u) # NULL
        BY <1>4, <2>2, <3>1
      <4>2. PreviousVersion(target, u) \in VersionsOf(target) \ {u}
        BY <4>1 DEF PreviousVersion
      <4>3. QED
        BY <1>4, <3>1, <4>2 DEF VersionsOf
    <3>2. CASE g # target
      <4>1. file'[g] = file[g] /\ file[g].cur \in VersionsOf(g)
        BY <1>4, <1>s, <2>2, <3>2 DEF ReferencesHold
      <4>2. file[g].cur # u
        BY <1>t, <3>2, <4>1 DEF VersionsOf
      <4>3. QED
        BY <1>4, <4>1, <4>2 DEF VersionsOf
    <3>3. QED
      BY <3>1, <3>2
  <2>3. QED
    BY <2>1, <2>2 DEF ReferencesHold, VersionsOf
<1>9. \A c \in Clones : CloneInv(c)'
  <2>1. \A c \in Clones : c # u /\ c \in Minted
    BY IdAssumption DEF Minted
  <2>2. QED
    BY <1>1, <1>4, <2>1, CloneFrame DEF StorageInv
<1>10. QED
  BY <1>1, <1>6, <1>7, <1>8, <1>9, Combine

\* reject_mismatched_upload for a file the upload created: the file goes, with
\* every session that ended in it.
LEMMA RejectNewFileInv ==
    ASSUME TypeOK, TypeOK', StorageInv, NEW f \in Finalizers,
           NEW u \in Uploads, u = fin[f].upload, RejectNewFile(f)
    PROVE  StorageInv'
<1> DEFINE target == sess[u].final
           t == [sess[u] EXCEPT !.state = "failed", !.final = NULL]
           sessions == [sess EXCEPT ![u] = t]
<1>p. fin[f].pc = "reject" /\ sess[u].state = "finalizing" /\ sess[u].replace = NULL
      /\ file[target].cur # NULL /\ ObjectDeletable(u, RejectedVersions(u))
  BY DEF RejectNewFile
<1>s. UploadInv(u) /\ sess[u] \in Session /\ u \in Minted /\ ReferencesHold
  BY DEF StorageInv, TypeOK, Minted
<1>t. target \in Minted
  BY <1>p, <1>s DEF UploadInv, SessionInv, Session
<1>1. /\ DeleteFileRows(target, sessions)
      /\ obj' = [obj EXCEPT ![u] = [state |-> "none", sum |-> NULL]]
      /\ GoTo(f, "unlink")
      /\ UNCHANGED <<clock, disk, patch, sweep, clone, acked>>
  BY Zenon DEF RejectNewFile
<1>2. /\ t.state = "failed" /\ t.final = NULL /\ t.cleaned = sess[u].cleaned
      /\ t.replace = NULL /\ t \in Session
  BY <1>p, <1>s, Zenon DEF Session, SessionStates
<1> HIDE DEF t
<1>3. /\ sessions \in [Uploads -> Session] /\ sessions[u] = t
      /\ \A x \in Uploads : x # u => sessions[x] = sess[x]
  BY <1>2 DEF TypeOK
<1>4. /\ obj'[u] = [state |-> "none", sum |-> NULL]
      /\ \A x \in Uploads : x # u => obj'[x] = obj[x]
  BY <1>1 DEF TypeOK
<1> HIDE DEF sessions
<1>5. UploadInv(u)' /\ Evolves(u) /\ sess'[u].state = "failed"
  <2>1. sess'[u] = t
    BY <1>1, <1>2, <1>3, <1>t, IdAssumption DEF DeleteFileRows
  <2>2. QED
    BY <1>1, <1>2, <1>4, <1>p, <2>1, RejectedUpload
<1>6. ASSUME NEW x \in Uploads PROVE UploadInv(x)' /\ Evolves(x)
  <2>1. CASE x # u
    BY <1>1, <1>3, <1>4, <1>t, <2>1, DeleteFileRowsUpload DEF StorageInv, disk
  <2>2. CASE x = u
    BY <1>5, <2>2
  <2>3. QED
    BY <2>1, <2>2
<1>7. FinalizerInv(f)' /\ \A g \in Finalizers : g # f => fin'[g] = fin[g]
  BY <1>1, <1>5, RejectedFinalizer
<1>8. ReferencesHold'
  <2>1. RejectedVersions(u) = VersionsOf(target)
    BY <1>p DEF RejectedVersions
  <2>2. ASSUME NEW v \in Minted \ VersionsOf(target), ver[v] # NULL
        PROVE  obj'[ver[v].object].state # "none"
    <3>1. ver[v].object \in Uploads /\ ver[v].object # u
      BY <1>p, <2>1, <2>2 DEF ObjectDeletable, TypeOK, Version
    <3>2. QED
      BY <1>4, <1>s, <2>2, <3>1 DEF ReferencesHold
  <2>3. QED
    BY <1>1, <1>s, <1>t, <2>2, ReferencesDelete
<1>9. \A c \in Clones : CloneInv(c)'
  <2>1. \A c \in Clones : ver[c] = NULL => ver'[c] = NULL
    BY <1>1 DEF DeleteFileRows, Minted
  <2>2. QED
    BY <1>1, <2>1, CloneFrame DEF StorageInv
<1>10. QED
  BY <1>1, <1>6, <1>7, <1>8, <1>9, Combine

\* Unlinking the payload of a rejected upload.
LEMMA FinalizeUnlinkInv ==
    ASSUME TypeOK, TypeOK', StorageInv, NEW f \in Finalizers,
           NEW u \in Uploads, u = fin[f].upload, FinalizeUnlink(f)
    PROVE  StorageInv'
<1>0. /\ fin'[f] = IdleFinalizer /\ \A g \in Finalizers : g # f => fin'[g] = fin[g]
      /\ payload'[u] = NULL /\ \A x \in Uploads : x # u => payload'[x] = payload[x]
      /\ UNCHANGED <<sess, obj, file, ver, clock, staging, patch, sweep, clone, acked>>
  BY DEF FinalizeUnlink, rows, TypeOK
<1>s. UploadInv(u) /\ sess[u].state = "failed"
  BY DEF StorageInv, FinalizerInv, FinalizeUnlink
<1>1. UploadInv(u)' /\ Evolves(u)
  <2>1. BytesInv(u)'
    BY <1>0, <1>s DEF UploadInv, BytesInv, Locked
  <2>2. SessionInv(u)' /\ ObjectInv(u)' /\ DiskInv(u)' /\ FinalizingInv(u)'
    BY <1>0, <1>s DEF UploadInv, SessionInv, ObjectInv, DiskInv, FinalizingInv,
       Objectless
  <2>3. Evolves(u)
    BY <1>0, <1>s DEF Evolves
  <2>4. QED
    BY <2>1, <2>2, <2>3 DEF UploadInv
<1>2. ASSUME NEW x \in Uploads PROVE UploadInv(x)' /\ Evolves(x)
  <2>0. UploadInv(x)
    BY DEF StorageInv
  <2>1. CASE x # u
    <3>1. sess[x].state = "finalizing" => file'[sess[x].final].state # "none"
      BY <1>0, <2>0 DEF UploadInv, FinalizingInv
    <3>2. UploadInv(x)'
      BY <1>0, <2>0, <2>1, <3>1, UploadFrame
    <3>3. QED
      BY <1>0, <2>1, <3>2, EvolvesFrame
  <2>2. CASE x = u
    BY <1>1, <2>2
  <2>3. QED
    BY <2>1, <2>2
<1>3. FinalizerInv(f)'
  BY <1>0 DEF FinalizerInv, IdleFinalizer
<1>4. ReferencesHold'
  BY <1>0 DEF StorageInv, ReferencesHold, VersionsOf
<1>5. \A c \in Clones : CloneInv(c)'
  BY <1>0, CloneFrame DEF StorageInv
<1>6. QED
  BY <1>0, <1>2, <1>3, <1>4, <1>5, Combine

\* finalize_upload preserves the invariant.
LEMMA FinalizeStepInv ==
    ASSUME TypeOK, TypeOK', StorageInv, NEW f \in Finalizers, FinalizeStep(f)
    PROVE  StorageInv'
<1>f. fin \in [Finalizers -> Finalizer] /\ FinalizerInv(f)
  BY DEF TypeOK, StorageInv
<1>g. ASSUME NEW pc \in {"lookup", "source", "moved", "destination", "collision",
                         "rename", "hash"},
             GoTo(f, pc), fin[f].pc # "idle",
             UNCHANGED <<rows, disk, patch, sweep, clone, acked>>
      PROVE  StorageInv'
  <2>1. /\ fin'[f].pc = pc /\ fin'[f].upload = fin[f].upload
        /\ \A x \in Finalizers \ {f} : fin'[x] = fin[x]
    BY <1>f, <1>g DEF GoTo, Finalizer
  <2>2. FinalizerInv(f)'
    BY <1>f, <1>g, <2>1 DEF FinalizerInv, rows
  <2>3. QED
    BY <1>g, <2>1, <2>2, FinalizerMoves
<1>1. ASSUME NEW u \in Uploads, FinalizeBegin(f, u) PROVE StorageInv'
  BY <1>1, FinalizeBeginInv
<1>2. ASSUME NEW u \in Uploads, FinalizeResume(f, u) PROVE StorageInv'
  <2>1. /\ fin'[f] = [pc |-> "lookup", upload |-> u, sum |-> NULL]
        /\ \A x \in Finalizers \ {f} : fin'[x] = fin[x]
        /\ UNCHANGED <<rows, disk, patch, sweep, clone, acked>>
    BY <1>2, <1>f DEF FinalizeResume
  <2>2. FinalizerInv(f)'
    BY <1>2, <2>1, IdAssumption DEF FinalizeResume, FinalizerInv, PastBegin, Minted,
       rows
  <2>3. QED
    BY <2>1, <2>2, FinalizerMoves
<1>3. CASE FinalizeReload(f)
  BY <1>3, <1>g DEF FinalizeReload
<1>4. CASE FinalizeLookup(f)
  BY <1>4, <1>g DEF FinalizeLookup
<1>5. CASE FinalizeSource(f)
  BY <1>5, <1>g DEF FinalizeSource
<1>6. CASE FinalizeMoved(f)
  BY <1>6, <1>g DEF FinalizeMoved
<1>7. CASE FinalizeDestination(f)
  BY <1>7, <1>g DEF FinalizeDestination
<1>8. CASE FinalizeHash(f)
  <2> DEFINE u == fin[f].upload
  <2>1. PICK next \in {"complete", "reject"} :
          fin' = [fin EXCEPT ![f] = [pc |-> next, upload |-> u, sum |-> Hashed(u)]]
    BY <1>8 DEF FinalizeHash
  <2>2. /\ fin'[f] = [pc |-> next, upload |-> u, sum |-> payload[u]]
        /\ \A x \in Finalizers \ {f} : fin'[x] = fin[x]
    BY <1>f, <2>1 DEF Hashed
  <2>3. UNCHANGED <<rows, disk, patch, sweep, clone, acked>> /\ payload[u] # NULL
        /\ fin[f].pc = "hash"
    BY <1>8 DEF FinalizeHash
  <2>4. u \in Uploads /\ UploadInv(u) /\ sess[u].state \in PastBegin /\ u # NULL
    BY <2>3, FinalizerUpload, IdAssumption
  <2>5. sess[u].state = "finalizing" => payload[u] = acked[u]
    BY <2>3, <2>4 DEF UploadInv, FinalizingInv
  <2>6. FinalizerInv(f)'
    BY <2>2, <2>3, <2>4, <2>5 DEF FinalizerInv, rows, disk
  <2>7. QED
    BY <2>2, <2>3, <2>6, FinalizerMoves
<1>9. CASE FinalizeFail(f)
  <2>1. /\ fin'[f] = IdleFinalizer
        /\ \A x \in Finalizers \ {f} : fin'[x] = fin[x]
        /\ UNCHANGED <<rows, disk, patch, sweep, clone, acked>>
    BY <1>9, <1>f DEF FinalizeFail
  <2>2. FinalizerInv(f)'
    BY <2>1 DEF FinalizerInv, IdleFinalizer
  <2>3. QED
    BY <2>1, <2>2, FinalizerMoves
<1>u. fin[f].pc # "idle" => \E u \in Uploads : u = fin[f].upload
  BY FinalizerUpload
<1>10. CASE FinalizeRename(f)
  <2>1. PICK u \in Uploads : u = fin[f].upload
    BY <1>10, <1>u DEF FinalizeRename
  <2>2. QED
    BY <1>10, <2>1, FinalizeRenameInv
<1>11. CASE FinalizeComplete(f)
  <2>1. PICK u \in Uploads : u = fin[f].upload
    BY <1>11, <1>u DEF FinalizeComplete
  <2>2. QED
    BY <1>11, <2>1, FinalizeCompleteInv
<1>12. CASE RejectReplacement(f)
  <2>1. PICK u \in Uploads : u = fin[f].upload
    BY <1>12, <1>u DEF RejectReplacement
  <2>2. QED
    BY <1>12, <2>1, RejectReplacementInv
<1>13. CASE RejectNewFile(f)
  <2>1. PICK u \in Uploads : u = fin[f].upload
    BY <1>13, <1>u DEF RejectNewFile
  <2>2. QED
    BY <1>13, <2>1, RejectNewFileInv
<1>14. CASE FinalizeUnlink(f)
  <2>1. PICK u \in Uploads : u = fin[f].upload
    BY <1>14, <1>u DEF FinalizeUnlink
  <2>2. QED
    BY <1>14, <2>1, FinalizeUnlinkInv
<1>15. QED
  BY <1>1, <1>2, <1>3, <1>4, <1>5, <1>6, <1>7, <1>8, <1>9, <1>10, <1>11, <1>12,
     <1>13, <1>14 DEF FinalizeStep

-----------------------------------------------------------------------------
(* Cancel, the worker, purges *)

\* The list of a sweeper and what it makes of it.
LEMMA SweeperLists ==
    ASSUME TypeOK, NEW w \in Sweepers
    PROVE  /\ sweep[w].todo \in SUBSET Uploads
           /\ sweep[w].doing \in Uploads \cup {NULL}
           /\ Handling(w) \in SUBSET Uploads
           /\ sweep[w].todo \subseteq Handling(w)
           /\ sweep[w].doing # NULL => sweep[w].doing \in Handling(w)
BY DEF TypeOK, Sweeper, Handling

\* A sweeper whose list shrinks, or that stops, keeps its invariant.
LEMMA SweeperShrinks ==
    ASSUME TypeOK, TypeOK', NEW w \in Sweepers, SweeperInv(w),
           sweep'[w] = IdleSweeper \/
             /\ sweep'[w].pc = sweep[w].pc
             /\ sweep'[w].todo \subseteq sweep[w].todo
             /\ sweep'[w].doing = NULL,
           \A u \in Uploads : Evolves(u)
    PROVE  SweeperInv(w)'
<1>1. CASE sweep'[w] = IdleSweeper
  BY <1>1 DEF SweeperInv, IdleSweeper
<1>2. CASE /\ sweep'[w].pc = sweep[w].pc
           /\ sweep'[w].todo \subseteq sweep[w].todo
           /\ sweep'[w].doing = NULL
  <2>1. Handling(w)' \subseteq Handling(w) /\ Handling(w) \in SUBSET Uploads
    BY <1>2, SweeperLists DEF Handling
  <2>2. QED
    BY <1>2, <2>1 DEF SweeperInv, Evolves
<1>3. QED
  BY <1>1, <1>2

\* A sweeper that begins has nothing in doing.
LEMMA SweeperBegins ==
    ASSUME NEW w \in Sweepers, NEW pc, NEW ids,
           sweep'[w] = Begun(pc, ids),
           pc \in {"cancel", "staging"} =>
               \A u \in ids : sess'[u].state \in {"expired", "failed"},
           pc \in {"erase", "objects"} =>
               \A o \in ids : /\ sess'[o].state \in {"completed", "deleted"}
                              /\ obj'[o].state \in {"none", "deleting"}
    PROVE  SweeperInv(w)'
<1>1. CASE ids = {}
  BY <1>1 DEF SweeperInv, Begun, IdleSweeper
<1>2. CASE ids # {}
  <2>1. sweep'[w] = [pc |-> pc, todo |-> ids, doing |-> NULL]
    BY <1>2 DEF Begun
  <2>2. Handling(w)' = ids
    BY <2>1 DEF Handling
  <2>3. QED
    BY <2>1, <2>2 DEF SweeperInv
<1>3. QED
  BY <1>1, <1>2

\* An active session that no PATCH has locked expires or is cancelled.
LEMMA ExpiredUpload ==
    ASSUME TypeOK, NEW u \in Uploads, UploadInv(u), sess[u].state = "active",
           ~Locked(u), sess'[u] = [sess[u] EXCEPT !.state = "expired"],
           UNCHANGED <<obj, ver, staging, payload, patch, acked>>
    PROVE  UploadInv(u)' /\ Evolves(u)
<1>1. /\ sess'[u].state = "expired" /\ sess'[u].final = sess[u].final
      /\ sess'[u].cleaned = sess[u].cleaned
  BY DEF TypeOK, Session
<1>2. BytesInv(u)'
  BY <1>1 DEF BytesInv, Locked
<1>3. SessionInv(u)' /\ ObjectInv(u)' /\ DiskInv(u)' /\ FinalizingInv(u)'
  BY <1>1, ActiveFacts DEF SessionInv, ObjectInv, DiskInv, FinalizingInv, PastBegin,
     Objectless
<1>4. Evolves(u)
  BY <1>1 DEF Evolves, PastBegin
<1>5. QED
  BY <1>2, <1>3, <1>4 DEF UploadInv

\* A step of a sweeper that leaves versions, files and object rows alone.
LEMMA SweeperStep ==
    ASSUME TypeOK, TypeOK', StorageInv, NEW w \in Sweepers,
           UNCHANGED <<obj, file, ver, clock, patch, fin, clone, acked>>,
           \A x \in Sweepers : x # w => sweep'[x] = sweep[x],
           \A u \in Uploads : \/ UploadInv(u)' /\ Evolves(u)
                              \/ /\ sess'[u] = sess[u]
                                 /\ staging'[u] = staging[u]
                                 /\ payload'[u] = payload[u],
           (\A u \in Uploads : Evolves(u)) => SweeperInv(w)'
    PROVE  StorageInv'
<1>1. ASSUME NEW u \in Uploads PROVE UploadInv(u)' /\ Evolves(u)
  <2>1. UploadInv(u)
    BY DEF StorageInv
  <2>2. CASE /\ sess'[u] = sess[u]
             /\ staging'[u] = staging[u]
             /\ payload'[u] = payload[u]
    <3>1. sess[u].state = "finalizing" => file'[sess[u].final].state # "none"
      BY <2>1 DEF UploadInv, FinalizingInv
    <3>2. UploadInv(u)'
      BY <2>1, <2>2, <3>1, UploadFrame
    <3>3. QED
      BY <2>2, <3>2, EvolvesFrame
  <2>3. QED
    BY <2>2
<1>2. ReferencesHold'
  BY DEF StorageInv, ReferencesHold, VersionsOf
<1>3. \A c \in Clones : CloneInv(c)'
  BY CloneFrame DEF StorageInv
<1>4. QED
  BY <1>1, <1>2, <1>3, Combine

\* MarkDeleting of collectable objects: their sessions are settled.
LEMMA MarkedInv ==
    ASSUME TypeOK, TypeOK', StorageInv, NEW w \in Sweepers, NEW pc,
           NEW ids \in SUBSET {o \in Uploads : Collectable(o)},
           MarkDeleting(ids), sweep' = [sweep EXCEPT ![w] = Begun(pc, ids)],
           pc \in {"erase", "objects"},
           UNCHANGED <<sess, file, ver, clock, disk, patch, fin, clone, acked>>
    PROVE  StorageInv'
<1>1. /\ sweep'[w] = Begun(pc, ids)
      /\ \A x \in Sweepers : x # w => sweep'[x] = sweep[x]
  BY DEF TypeOK
<1>2. UNCHANGED <<staging, payload>>
  BY DEF disk
<1>3. ASSUME NEW o \in ids
      PROVE  /\ o \in Uploads /\ sess[o].state \in {"completed", "deleted"}
             /\ obj'[o].state = "deleting" /\ obj[o].state # "none"
  <2>1. o \in Uploads /\ Collectable(o) /\ UploadInv(o) /\ obj[o] \in StorageObject
    BY DEF StorageInv, TypeOK
  <2>2. sess[o].state \in SessionStates
    BY <2>1 DEF TypeOK, Session
  <2>3. QED
    BY <2>1, <2>2 DEF Collectable, Unreferenced, UploadInv, ObjectInv, Objectless,
       SessionStates, MarkDeleting, StorageObject
<1>4. \A o \in Uploads : o \notin ids => obj'[o] = obj[o]
  BY DEF MarkDeleting
<1>5. ASSUME NEW u \in Uploads PROVE UploadInv(u)' /\ Evolves(u)
  <2>0. UploadInv(u)
    BY DEF StorageInv
  <2>f. sess[u].state = "finalizing" => file'[sess[u].final].state # "none"
    BY <2>0 DEF UploadInv, FinalizingInv
  <2>1. CASE u \notin ids
    <3>1. UploadInv(u)'
      BY <1>2, <1>4, <2>0, <2>1, <2>f, UploadFrame
    <3>2. QED
      BY <1>2, <1>4, <2>1, <3>1, EvolvesFrame
  <2>2. CASE u \in ids
    <3>1. sess[u].state \in {"completed", "deleted"} /\ obj'[u].state = "deleting"
      BY <1>3, <2>2
    <3>2. BytesInv(u)' /\ SessionInv(u)'
      BY <1>2, <2>0 DEF UploadInv, BytesInv, Locked, SessionInv
    <3>3. ObjectInv(u)' /\ DiskInv(u)' /\ FinalizingInv(u)'
      BY <1>2, <2>0, <3>1 DEF UploadInv, ObjectInv, DiskInv, FinalizingInv, Objectless
    <3>4. Evolves(u)
      BY <1>2, <3>1 DEF Evolves
    <3>5. QED
      BY <3>2, <3>3, <3>4 DEF UploadInv
  <2>3. QED
    BY <2>1, <2>2
<1>6. SweeperInv(w)'
  BY <1>1, <1>3, SweeperBegins
<1>7. ReferencesHold'
  <2>1. \A o \in Uploads : HasVersion(o) => obj'[o].state # "none"
    BY <1>3, <1>4 DEF StorageInv, ReferencesHold, HasVersion
  <2>2. QED
    BY <2>1, ReferencesFrame DEF StorageInv
<1>8. \A c \in Clones : CloneInv(c)'
  BY CloneFrame DEF StorageInv
<1>9. QED
  BY <1>1, <1>5, <1>6, <1>7, <1>8, Combine

\* The rows of a file in the trash go, by request or by the worker.
LEMMA PurgedInv ==
    ASSUME TypeOK, TypeOK', StorageInv, NEW f \in Minted, DeleteFileRows(f, sess),
           UNCHANGED <<obj, clock, disk, patch, fin, clone, acked>>,
           \A w \in Sweepers : sweep'[w] = sweep[w] \/ SweeperInv(w)'
    PROVE  StorageInv'
<1>1. UNCHANGED <<staging, payload>> /\ sess \in [Uploads -> Session]
  BY DEF disk, TypeOK
<1>2. ASSUME NEW x \in Uploads PROVE UploadInv(x)' /\ Evolves(x)
  BY <1>1, DeleteFileRowsUpload DEF StorageInv
<1>3. ReferencesHold'
  <2>1. \A v \in Minted \ VersionsOf(f) :
            ver[v] # NULL => obj'[ver[v].object].state # "none"
    BY DEF StorageInv, ReferencesHold
  <2>2. QED
    BY <2>1, ReferencesDelete DEF StorageInv
<1>4. \A c \in Clones : CloneInv(c)'
  <2>1. \A c \in Clones : ver[c] = NULL => ver'[c] = NULL
    BY DEF DeleteFileRows, Minted
  <2>2. QED
    BY <2>1, CloneFrame DEF StorageInv
<1>5. QED
  BY <1>2, <1>3, <1>4, Combine

\* cancel_upload, the worker and the deletion requests preserve the invariant.
LEMMA SweepStepInv ==
    ASSUME TypeOK, TypeOK', StorageInv, NEW w \in Sweepers, SweepStep(w)
    PROVE  StorageInv'
<1>i. SweeperInv(w) /\ sweep \in [Sweepers -> Sweeper]
  BY DEF StorageInv, TypeOK
<1>l. /\ sweep[w].todo \in SUBSET Uploads
      /\ sweep[w].doing \in Uploads \cup {NULL}
      /\ Handling(w) \in SUBSET Uploads
      /\ sweep[w].todo \subseteq Handling(w)
      /\ sweep[w].doing # NULL => sweep[w].doing \in Handling(w)
  BY SweeperLists
<1>r. Recorded(w) = IdleSweeper \/
        (/\ Recorded(w).pc = sweep[w].pc
         /\ Recorded(w).todo = sweep[w].todo
         /\ Recorded(w).doing = NULL)
  BY <1>i DEF Recorded, Sweeper
<1>1. ASSUME NEW u \in Uploads, CancelUpload(w, u) PROVE StorageInv'
  <2> DEFINE t == [sess[u] EXCEPT !.state = IF @ = "active" THEN "expired" ELSE @]
  <2>1. /\ sess' = [sess EXCEPT ![u] = t]
        /\ sweep' = [sweep EXCEPT ![w] = Begun("cancel", {u})]
        /\ sess[u].state \in {"active", "expired", "failed"} /\ ~Locked(u)
        /\ UNCHANGED <<obj, file, ver, clock, staging, payload, patch, fin, clone, acked>>
    BY <1>1, Zenon DEF CancelUpload, CancelStates, disk
  <2>2. sess[u] \in Session
    BY DEF TypeOK
  <2>3. /\ sess[u].state = "active" => t = [sess[u] EXCEPT !.state = "expired"]
        /\ sess[u].state # "active" => t = sess[u]
        /\ t.state \in {"expired", "failed"}
    BY <2>1, <2>2 DEF Session
  <2> HIDE DEF t
  <2>4. /\ sess'[u] = t /\ \A x \in Uploads : x # u => sess'[x] = sess[x]
        /\ sweep'[w] = Begun("cancel", {u})
        /\ \A x \in Sweepers : x # w => sweep'[x] = sweep[x]
    BY <1>i, <2>1 DEF TypeOK
  <2>5. SweeperInv(w)'
    BY <2>3, <2>4, SweeperBegins
  <2>6. sess'[u] = sess[u] \/ (UploadInv(u)' /\ Evolves(u))
    BY <2>1, <2>3, <2>4, ExpiredUpload DEF StorageInv
  <2>7. QED
    BY <2>1, <2>4, <2>5, <2>6, SweeperStep
<1>2. CASE CleanExpired(w)
  <2>1. PICK picked \in SUBSET {u \in Uploads : Expirable(u)} \ {{}} :
          /\ sess' = [u \in Uploads |->
                        IF u \in picked /\ sess[u].state = "active"
                        THEN [sess[u] EXCEPT !.state = "expired"] ELSE sess[u]]
          /\ sweep' = [sweep EXCEPT ![w] = Begun("staging", picked)]
    BY <1>2 DEF CleanExpired
  <2>2. UNCHANGED <<obj, file, ver, clock, staging, payload, patch, fin, clone, acked>>
    BY <1>2 DEF CleanExpired, disk
  <2>3. /\ sweep'[w] = Begun("staging", picked)
        /\ \A x \in Sweepers : x # w => sweep'[x] = sweep[x]
    BY <1>i, <2>1
  <2>4. ASSUME NEW u \in Uploads
        PROVE  sess'[u] = sess[u] \/ (UploadInv(u)' /\ Evolves(u))
    <3>1. CASE u \in picked /\ sess[u].state = "active"
      <4>1. ~Locked(u)
        BY <3>1 DEF Expirable
      <4>2. sess'[u] = [sess[u] EXCEPT !.state = "expired"]
        BY <2>1, <3>1
      <4>3. QED
        BY <2>2, <3>1, <4>1, <4>2, ExpiredUpload DEF StorageInv
    <3>2. CASE ~(u \in picked /\ sess[u].state = "active")
      BY <2>1, <3>2
    <3>3. QED
      BY <3>1, <3>2
  <2>5. ASSUME NEW u \in picked PROVE sess'[u].state \in {"expired", "failed"}
    <3>1. u \in Uploads /\ Expirable(u) /\ sess[u] \in Session
      BY DEF TypeOK
    <3>2. QED
      BY <2>1, <3>1 DEF Expirable, Session
  <2>6. SweeperInv(w)'
    BY <2>3, <2>5, SweeperBegins
  <2>7. QED
    BY <2>2, <2>3, <2>4, <2>6, SweeperStep
<1>3. CASE UnlinkStaging(w)
  <2>1. PICK u \in sweep[w].todo :
          /\ staging' = [staging EXCEPT ![u] = NULL]
          /\ sweep' = [sweep EXCEPT ![w] = Unlinked(w, u)]
    BY <1>3 DEF UnlinkStaging
  <2>2. /\ UNCHANGED <<sess, obj, file, ver, clock, payload, patch, fin, clone, acked>>
        /\ sweep[w].pc \in {"cancel", "staging"} /\ sweep[w].doing = NULL
    BY <1>3 DEF UnlinkStaging, rows
  <2>3. /\ u \in Uploads /\ sess[u].state \in {"expired", "failed"} /\ UploadInv(u)
        /\ u # NULL
    BY <1>i, <1>l, <2>2, IdAssumption DEF SweeperInv, StorageInv, Minted
  <2>4. /\ staging'[u] = NULL
        /\ \A x \in Uploads : x # u => staging'[x] = staging[x]
        /\ sweep'[w] = [pc |-> sweep[w].pc, todo |-> sweep[w].todo \ {u}, doing |-> u]
        /\ \A x \in Sweepers : x # w => sweep'[x] = sweep[x]
    BY <1>i, <2>1, <2>3 DEF TypeOK, Unlinked
  <2>5. UploadInv(u)' /\ Evolves(u)
    <3>1. BytesInv(u)'
      BY <2>2, <2>3 DEF UploadInv, BytesInv, Locked
    <3>2. SessionInv(u)' /\ ObjectInv(u)' /\ DiskInv(u)' /\ FinalizingInv(u)'
      BY <2>2, <2>3, <2>4 DEF UploadInv, SessionInv, ObjectInv, DiskInv, FinalizingInv
    <3>3. Evolves(u)
      BY <2>2, <2>3, <2>4 DEF Evolves
    <3>4. QED
      BY <3>1, <3>2, <3>3 DEF UploadInv
  <2>6. SweeperInv(w)'
    <3>1. Handling(w)' \subseteq Handling(w)
      BY <2>4, <1>l DEF Handling
    <3>2. QED
      BY <1>i, <2>2, <2>4, <3>1 DEF SweeperInv
  <2>7. QED
    BY <2>2, <2>4, <2>5, <2>6, SweeperStep
<1>4. CASE RecordCleaned(w)
  <2>1. PICK u \in Uploads : u = sweep[w].doing
    BY <1>4, <1>l DEF RecordCleaned
  <2>2. /\ UNCHANGED <<obj, file, ver, clock, staging, payload, patch, fin, clone, acked>>
        /\ sweep[w].pc \in {"cancel", "staging"} /\ u # NULL
        /\ sweep'[w] = Recorded(w)
        /\ \A x \in Sweepers : x # w => sweep'[x] = sweep[x]
    BY <1>4, <1>i, <2>1 DEF RecordCleaned, disk
  <2>3. sess[u].state \in {"expired", "failed"} /\ staging[u] = NULL /\ UploadInv(u)
        /\ sess[u] \in Session
    BY <1>i, <1>l, <2>1, <2>2 DEF SweeperInv, StorageInv, TypeOK
  <2>4. \/ sess' = sess
        \/ sess' = [sess EXCEPT ![u] = [sess[u] EXCEPT !.cleaned = TRUE]]
    BY <1>4, <2>1, Zenon DEF RecordCleaned
  <2>5. \A x \in Uploads : x # u => sess'[x] = sess[x]
    BY <2>4 DEF TypeOK
  <2>6. sess'[u] = sess[u] \/ (UploadInv(u)' /\ Evolves(u))
    <3>1. SUFFICES ASSUME sess'[u] = [sess[u] EXCEPT !.cleaned = TRUE]
                   PROVE  UploadInv(u)' /\ Evolves(u)
      BY <2>4 DEF TypeOK
    <3>2. sess'[u].state = sess[u].state /\ sess'[u].final = sess[u].final
      BY <2>3, <3>1 DEF Session
    <3>3. BytesInv(u)'
      BY <2>2, <2>3, <3>2 DEF UploadInv, BytesInv, Locked
    <3>4. SessionInv(u)' /\ ObjectInv(u)' /\ DiskInv(u)' /\ FinalizingInv(u)'
      BY <2>2, <2>3, <3>2 DEF UploadInv, SessionInv, ObjectInv, DiskInv, FinalizingInv
    <3>5. Evolves(u)
      BY <2>2, <3>2 DEF Evolves
    <3>6. QED
      BY <3>3, <3>4, <3>5 DEF UploadInv
  <2>7. (\A x \in Uploads : Evolves(x)) => SweeperInv(w)'
    BY <1>i, <1>r, <2>2, SweeperShrinks
  <2>8. QED
    BY <2>2, <2>5, <2>6, <2>7, SweeperStep
<1>5. ASSUME NEW f \in Minted, PurgeRoot(w, f) PROVE StorageInv'
  <2>1. /\ sweep'[w] = Begun("mark", ObjectsOf(f))
        /\ \A x \in Sweepers : x # w => sweep'[x] = sweep[x]
    BY <1>5, <1>i DEF PurgeRoot
  <2>2. SweeperInv(w)'
    BY <2>1, SweeperBegins
  <2>3. QED
    BY <1>5, <2>1, <2>2, PurgedInv DEF PurgeRoot
<1>6. CASE MarkPurged(w)
  <2> DEFINE ids == {o \in sweep[w].todo : Collectable(o)}
  <2>1. ids \in SUBSET {o \in Uploads : Collectable(o)}
    BY <1>l
  <2>2. MarkDeleting(ids) /\ sweep' = [sweep EXCEPT ![w] = Begun("erase", ids)]
        /\ UNCHANGED <<sess, file, ver, clock, disk, patch, fin, clone, acked>>
    BY <1>6 DEF MarkPurged
  <2> HIDE DEF ids
  <2>3. \E x : x = ids
    OBVIOUS
  <2>4. PICK x : x = ids
    BY <2>3
  <2>5. x \in SUBSET {o \in Uploads : Collectable(o)} /\ MarkDeleting(x)
        /\ sweep' = [sweep EXCEPT ![w] = Begun("erase", x)]
    BY <2>1, <2>2, <2>4
  <2>6. QED
    BY <2>2, <2>5, MarkedInv
<1>7. CASE MarkUnreferenced(w)
  <2>1. PICK ids \in SUBSET {o \in Uploads : Collectable(o)} \ {{}} :
          /\ MarkDeleting(ids)
          /\ sweep' = [sweep EXCEPT ![w] = Begun("objects", ids)]
    BY <1>7 DEF MarkUnreferenced
  <2>2. QED
    BY <1>7, <2>1, MarkedInv DEF MarkUnreferenced
<1>8. CASE RemovePayload(w)
  <2>1. PICK u \in sweep[w].todo :
          /\ payload' = [payload EXCEPT ![u] = NULL]
          /\ sweep' = [sweep EXCEPT ![w] = Unlinked(w, u)]
    BY <1>8 DEF RemovePayload
  <2>2. /\ UNCHANGED <<sess, obj, file, ver, clock, staging, patch, fin, clone, acked>>
        /\ sweep[w].pc \in {"erase", "objects"} /\ sweep[w].doing = NULL
    BY <1>8 DEF RemovePayload, rows
  <2>3. /\ u \in Uploads /\ sess[u].state \in {"completed", "deleted"} /\ UploadInv(u)
        /\ obj[u].state \in {"none", "deleting"}
    BY <1>i, <1>l, <2>2 DEF SweeperInv, StorageInv
  <2>4. /\ payload'[u] = NULL
        /\ \A x \in Uploads : x # u => payload'[x] = payload[x]
        /\ sweep'[w] = [pc |-> sweep[w].pc, todo |-> sweep[w].todo \ {u}, doing |-> u]
        /\ \A x \in Sweepers : x # w => sweep'[x] = sweep[x]
    BY <1>i, <2>1, <2>3 DEF TypeOK, Unlinked
  <2>5. UploadInv(u)' /\ Evolves(u)
    <3>1. BytesInv(u)'
      BY <2>2, <2>3 DEF UploadInv, BytesInv, Locked
    <3>2. SessionInv(u)' /\ ObjectInv(u)' /\ DiskInv(u)' /\ FinalizingInv(u)'
      BY <2>2, <2>3, <2>4 DEF UploadInv, SessionInv, ObjectInv, DiskInv, FinalizingInv
    <3>3. Evolves(u)
      BY <2>2, <2>3, <2>4 DEF Evolves
    <3>4. QED
      BY <3>1, <3>2, <3>3 DEF UploadInv
  <2>6. SweeperInv(w)'
    <3>1. Handling(w)' \subseteq Handling(w)
      BY <2>4, <1>l DEF Handling
    <3>2. QED
      BY <1>i, <2>2, <2>4, <3>1 DEF SweeperInv
  <2>7. QED
    BY <2>2, <2>4, <2>5, <2>6, SweeperStep
<1>9. CASE DeleteObjectRow(w)
  <2>1. PICK u \in Uploads : u = sweep[w].doing
    BY <1>9, <1>l DEF DeleteObjectRow
  <2>2. /\ UNCHANGED <<sess, file, ver, clock, staging, payload, patch, fin, clone, acked>>
        /\ sweep[w].pc \in {"erase", "objects"} /\ u # NULL
        /\ sweep'[w] = Recorded(w)
        /\ \A x \in Sweepers : x # w => sweep'[x] = sweep[x]
    BY <1>9, <1>i, <2>1 DEF DeleteObjectRow, disk
  <2>3. sess[u].state \in {"completed", "deleted"} /\ UploadInv(u)
    BY <1>i, <1>l, <2>1, <2>2 DEF SweeperInv, StorageInv
  <2>4. /\ \A x \in Uploads : x # u => obj'[x] = obj[x]
        /\ \/ obj'[u] = obj[u]
           \/ obj'[u] = [state |-> "none", sum |-> NULL] /\ ~HasVersion(u)
    BY <1>9, <2>1 DEF DeleteObjectRow, RowDeletable, TypeOK
  <2>5. ASSUME NEW x \in Uploads PROVE UploadInv(x)' /\ Evolves(x)
    <3>0. UploadInv(x)
      BY DEF StorageInv
    <3>1. CASE obj'[x] = obj[x]
      <4>1. sess[x].state = "finalizing" => file'[sess[x].final].state # "none"
        BY <2>2, <3>0 DEF UploadInv, FinalizingInv
      <4>2. UploadInv(x)'
        BY <2>2, <3>0, <3>1, <4>1, UploadFrame
      <4>3. QED
        BY <2>2, <3>1, <4>2, EvolvesFrame
    <3>2. CASE obj'[x] # obj[x]
      <4>1. x = u /\ obj'[x].state = "none"
        BY <2>4, <3>2
      <4>2. BytesInv(x)' /\ SessionInv(x)'
        BY <2>2, <3>0 DEF UploadInv, BytesInv, Locked, SessionInv
      <4>3. ObjectInv(x)' /\ DiskInv(x)' /\ FinalizingInv(x)'
        BY <2>2, <2>3, <3>0, <4>1 DEF UploadInv, ObjectInv, DiskInv, FinalizingInv
      <4>4. Evolves(x)
        BY <2>2, <2>3, <4>1 DEF Evolves
      <4>5. QED
        BY <4>2, <4>3, <4>4 DEF UploadInv
    <3>3. QED
      BY <3>1, <3>2
  <2>6. SweeperInv(w)'
    BY <1>i, <1>r, <2>2, <2>5, SweeperShrinks
  <2>7. ReferencesHold'
    <3>1. \A o \in Uploads : HasVersion(o) => obj'[o].state # "none"
      BY <2>4 DEF StorageInv, ReferencesHold, HasVersion
    <3>2. QED
      BY <2>2, <3>1, ReferencesFrame DEF StorageInv
  <2>8. \A c \in Clones : CloneInv(c)'
    BY <2>2, CloneFrame DEF StorageInv
  <2>9. QED
    BY <2>2, <2>5, <2>6, <2>7, <2>8, Combine
<1>10. CASE SkipUnlink(w) \/ SweepFail(w)
  <2>1. /\ UNCHANGED <<sess, obj, file, ver, clock, staging, payload, patch, fin, clone, acked>>
        /\ \A x \in Sweepers : x # w => sweep'[x] = sweep[x]
    BY <1>10, <1>i DEF SkipUnlink, SweepFail, rows, disk
  <2>2. sweep'[w] = IdleSweeper \/
          (/\ sweep'[w].pc = sweep[w].pc
           /\ sweep'[w].todo \subseteq sweep[w].todo
           /\ sweep'[w].doing = NULL)
    BY <1>10, <1>i DEF SkipUnlink, SweepFail, Dropped, Sweeper
  <2>3. (\A x \in Uploads : Evolves(x)) => SweeperInv(w)'
    BY <1>i, <2>2, SweeperShrinks
  <2>4. QED
    BY <2>1, <2>3, SweeperStep
<1>11. QED
  BY <1>1, <1>2, <1>3, <1>4, <1>5, <1>6, <1>7, <1>8, <1>9, <1>10 DEF SweepStep

-----------------------------------------------------------------------------
(* Links, copies and the trash *)

\* A link or copy inserts a version of an object that has a row.
LEMMA VersionAddedInv ==
    ASSUME TypeOK, TypeOK', StorageInv, NEW c \in Clones, NEW f \in Minted,
           NEW o \in Uploads, AddVersion(c, f, o), ver[c] = NULL,
           obj[o].state # "none", clone' = [clone EXCEPT ![c].pc = "done"],
           UNCHANGED <<sess, obj, disk, patch, fin, sweep, acked>>
    PROVE  StorageInv'
<1>1. /\ \A v \in Minted : v # c => ver'[v] = ver[v]
      /\ file'[f].state # "none"
      /\ \A g \in Minted : g # f => file'[g] = file[g]
  BY DEF AddVersion, TypeOK
<1>2. UNCHANGED <<staging, payload>>
  BY DEF disk
<1>3. ASSUME NEW x \in Uploads PROVE UploadInv(x)' /\ Evolves(x)
  <2>1. UploadInv(x) /\ sess[x] \in Session /\ x # c /\ x \in Minted
    BY IdAssumption DEF StorageInv, TypeOK, Minted
  <2>2. sess[x].state = "finalizing" => file'[sess[x].final].state # "none"
    BY <1>1, <2>1 DEF UploadInv, FinalizingInv, SessionInv, Session
  <2>3. UploadInv(x)'
    BY <1>1, <1>2, <2>1, <2>2, UploadFrame
  <2>4. QED
    BY <1>2, <2>3, EvolvesFrame
<1>4. ReferencesHold'
  BY ReferencesAdd DEF StorageInv, Minted
<1>5. ASSUME NEW x \in Clones PROVE CloneInv(x)'
  <2>1. CASE x = c
    BY <2>1 DEF CloneInv, TypeOK, Clone
  <2>2. CASE x # c
    <3>1. clone'[x] = clone[x] /\ ver'[x] = ver[x] /\ CloneInv(x)
      BY <1>1, <2>2 DEF TypeOK, StorageInv, Minted
    <3>2. QED
      BY <3>1, CloneFrame
  <2>3. QED
    BY <2>1, <2>2
<1>6. QED
  BY <1>3, <1>4, <1>5, Combine

\* Only states of files change, none to "none".
LEMMA FileStatesInv ==
    ASSUME TypeOK, TypeOK', StorageInv,
           \A g \in Minted : /\ file'[g].cur = file[g].cur
                             /\ file[g].state # "none" => file'[g].state # "none",
           UNCHANGED <<sess, obj, ver, clock, disk, patch, fin, sweep, acked>>,
           \A c \in Clones : CloneInv(c)'
    PROVE  StorageInv'
<1>1. UNCHANGED <<staging, payload>>
  BY DEF disk
<1>2. ASSUME NEW x \in Uploads PROVE UploadInv(x)' /\ Evolves(x)
  <2>1. UploadInv(x) /\ sess[x] \in Session
    BY DEF StorageInv, TypeOK
  <2>2. sess[x].state = "finalizing" => file'[sess[x].final].state # "none"
    BY <2>1 DEF UploadInv, FinalizingInv, SessionInv, Session
  <2>3. UploadInv(x)'
    BY <1>1, <2>1, <2>2, UploadFrame
  <2>4. QED
    BY <1>1, <2>3, EvolvesFrame
<1>3. ReferencesHold'
  <2>1. \A o \in Uploads : HasVersion(o) => obj'[o].state # "none"
    BY DEF StorageInv, ReferencesHold, HasVersion
  <2>2. QED
    BY <2>1, ReferencesFrame DEF StorageInv
<1>4. QED
  BY <1>2, <1>3, Combine

\* link_content and copy_one_entry preserve the invariant.
LEMMA CloneStepInv ==
    ASSUME TypeOK, TypeOK', StorageInv, NEW c \in Clones, CloneStep(c)
    PROVE  StorageInv'
<1>c. clone \in [Clones -> Clone] /\ clone[c] \in Clone /\ CloneInv(c) /\ c \in Minted
  BY DEF TypeOK, StorageInv, Minted
<1>h. ASSUME UNCHANGED <<rows, disk, patch, fin, sweep, acked>>,
             \A x \in Clones : x # c => clone'[x] = clone[x], CloneInv(c)'
      PROVE  StorageInv'
  <2>1. /\ \A u \in Uploads : UploadInv(u)' /\ Evolves(u)
        /\ ReferencesHold'
        /\ \A x \in Clones : clone'[x] = clone[x] => CloneInv(x)'
    BY <1>h, HandlerStep
  <2>2. QED
    BY <1>h, <2>1, Combine
<1>1. ASSUME NEW o \in Uploads, LinkRead(c, o) PROVE StorageInv'
  <2>1. /\ clone'[c] = [pc |-> "link", object |-> o] /\ ver' = ver
        /\ \A x \in Clones : x # c => clone'[x] = clone[x]
        /\ clone[c].pc = "idle" /\ o # NULL
    BY <1>1, <1>c, IdAssumption DEF LinkRead, rows, Minted
  <2>2. CloneInv(c)'
    BY <1>c, <2>1 DEF CloneInv
  <2>3. QED
    BY <1>1, <1>h, <2>1, <2>2 DEF LinkRead
<1>2. ASSUME NEW f \in Minted, LinkCommit(c, f) PROVE StorageInv'
  <2>1. clone[c].object \in Uploads /\ ver[c] = NULL
    BY <1>c, <1>2 DEF LinkCommit, CloneInv, Clone
  <2>2. PICK o \in Uploads : o = clone[c].object
    BY <2>1
  <2>3. QED
    BY <1>2, <2>1, <2>2, VersionAddedInv DEF LinkCommit
<1>3. ASSUME NEW f \in Minted, CopyRead(c, f) PROVE StorageInv'
  <2>1. /\ clone'[c].pc = "copy" /\ ver' = ver /\ clone[c].pc = "idle"
        /\ \A x \in Clones : x # c => clone'[x] = clone[x]
    BY <1>3, <1>c DEF CopyRead, rows
  <2>2. CloneInv(c)'
    BY <1>c, <2>1 DEF CloneInv
  <2>3. QED
    BY <1>3, <1>h, <2>1, <2>2 DEF CopyRead
<1>4. CASE CopyCommit(c)
  <2>1. CASE clone[c].object = NULL
    <3>1. /\ file' = [file EXCEPT ![c].state = "active"]
          /\ clone' = [clone EXCEPT ![c].pc = "done"]
          /\ UNCHANGED <<sess, obj, ver, clock, disk, patch, fin, sweep, acked>>
      BY <1>4, <2>1 DEF CopyCommit
    <3>2. \A g \in Minted : /\ file'[g].cur = file[g].cur
                            /\ file[g].state # "none" => file'[g].state # "none"
      BY <3>1, <1>c DEF TypeOK, Entry
    <3>3. ASSUME NEW x \in Clones PROVE CloneInv(x)'
      BY <3>1, <1>c DEF CloneInv, Clone, StorageInv
    <3>4. QED
      BY <3>1, <3>2, <3>3, FileStatesInv
  <2>2. CASE clone[c].object # NULL
    <3>1. clone[c].object \in Uploads /\ ver[c] = NULL
      BY <1>c, <1>4, <2>2 DEF CopyCommit, CloneInv, Clone
    <3>2. PICK o \in Uploads : o = clone[c].object
      BY <3>1
    <3>3. QED
      BY <1>4, <1>c, <2>2, <3>1, <3>2, VersionAddedInv DEF CopyCommit
  <2>3. QED
    BY <2>1, <2>2
<1>5. CASE CloneFail(c)
  <2>1. /\ clone'[c].pc = "idle" /\ ver' = ver /\ clone[c].pc # "done"
        /\ \A x \in Clones : x # c => clone'[x] = clone[x]
    BY <1>5, <1>c DEF CloneFail, rows
  <2>2. CloneInv(c)'
    BY <1>c, <2>1 DEF CloneInv
  <2>3. QED
    BY <1>5, <1>h, <2>1, <2>2 DEF CloneFail
<1>6. QED
  BY <1>1, <1>2, <1>3, <1>4, <1>5 DEF CloneStep

\* purge_expired_trash, trash_owned_entry and restore_entry.
LEMMA TrashStepInv ==
    ASSUME TypeOK, TypeOK', StorageInv, NEW f \in Minted,
           PurgeExpired(f) \/ TrashStep(f)
    PROVE  StorageInv'
<1>1. CASE PurgeExpired(f)
  BY <1>1, PurgedInv DEF PurgeExpired
<1>2. CASE TrashStep(f)
  <2>1. UNCHANGED <<sess, obj, ver, clock, disk, patch, fin, sweep, clone, acked>>
    BY <1>2 DEF TrashStep, TrashFile, RestoreFile, FolderTrashed, FolderRestored
  <2>2. \A g \in Minted : /\ file'[g].cur = file[g].cur
                          /\ file[g].state # "none" => file'[g].state # "none"
    BY <1>2 DEF TrashStep, TrashFile, RestoreFile, FolderTrashed, FolderRestored,
       Live, TypeOK, Entry
  <2>3. \A c \in Clones : CloneInv(c)'
    BY <2>1, CloneFrame DEF StorageInv
  <2>4. QED
    BY <2>1, <2>2, <2>3, FileStatesInv
<1>3. QED
  BY <1>1, <1>2

-----------------------------------------------------------------------------
(* The theorems *)

\* The empty database and the empty HDD satisfy the invariant.
LEMMA InitInv == Init => StorageInv
<1> SUFFICES ASSUME Init PROVE StorageInv
  OBVIOUS
<1>1. ASSUME NEW u \in Uploads PROVE UploadInv(u)
  BY DEF Init, NoSession, UploadInv, BytesInv, SessionInv, ObjectInv, DiskInv,
     FinalizingInv, Locked, PastBegin, Minted
<1>2. \A f \in Finalizers : FinalizerInv(f)
  BY DEF Init, FinalizerInv, IdleFinalizer
<1>3. \A w \in Sweepers : SweeperInv(w)
  BY DEF Init, SweeperInv, IdleSweeper
<1>4. \A c \in Clones : CloneInv(c)
  BY DEF Init, CloneInv, Minted
<1>5. ReferencesHold
  BY DEF Init, ReferencesHold
<1>6. QED
  BY <1>1, <1>2, <1>3, <1>4, <1>5 DEF StorageInv

\* Every step of every handler preserves the invariant.
LEMMA NextInv == TypeOK /\ StorageInv /\ [Next]_vars => StorageInv'
<1> SUFFICES ASSUME TypeOK, StorageInv, [Next]_vars PROVE StorageInv'
  OBVIOUS
<1>0. TypeOK'
  BY NextType
<1>1. CASE UNCHANGED vars
  <2>1. /\ UNCHANGED <<rows, disk, patch, acked>>
        /\ fin' = fin /\ sweep' = sweep /\ clone' = clone
    BY <1>1 DEF vars, rows, disk
  <2>2. QED
    BY <1>0, <2>1, HandlerStep, Combine
<1>2. ASSUME NEW u \in Uploads, UploadStep(u) PROVE StorageInv'
  BY <1>0, <1>2, UploadStepInv
<1>3. ASSUME NEW f \in Finalizers, FinalizeStep(f) PROVE StorageInv'
  BY <1>0, <1>3, FinalizeStepInv
<1>4. ASSUME NEW w \in Sweepers, SweepStep(w) PROVE StorageInv'
  BY <1>0, <1>4, SweepStepInv
<1>5. ASSUME NEW c \in Clones, CloneStep(c) PROVE StorageInv'
  BY <1>0, <1>5, CloneStepInv
<1>6. ASSUME NEW f \in Minted, PurgeExpired(f) \/ TrashStep(f)
      PROVE StorageInv'
  BY <1>0, <1>6, TrashStepInv
<1>7. QED
  BY <1>1, <1>2, <1>3, <1>4, <1>5, <1>6 DEF Next

\* The inductive invariant: whatever uploads, finalizers, rejections, sweeps,
\* purges, links and copies do, in any order and with any of them failing at
\* any point, sessions, objects, files on the HDD and handlers belong together.
THEOREM StorageInvariance == Spec => [](TypeOK /\ StorageInv)
<1>1. Init => TypeOK /\ StorageInv
  BY InitType, InitInv
<1>2. TypeOK /\ StorageInv /\ [Next]_vars => (TypeOK /\ StorageInv)'
  BY NextType, NextInv
<1>3. QED
  BY <1>1, <1>2, PTL DEF Spec

\* Every variable keeps its type: in particular truncating a staging file to
\* the committed offset never meets a shorter file.
THEOREM TypeCorrectness == Spec => []TypeOK
BY StorageInvariance, PTL

\* patch_upload: a client can always resume at received_size.
THEOREM Resumability == Spec => []ResumableOffset
<1>1. StorageInv => ResumableOffset
  BY DEF StorageInv, UploadInv, BytesInv, ResumableOffset
<1>2. QED
  BY <1>1, StorageInvariance, PTL

\* finalize_upload: a ready object's payload is what was acknowledged.
THEOREM ReadyIntegrity == Spec => []ReadyIntact
<1>1. StorageInv => ReadyIntact
  BY DEF StorageInv, UploadInv, ObjectInv, ReadyIntact
<1>2. QED
  BY <1>1, StorageInvariance, PTL

\* finalize_upload: an interrupted finalization can be finished.
THEOREM Recoverability == Spec => []Recoverable
<1>1. StorageInv => Recoverable
  BY DEF StorageInv, UploadInv, ObjectInv, FinalizingInv, Recoverable
<1>2. QED
  BY <1>1, StorageInvariance, PTL

\* promote_staging_file: source and destination never exist together.
THEOREM CollisionFreedom == Spec => []NoCollision
<1>1. StorageInv => NoCollision
  BY DEF StorageInv, UploadInv, DiskInv, NoCollision
<1>2. QED
  BY <1>1, StorageInvariance, PTL

\* clean_expired_uploads and cancel_upload: what is recorded as cleaned is gone.
THEOREM CleanedGone == Spec => []CleanedMeansGone
<1>1. StorageInv => CleanedMeansGone
  BY DEF StorageInv, UploadInv, SessionInv, CleanedMeansGone
<1>2. QED
  BY <1>1, StorageInvariance, PTL

\* No version is left without its object's row, no file with a foreign version.
THEOREM ReferentialIntegrity == Spec => []ReferencesHold
<1>1. StorageInv => ReferencesHold
  BY DEF StorageInv
<1>2. QED
  BY <1>1, StorageInvariance, PTL
=============================================================================
