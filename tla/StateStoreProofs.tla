--------------------------- MODULE StateStoreProofs ---------------------------
(***************************************************************************)
(* Proofs about StateStore for any number of processes, threads, releases, *)
(* calls, failing writes, crashes and acts of other programs: a success is *)
(* durable, the snapshot never stands in for the state, and the state file *)
(* implements the atomic value of StateContract.                           *)
(***************************************************************************)
EXTENDS StateStore, TLAPS

-----------------------------------------------------------------------------
(* The invariant. *)

Writing == {"backup", "primary", "snapshot", "sidecar"}

(* What a name refers to is among what a power failure may leave. *)
FilesInv ==
    /\ disk = [f \in Files |-> disk[f]] /\ afterCrash = [f \in Files |-> afterCrash[f]]
    /\ \A f \in Files : /\ disk[f] \in Contents(f) /\ afterCrash[f] \subseteq Contents(f)
                        /\ disk[f] \in afterCrash[f]

(* The clients' own state has its type. *)
ClientInv ==
    /\ mutex \in [Processes -> Threads \union {None}] /\ lock \in Clients \union {None}
    /\ doc \in [Clients -> Documents] /\ attempts \in [Clients -> 0 .. LockAttempts]
    /\ pc \in [Clients -> Writing \union {"idle", "mutex", "lock", "read"}]
    /\ op \in [Clients -> Operations \union {NoOperation}]
    /\ seen = [c \in Clients |-> seen[c]] /\ result = [c \in Clients |-> result[c]]
    /\ stale \in [Clients -> SUBSET Files]
    /\ foreign \in Nat /\ crashes \in Nat

(* A pending update without a digest never gets past the call. *)
Asked(o) == o \in Operations /\ (o.kind = "save" => o.arg \notin Legacy)

(* The lock file has one holder, who is at work. *)
LockInv ==
    \A c \in Clients : /\ pc[c] # "idle" => Asked(op[c])
                       /\ pc[c] \in Writing \union {"read"} => lock = c
                       /\ lock = c => pc[c] \in Writing \union {"read"}

(* What the operations decide from the document alone. *)
Chosen(d, o) ==
    CASE o.kind = "accept" -> saveLastAcceptedVersion(d, o)
      [] o.kind = "commit" -> commitHealthyVersion(d, o)
      [] o.kind = "save" -> savePendingUpdate(d, o)
      [] o.kind = "clearIf" -> clearPendingUpdateIfMatches(d, o)
      [] o.kind = "clear" -> clearPendingUpdate(d)
      [] OTHER -> Answers(TRUE)

(* The document a call is about to save follows from the one it has read. *)
Current(content) == IF Documented(content) THEN content ELSE Fresh

Intended(c) ==
    IF op[c].kind = "mutateResume"
    THEN /\ Documented(seen[c].primary)
         /\ doc[c] = Schema([seen[c].primary EXCEPT !.resume = FALSE])
    ELSE /\ Chosen(Current(seen[c].primary), op[c]).act = "save"
         /\ doc[c] = Schema(Chosen(Current(seen[c].primary), op[c]).doc)

(* What the holder of the lock knows of the files: they are as it read     *)
(* them, or it knows that another program interfered.                      *)
ReadInv(c) ==
    /\ seen[c].primary \in Documents \union {Missing}
    /\ pc[c] # "sidecar" /\ "primary" \notin stale[c] => disk["primary"] = seen[c].primary
    /\ pc[c] \in {"backup", "snapshot"} => Documented(seen[c].primary)
    /\ seen[c].primary = Missing => disk["backup"] = Missing
    /\ pc[c] \in {"snapshot", "sidecar"} => op[c].kind = "mutateResume"
    /\ pc[c] \in {"backup", "primary"} => Intended(c)

(* And of the snapshot, as long as none did. *)
SnapshotInv(c) ==
    /\ stale[c] = {}
    /\ pc[c] = "primary" /\ Documented(seen[c].primary) =>
          disk["backup"] = IF op[c].kind = "mutateResume" THEN doc[c] ELSE seen[c].primary
    /\ pc[c] = "snapshot" => ~HasResume(seen[c].primary)
    /\ pc[c] = "sidecar" => /\ ~HasResume(disk["primary"]) /\ ~HasResume(disk["backup"])
                            /\ disk["backup"] # Corrupt

HolderInv == \A c \in Clients : pc[c] \in Writing =>
                 ReadInv(c) /\ (foreign = 0 => SnapshotInv(c))

ResultInv == CommitAcknowledged /\ ScrubbedEverywhere

StoreInv == FilesInv /\ ClientInv /\ LockInv /\ HolderInv /\ ResultInv

-----------------------------------------------------------------------------
(* Documents. *)

(* A file that is neither missing nor corrupt holds a document. *)
LEMMA DocumentedIs ==
    ASSUME NEW content \in Documents \union {Missing, Corrupt}
    PROVE  /\ Documented(content) <=> content \in Documents
           /\ Current(content) \in Documents
           /\ HasResume(content) <=> content \in Documents /\ content.resume
<1>1. Fresh \in Documents
  BY StoreAssumption DEF Fresh, Documents
<1>2. QED
  BY <1>1, ContentAssumption DEF Documented, Current, HasResume

(* A document with the schema version added. *)
LEMMA SchemaIs ==
    ASSUME NEW d \in [accepted: Releases \union {None}, pending: Releases \union {None},
                      versioned: BOOLEAN, resume: BOOLEAN],
           d.versioned => d.pending \notin Legacy
    PROVE  /\ Schema(d) \in Documents /\ Schema(d).accepted = d.accepted
           /\ Schema(d).pending = d.pending /\ Schema(d).resume = d.resume
BY DEF Schema, Documents

(* What a call that saves writes is a document: it changes the accepted    *)
(* release or the pending update as the operation says and nothing else.   *)
LEMMA SavedIs ==
    ASSUME NEW d \in Documents, NEW o, Asked(o), o.kind # "mutateResume",
           Chosen(d, o).act = "save"
    PROVE  LET e == Schema(Chosen(d, o).doc)
           IN  /\ e \in Documents
               /\ \/ /\ o.kind = "accept" /\ o.arg \in Releases
                     /\ e.accepted = o.arg /\ e.pending = d.pending
                  \/ /\ o.kind = "commit" /\ o.arg \in Releases
                     /\ d.pending = o.expected \/ (d.pending = None /\ d.accepted = o.arg)
                     /\ e.accepted = o.arg /\ e.pending = None
                  \/ /\ o.kind = "save" /\ o.arg \in Releases /\ d.pending = None
                     /\ e.accepted = d.accepted /\ e.pending = o.arg
                  \/ /\ o.kind \in {"clear", "clearIf"}
                     /\ o.kind = "clearIf" => d.pending = o.arg
                     /\ e.accepted = d.accepted /\ e.pending = None
<1>0. None \notin Legacy
  BY StoreAssumption
<1>1. CASE o.kind = "accept"
  <2>1. o.arg \in Releases /\ Chosen(d, o).doc = [d EXCEPT !.accepted = o.arg]
    BY <1>1 DEF Chosen, saveLastAcceptedVersion, Saves, Asked, Operations
  <2>2. QED
    BY <1>1, <2>1, SchemaIs DEF Documents
<1>2. CASE o.kind = "commit"
  <2>1. o.arg \in Releases
    BY <1>2 DEF Asked, Operations
  <2>2. \/ /\ Chosen(d, o).doc = [d EXCEPT !.accepted = o.arg, !.pending = None]
           /\ d.pending = o.expected
        \/ Chosen(d, o).doc = d /\ d.pending = None /\ d.accepted = o.arg
    BY <1>2 DEF Chosen, commitHealthyVersion, Saves, Answers
  <2> DEFINE e == Chosen(d, o).doc
  <2>3. /\ e \in [accepted: Releases \union {None}, pending: Releases \union {None},
                  versioned: BOOLEAN, resume: BOOLEAN]
        /\ e.accepted = o.arg /\ e.pending = None
    BY <2>1, <2>2 DEF Documents
  <2>4. Schema(e) \in Documents /\ Schema(e).accepted = o.arg /\ Schema(e).pending = None
    BY <1>0, <2>3, SchemaIs
  <2>5. QED
    BY <1>2, <2>1, <2>2, <2>4
<1>3. CASE o.kind = "save"
  <2>1. o.arg \in Releases /\ o.arg \notin Legacy
    BY <1>3 DEF Asked, Operations
  <2>2. Chosen(d, o).doc = [d EXCEPT !.pending = o.arg] /\ d.pending = None
    BY <1>3 DEF Chosen, savePendingUpdate, Saves, Answers
  <2>3. QED
    BY <1>3, <2>1, <2>2, SchemaIs DEF Documents
<1>4. CASE o.kind \in {"clear", "clearIf"}
  <2>1. /\ Chosen(d, o).doc = [d EXCEPT !.pending = None]
        /\ o.kind = "clearIf" => d.pending = o.arg
    BY <1>4 DEF Chosen, clearPendingUpdate, clearPendingUpdateIfMatches, Saves, Answers
  <2>2. QED
    BY <1>0, <1>4, <2>1, SchemaIs DEF Documents
<1>5. CASE o.kind \notin {"accept", "commit", "save", "clearIf", "clear"}
  BY <1>5 DEF Chosen, Answers
<1>6. QED
  BY <1>1, <1>2, <1>3, <1>4, <1>5

(* So does Decision, for the operations that do not look at the files again. *)
LEMMA DecisionIs ==
    ASSUME NEW d, NEW o, o.kind # "mutateResume"
    PROVE  Decision(d, o) = Chosen(d, o)
BY DEF Decision, Chosen

(* A document stays what is intended while the files change. *)
LEMMA IntendedKept ==
    ASSUME NEW c, Intended(c), UNCHANGED <<op[c], doc[c], seen[c]>>
    PROVE  Intended(c)'
BY DEF Intended, Current, Documented

(* The document of a call that saves. *)
LEMMA IntendedIs ==
    ASSUME StoreInv, NEW c \in Clients, pc[c] \in {"backup", "primary"}
    PROVE  /\ Intended(c) /\ Asked(op[c]) /\ doc[c] \in Documents /\ lock = c
           /\ op[c].kind = "mutateResume" =>
                 /\ seen[c].primary \in Documents /\ ~doc[c].resume
                 /\ doc[c].accepted = seen[c].primary.accepted
                 /\ doc[c].pending = seen[c].primary.pending
<1>1. Intended(c) /\ Asked(op[c]) /\ doc[c] \in Documents /\ lock = c
      /\ seen[c].primary \in Documents \union {Missing}
  BY DEF StoreInv, HolderInv, ReadInv, LockInv, Writing, ClientInv
<1>2. ASSUME op[c].kind = "mutateResume"
      PROVE  /\ seen[c].primary \in Documents /\ ~doc[c].resume
             /\ doc[c].accepted = seen[c].primary.accepted
             /\ doc[c].pending = seen[c].primary.pending
  <2>1. seen[c].primary \in Documents
        /\ doc[c] = Schema([seen[c].primary EXCEPT !.resume = FALSE])
    BY <1>1, <1>2, DocumentedIs DEF Intended
  <2> DEFINE d == [seen[c].primary EXCEPT !.resume = FALSE]
  <2>2. /\ d \in [accepted: Releases \union {None}, pending: Releases \union {None},
                  versioned: BOOLEAN, resume: BOOLEAN]
        /\ d.versioned => d.pending \notin Legacy
        /\ d.accepted = seen[c].primary.accepted /\ d.pending = seen[c].primary.pending
        /\ d.resume = FALSE
    BY <2>1 DEF Documents
  <2> HIDE DEF d
  <2>3. QED
    BY <2>1, <2>2, SchemaIs DEF d
<1>3. QED
  BY <1>1, <1>2

-----------------------------------------------------------------------------
(* The steps of one client. *)

(* What the other clients see of a step of c: their own state is left      *)
(* alone, and so are the files, unless c holds the lock.                   *)
Aside(c) ==
    /\ \A d \in Clients \ {c} : /\ pc'[d] = pc[d] /\ op'[d] = op[d] /\ doc'[d] = doc[d]
                                /\ seen'[d] = seen[d] /\ result'[d] = result[d]
    /\ lock = c \/ (disk' = disk /\ \A d \in Clients \ {c} : stale'[d] = stale[d])
    /\ UNCHANGED foreign

(* Then c alone matters for the holder of the lock. *)
LEMMA HolderAside ==
    ASSUME StoreInv, NEW c \in Clients, Aside(c),
           pc'[c] \in Writing => ReadInv(c)' /\ (foreign' = 0 => SnapshotInv(c)')
    PROVE  HolderInv'
<1> SUFFICES ASSUME NEW d \in Clients, d # c, pc'[d] \in Writing
             PROVE  ReadInv(d)' /\ (foreign' = 0 => SnapshotInv(d)')
  BY DEF HolderInv
<1>1. pc[d] \in Writing /\ lock = d
  BY DEF Aside, StoreInv, LockInv
<1>2. /\ pc'[d] = pc[d] /\ op'[d] = op[d] /\ doc'[d] = doc[d] /\ seen'[d] = seen[d]
      /\ stale'[d] = stale[d] /\ disk' = disk /\ foreign' = foreign
  BY <1>1 DEF Aside
<1>3. ReadInv(d) /\ (foreign = 0 => SnapshotInv(d))
  BY <1>1 DEF StoreInv, HolderInv
<1>4. Intended(d) => Intended(d)'
  BY <1>2, IntendedKept
<1>5. QED
  BY <1>2, <1>3, <1>4 DEF ReadInv, SnapshotInv, Documented, HasResume

(* And for the results. *)
LEMMA ResultAside ==
    ASSUME StoreInv, NEW c \in Clients, Aside(c),
           \/ result'[c] = result[c]
           \/ /\ result'[c].ok /\ result'[c].kind \in {"accept", "commit", "clear", "clearIf"}
                    => result'[c].durable
              /\ result'[c].ok /\ result'[c].kind = "mutateResume" /\ foreign = 0
                    => result'[c].clean
    PROVE  ResultInv'
BY DEF StoreInv, ResultInv, CommitAcknowledged, ScrubbedEverywhere, Aside

(* The lock file that nobody holds. *)
LEMMA NoneIsNoClient == None \notin Clients
BY StoreAssumption DEF Clients

(* A call that returns gives up the lock and leaves its result. *)
LEMMA ReturnsInv ==
    ASSUME StoreInv, NEW c \in Clients, NEW ok \in BOOLEAN, Returns(c, ok),
           FilesInv', stale' \in [Clients -> SUBSET Files],
           lock = c \/ (disk' = disk /\ \A d \in Clients \ {c} : stale'[d] = stale[d]),
           UNCHANGED <<attempts, crashes, foreign>>,
           ok /\ op[c].kind \in {"accept", "commit", "clear", "clearIf"} =>
              afterCrash'["primary"] = {disk'["primary"]},
           ok /\ op[c].kind = "mutateResume" /\ foreign = 0 =>
              /\ ~ HasResume(disk["primary"])' /\ ~ HasResume(disk["backup"])'
              /\ disk'["backup"] # Corrupt
    PROVE  StoreInv'
<1> DEFINE r == [kind |-> op[c].kind, ok |-> ok,
                 durable |-> afterCrash'["primary"] = {disk'["primary"]},
                 clean |-> ~ HasResume(disk'["primary"]) /\ ~ HasResume(disk'["backup"])
                           /\ disk'["backup"] # Corrupt]
<1>1. /\ pc' = [pc EXCEPT ![c] = "idle"] /\ op' = [op EXCEPT ![c] = NoOperation]
      /\ doc' = [doc EXCEPT ![c] = Fresh] /\ seen' = [seen EXCEPT ![c] = NothingSeen]
      /\ result' = [result EXCEPT ![c] = r] /\ lock' = (IF lock = c THEN None ELSE lock)
      /\ mutex' = [mutex EXCEPT ![c[1]] = None]
  BY DEF Returns, Forgets
<1>2. r.ok = ok /\ r.kind = op[c].kind /\ r.durable = (afterCrash'["primary"] = {disk'["primary"]})
      /\ r.clean = (~ HasResume(disk'["primary"]) /\ ~ HasResume(disk'["backup"])
                    /\ disk'["backup"] # Corrupt)
  OBVIOUS
<1> HIDE DEF r
<1>3. Fresh \in Documents
  BY StoreAssumption DEF Fresh, Documents
<1>4. ClientInv'
  BY <1>1, <1>3 DEF StoreInv, ClientInv
<1>5. Aside(c) /\ pc'[c] = "idle" /\ result'[c] = r
  BY <1>1 DEF StoreInv, ClientInv, Aside
<1>6. LockInv'
  BY <1>1, <1>5, NoneIsNoClient DEF StoreInv, ClientInv, LockInv, Aside, Writing
<1>7. HolderInv'
  BY <1>5, HolderAside DEF Writing
<1>8. ResultInv'
  <2>1. ok /\ op[c].kind = "mutateResume" /\ foreign = 0 => r.clean
    BY <1>2 DEF HasResume, Documented
  <2>2. QED
    BY <1>2, <1>5, <2>1, ResultAside
<1>9. QED
  BY <1>4, <1>6, <1>7, <1>8 DEF StoreInv

(* A call that goes on holds what it held. *)
LEMMA GoesInv ==
    ASSUME StoreInv, NEW c \in Clients, NEW next \in Writing, Goes(c, next), lock = c,
           Asked(op[c]), FilesInv', stale' \in [Clients -> SUBSET Files],
           UNCHANGED <<attempts, crashes, foreign, op>>, doc' \in [Clients -> Documents],
           seen' = [d \in Clients |-> seen'[d]],
           \A d \in Clients \ {c} : doc'[d] = doc[d] /\ seen'[d] = seen[d],
           pc'[c] = next => ReadInv(c)' /\ (foreign = 0 => SnapshotInv(c)')
    PROVE  StoreInv'
<1>1. pc' = [pc EXCEPT ![c] = next] /\ UNCHANGED <<mutex, lock, result>>
  BY DEF Goes
<1>2. pc'[c] = next /\ Aside(c) /\ result'[c] = result[c]
  BY <1>1 DEF StoreInv, ClientInv, Aside
<1>3. ClientInv'
  BY <1>1 DEF StoreInv, ClientInv
<1>4. LockInv'
  BY <1>1, <1>2 DEF StoreInv, ClientInv, LockInv, Aside, Writing
<1>5. HolderInv' /\ ResultInv'
  BY <1>2, HolderAside, ResultAside
<1>6. QED
  BY <1>3, <1>4, <1>5 DEF StoreInv

(* A write that was published, durable or not. *)
LEMMA VisibleFiles ==
    ASSUME FilesInv, ClientInv, NEW c \in Clients, NEW f \in Files, NEW content \in Contents(f),
           Visible(c, f, content),
           \/ afterCrash' = [g \in Files |-> {disk'[g]}]
           \/ afterCrash' = [afterCrash EXCEPT ![f] = @ \union {content}]
    PROVE  /\ FilesInv' /\ stale' \in [Clients -> SUBSET Files] /\ stale'[c] = stale[c]
           /\ disk'[f] = content /\ \A g \in Files \ {f} : disk'[g] = disk[g]
<1>1. disk' = [disk EXCEPT ![f] = content]
      /\ stale' = [d \in Clients |-> IF d = c THEN stale[c] ELSE Outdated(d, f)]
  BY DEF Visible
<1>2. \A d \in Clients : Outdated(d, f) \in SUBSET Files
  BY DEF Outdated, ClientInv
<1>3. stale' \in [Clients -> SUBSET Files] /\ stale'[c] = stale[c]
  BY <1>1, <1>2 DEF ClientInv
<1>4. disk' = [g \in Files |-> disk'[g]] /\ disk'[f] = content
      /\ \A g \in Files \ {f} : disk'[g] = disk[g]
  BY <1>1 DEF FilesInv
<1>5. \A g \in Files : disk'[g] \in Contents(g)
  BY <1>4 DEF FilesInv
<1>6. afterCrash' = [g \in Files |-> afterCrash'[g]]
      /\ \A g \in Files : afterCrash'[g] \subseteq Contents(g) /\ disk'[g] \in afterCrash'[g]
  <2>1. CASE afterCrash' = [g \in Files |-> {disk'[g]}]
    BY <1>5, <2>1
  <2>2. CASE afterCrash' = [afterCrash EXCEPT ![f] = @ \union {content}]
    BY <1>4, <2>2 DEF FilesInv
  <2>3. QED
    BY <2>1, <2>2
<1>7. Contents(f)' = Contents(f) /\ \A g \in Files : Contents(g)' = Contents(g)
  BY DEF Contents
<1>8. QED
  BY <1>3, <1>4, <1>5, <1>6, <1>7 DEF FilesInv

(* A write that fails ends the call. *)
LEMMA WriteFailsInv ==
    ASSUME StoreInv, NEW c \in Clients, NEW f \in Files, NEW content \in Contents(f),
           lock = c, WriteFails(c, f, content), UNCHANGED bounds
    PROVE  StoreInv'
<1>1. Returns(c, FALSE) /\ UNCHANGED <<attempts, crashes, foreign>>
  BY DEF WriteFails, bounds
<1>2. CASE UNCHANGED <<disk, stale, afterCrash>>
  <2>1. FilesInv' /\ stale' \in [Clients -> SUBSET Files]
    BY <1>2 DEF StoreInv, FilesInv, ClientInv, Contents
  <2>2. QED
    BY <1>1, <2>1, ReturnsInv
<1>3. CASE ~UNCHANGED <<disk, stale, afterCrash>>
  <2>1. Visible(c, f, content)
        /\ afterCrash' \in {[g \in Files |-> {disk'[g]}],
                            [afterCrash EXCEPT ![f] = @ \union {content}]}
    BY <1>3 DEF WriteFails
  <2>2. FilesInv' /\ stale' \in [Clients -> SUBSET Files]
    BY <2>1, VisibleFiles DEF StoreInv
  <2>3. QED
    BY <1>1, <2>2, ReturnsInv
<1>4. QED
  BY <1>2, <1>3

(* The snapshot of a save, or the one that is scrubbed alone. *)
LEMMA WriteBackupInv ==
    ASSUME StoreInv, NEW c \in Clients, WriteBackup(c)
    PROVE  StoreInv'
<1>1. PICK content : /\ content = (IF pc[c] = "backup" /\ op[c].kind = "mutateResume"
                                   THEN doc[c] ELSE seen[c].primary)
                     /\ \/ /\ Written(c, "backup", content)
                           /\ Goes(c, IF pc[c] = "backup" THEN "primary" ELSE "sidecar")
                           /\ UNCHANGED locals
                        \/ WriteFails(c, "backup", content)
  BY DEF WriteBackup
<1>2. /\ pc[c] \in {"backup", "snapshot"} /\ lock = c /\ Asked(op[c]) /\ ReadInv(c)
      /\ foreign = 0 => SnapshotInv(c)
      /\ doc[c] \in Documents
  BY DEF WriteBackup, StoreInv, LockInv, HolderInv, Writing, ClientInv
<1>3. seen[c].primary \in Documents
  BY <1>2, DocumentedIs DEF ReadInv
<1>4. content \in Documents /\ content \in Contents("backup") /\ "backup" \in Files
  BY <1>1, <1>2, <1>3 DEF Contents, Files
<1>5. UNCHANGED bounds
  BY DEF WriteBackup
<1>6. CASE WriteFails(c, "backup", content)
  BY <1>2, <1>4, <1>5, <1>6, WriteFailsInv
<1>7. CASE Written(c, "backup", content)
           /\ Goes(c, IF pc[c] = "backup" THEN "primary" ELSE "sidecar") /\ UNCHANGED locals
  <2>1. FilesInv' /\ stale' \in [Clients -> SUBSET Files] /\ stale'[c] = stale[c]
        /\ disk'["backup"] = content /\ disk'["primary"] = disk["primary"]
    BY <1>4, <1>7, VisibleFiles DEF Written, StoreInv, Files
  <2>2. UNCHANGED <<op, doc, seen, attempts, crashes, foreign>>
    BY <1>5, <1>7 DEF locals, bounds
  <2>3. ASSUME pc'[c] = (IF pc[c] = "backup" THEN "primary" ELSE "sidecar")
        PROVE  ReadInv(c)'
    <3>1. Intended(c) => Intended(c)'
      BY <2>2, IntendedKept
    <3>2. seen[c].primary # Missing /\ Documented(seen[c].primary)
      BY <1>3, ContentAssumption, DocumentedIs
    <3>3. QED
      BY <1>2, <2>1, <2>2, <2>3, <3>1, <3>2 DEF ReadInv, Documented
  <2>4. ASSUME pc'[c] = (IF pc[c] = "backup" THEN "primary" ELSE "sidecar"), foreign = 0
        PROVE  SnapshotInv(c)'
    <3>1. CASE pc[c] = "backup"
      BY <1>1, <1>2, <2>1, <2>2, <2>4, <3>1 DEF SnapshotInv
    <3>2. CASE pc[c] = "snapshot"
      <4>1. content = seen[c].primary /\ disk["primary"] = seen[c].primary
            /\ ~HasResume(seen[c].primary) /\ stale[c] = {}
        BY <1>1, <1>2, <2>4, <3>2 DEF SnapshotInv, ReadInv
      <4>2. seen[c].primary # Corrupt
        BY <1>3, ContentAssumption
      <4>3. QED
        BY <2>1, <2>2, <2>4, <3>2, <4>1, <4>2 DEF SnapshotInv, HasResume, Documented
    <3>3. QED
      BY <1>2, <3>1, <3>2
  <2> DEFINE next == IF pc[c] = "backup" THEN "primary" ELSE "sidecar"
  <2>5. next \in Writing
    BY DEF Writing
  <2>6. doc' \in [Clients -> Documents] /\ seen' = [d \in Clients |-> seen'[d]]
    BY <2>2 DEF StoreInv, ClientInv
  <2>7. Goes(c, next) /\ (pc'[c] = next => ReadInv(c)' /\ (foreign = 0 => SnapshotInv(c)'))
    BY <1>7, <2>3, <2>4
  <2> HIDE DEF next
  <2>8. QED
    BY <1>2, <2>1, <2>2, <2>5, <2>6, <2>7, GoesInv
<1>8. QED
  BY <1>1, <1>6, <1>7

(* The primary is replaced after its snapshot. *)
LEMMA WritePrimaryInv ==
    ASSUME StoreInv, NEW c \in Clients, WritePrimary(c)
    PROVE  StoreInv'
<1>1. /\ pc[c] = "primary" /\ UNCHANGED bounds
      /\ \/ /\ Written(c, "primary", doc[c])
            /\ IF op[c].kind = "mutateResume" THEN Goes(c, "sidecar") /\ UNCHANGED locals
               ELSE Returns(c, TRUE)
         \/ WriteFails(c, "primary", doc[c])
  BY DEF WritePrimary
<1>2. /\ Asked(op[c]) /\ doc[c] \in Documents /\ lock = c
      /\ op[c].kind = "mutateResume" => seen[c].primary \in Documents /\ ~doc[c].resume
  BY <1>1, IntendedIs
<1>3. ReadInv(c) /\ (foreign = 0 => SnapshotInv(c))
  BY <1>1 DEF StoreInv, HolderInv, Writing
<1>4. PICK content : content = doc[c]
  OBVIOUS
<1>5. content \in Contents("primary") /\ "primary" \in Files
  BY <1>2, <1>4 DEF Contents, Files
<1>6. UNCHANGED <<attempts, crashes, foreign>>
  BY <1>1 DEF bounds
<1>7. CASE WriteFails(c, "primary", doc[c])
  BY <1>1, <1>2, <1>4, <1>5, <1>7, WriteFailsInv
<1>8. CASE Written(c, "primary", doc[c])
  <2>1. /\ FilesInv' /\ stale' \in [Clients -> SUBSET Files] /\ stale'[c] = stale[c]
        /\ disk'["primary"] = content /\ disk'["backup"] = disk["backup"]
        /\ afterCrash'["primary"] = {disk'["primary"]}
    <3>1. Visible(c, "primary", content) /\ afterCrash' = [g \in Files |-> {disk'[g]}]
      BY <1>4, <1>8 DEF Written
    <3>2. /\ FilesInv' /\ stale' \in [Clients -> SUBSET Files] /\ stale'[c] = stale[c]
          /\ disk'["primary"] = content /\ disk'["backup"] = disk["backup"]
      BY <1>5, <3>1, VisibleFiles DEF StoreInv, Files
    <3>3. QED
      BY <1>5, <3>1, <3>2
  <2>2. CASE op[c].kind # "mutateResume"
    BY <1>1, <1>2, <1>6, <1>8, <2>1, <2>2, ReturnsInv DEF WriteFails, Returns
  <2>3. CASE op[c].kind = "mutateResume" /\ Goes(c, "sidecar") /\ UNCHANGED locals
    <3>1. UNCHANGED <<op, doc, seen>> /\ "sidecar" \in Writing
      BY <2>3 DEF locals, Writing
    <3>2. seen[c].primary \in Documents /\ seen[c].primary # Missing /\ Documented(seen[c].primary)
      BY <1>2, <2>3, ContentAssumption, DocumentedIs
    <3>3. pc'[c] = "sidecar" => ReadInv(c)'
      BY <1>3, <2>1, <2>3, <3>1, <3>2 DEF ReadInv
    <3>4. ASSUME pc'[c] = "sidecar", foreign = 0 PROVE SnapshotInv(c)'
      <4>1. disk["backup"] = content /\ stale[c] = {} /\ content \in Documents /\ ~content.resume
        BY <1>1, <1>2, <1>3, <1>4, <2>3, <3>2, <3>4 DEF SnapshotInv
      <4>2. content # Corrupt
        BY <4>1, ContentAssumption
      <4>3. QED
        BY <2>1, <3>1, <3>4, <4>1, <4>2 DEF SnapshotInv, HasResume, Documented
    <3>5. doc' \in [Clients -> Documents] /\ seen' = [d \in Clients |-> seen'[d]]
      BY <3>1 DEF StoreInv, ClientInv
    <3>6. QED
      BY <1>2, <1>6, <2>1, <2>3, <3>1, <3>3, <3>4, <3>5, GoesInv
  <2>4. CASE op[c].kind = "mutateResume" /\ ~(Goes(c, "sidecar") /\ UNCHANGED locals)
    BY <1>1, <1>2, <1>4, <1>5, <2>4, WriteFailsInv
  <2>5. QED
    BY <2>2, <2>3, <2>4
<1>9. QED
  BY <1>1, <1>7, <1>8

(* The sidecar is the last file of a change to the resume records. *)
LEMMA WriteSidecarInv ==
    ASSUME StoreInv, NEW c \in Clients, WriteSidecar(c)
    PROVE  StoreInv'
<1>1. /\ pc[c] = "sidecar" /\ UNCHANGED bounds
      /\ \/ UNCHANGED <<disk, afterCrash, stale>> /\ NoFault /\ Returns(c, TRUE)
         \/ Written(c, "sidecar", op[c].arg) /\ Returns(c, TRUE)
         \/ WriteFails(c, "sidecar", op[c].arg)
  BY DEF WriteSidecar
<1>2. /\ Asked(op[c]) /\ lock = c /\ op[c].kind = "mutateResume"
      /\ foreign = 0 => SnapshotInv(c)
  BY <1>1 DEF StoreInv, LockInv, HolderInv, ReadInv, Writing
<1>3. PICK content : content = op[c].arg
  OBVIOUS
<1>4. content \in Contents("sidecar") /\ "sidecar" \in Files
  BY <1>2, <1>3 DEF Asked, Operations, Contents, Files
<1>5. UNCHANGED <<attempts, crashes, foreign>>
  BY <1>1 DEF bounds
<1>6. CASE WriteFails(c, "sidecar", op[c].arg)
  BY <1>1, <1>2, <1>3, <1>4, <1>6, WriteFailsInv
<1>7. ASSUME Returns(c, TRUE), FilesInv', stale' \in [Clients -> SUBSET Files],
             disk'["primary"] = disk["primary"], disk'["backup"] = disk["backup"]
      PROVE  StoreInv'
  <2>1. foreign = 0 => /\ ~ HasResume(disk["primary"])' /\ ~ HasResume(disk["backup"])'
                       /\ disk'["backup"] # Corrupt
    BY <1>1, <1>2, <1>7 DEF SnapshotInv, HasResume, Documented
  <2>2. QED
    BY <1>2, <1>5, <1>7, <2>1, ReturnsInv
<1>8. CASE UNCHANGED <<disk, afterCrash, stale>> /\ Returns(c, TRUE)
  BY <1>7, <1>8 DEF StoreInv, FilesInv, ClientInv, Contents
<1>9. CASE Written(c, "sidecar", op[c].arg) /\ Returns(c, TRUE)
  BY <1>3, <1>4, <1>7, <1>9, VisibleFiles DEF Written, StoreInv, Files
<1>10. QED
  BY <1>1, <1>6, <1>8, <1>9

(* The search for old resume records saves what it found in the primary. *)
LEMMA ScrubIs ==
    ASSUME NEW d, scrubEmbeddedDownloadResumes(d).act = "save"
    PROVE  /\ HasResume(disk["primary"])
           /\ scrubEmbeddedDownloadResumes(d).doc = [d EXCEPT !.resume = FALSE]
<1>1. CASE HasResume(disk["primary"])
  BY <1>1 DEF scrubEmbeddedDownloadResumes, Saves
<1>2. CASE ~HasResume(disk["primary"])
  BY <1>2 DEF scrubEmbeddedDownloadResumes
<1>3. QED
  BY <1>1, <1>2

(* A call reads the files and decides. *)
LEMMA ReadStepInv ==
    ASSUME StoreInv, NEW c \in Clients, Read(c)
    PROVE  StoreInv'
<1>1. /\ pc[c] = "read" /\ UNCHANGED <<disk, afterCrash, bounds>>
      /\ lock = c /\ Asked(op[c])
  BY DEF Read, StoreInv, LockInv, Writing
<1>2. UNCHANGED <<attempts, crashes, foreign>> /\ FilesInv'
  BY <1>1 DEF bounds, StoreInv, FilesInv, Contents
<1>3. CASE Returns(c, FALSE) /\ UNCHANGED stale
  <2>1. stale' \in [Clients -> SUBSET Files]
    BY <1>3 DEF StoreInv, ClientInv
  <2>2. QED
    BY <1>1, <1>2, <1>3, <2>1, ReturnsInv
<1>4. CASE CanRead(op[c]) /\ stale' = [stale EXCEPT ![c] = {}]
           /\ ~(Returns(c, FALSE) /\ UNCHANGED stale)
  <2> DEFINE d == Current(disk["primary"])
             decision == Decision(d, op[c])
  <2>1. IF decision.act \in {"ok", "fail"}
        THEN Returns(c, decision.act = "ok")
        ELSE /\ seen' = [seen EXCEPT ![c] = disk] /\ UNCHANGED op
             /\ doc' = [doc EXCEPT ![c] = IF decision.act = "save"
                                            THEN Schema(decision.doc) ELSE decision.doc]
             /\ Goes(c, IF decision.act # "save" THEN decision.act
                        ELSE IF disk["primary"] = Missing THEN "primary" ELSE "backup")
    BY <1>4 DEF Read, Current
  <2>2. d \in Documents /\ disk["primary"] \in Documents \union {Missing, Corrupt}
    BY DocumentedIs DEF StoreInv, FilesInv, Files, Contents
  <2>3. stale' \in [Clients -> SUBSET Files] /\ stale'[c] = {}
    BY <1>4 DEF StoreInv, ClientInv
  <2>4. decision.act = "ok" => op[c].kind \notin {"accept", "commit", "clear", "clearIf", "mutateResume"}
    BY DEF Decision, saveLastAcceptedVersion, commitHealthyVersion, clearPendingUpdate,
       clearPendingUpdateIfMatches, scrubEmbeddedDownloadResumes, Saves, Answers
  <2>5. CASE decision.act \in {"ok", "fail"}
    BY <1>1, <1>2, <2>1, <2>3, <2>4, <2>5, ReturnsInv
  <2>6. CASE decision.act \notin {"ok", "fail"}
    <3> DEFINE next == IF decision.act # "save" THEN decision.act
                       ELSE IF disk["primary"] = Missing THEN "primary" ELSE "backup"
    <3>1. /\ seen' = [seen EXCEPT ![c] = disk] /\ UNCHANGED op /\ Goes(c, next)
          /\ doc' = [doc EXCEPT ![c] = IF decision.act = "save"
                                            THEN Schema(decision.doc) ELSE decision.doc]
      BY <2>1, <2>6
    <3>2. decision.act \in {"save", "snapshot", "sidecar"}
          /\ (op[c].kind # "mutateResume" => decision.act = "save")
      BY <2>6 DEF Decision, saveLastAcceptedVersion, commitHealthyVersion, savePendingUpdate,
         clearPendingUpdate, clearPendingUpdateIfMatches, scrubEmbeddedDownloadResumes, Saves,
         Answers
    <3>3. op[c].kind # "loadResume" /\ Readable
      BY <1>4, <2>6 DEF Decision, Answers, CanRead
    <3>4. disk["primary"] \in Documents \union {Missing}
          /\ (disk["primary"] = Missing => disk["backup"] = Missing)
      BY <2>2, <3>3 DEF Readable
    <3>5. Documented(disk["primary"]) <=> disk["primary"] \in Documents
      BY <2>2, DocumentedIs
    <3>6. op[c].kind = "mutateResume" =>
             /\ decision = scrubEmbeddedDownloadResumes(d)
             /\ disk["primary"] \in Documents => d = disk["primary"]
      BY <3>5 DEF Decision, Current
    <3>7. ASSUME op[c].kind = "mutateResume", decision.act = "save"
          PROVE  disk["primary"] \in Documents
                 /\ Schema(decision.doc) = Schema([disk["primary"] EXCEPT !.resume = FALSE])
      <4>1. HasResume(disk["primary"])
            /\ decision.doc = [d EXCEPT !.resume = FALSE]
        BY <3>6, <3>7, ScrubIs
      <4>2. QED
        BY <3>5, <3>6, <3>7, <4>1 DEF HasResume
    <3>8. ASSUME op[c].kind # "mutateResume"
          PROVE  Chosen(d, op[c]) = decision
      BY <3>8, DecisionIs
    <3>9. (IF decision.act = "save" THEN Schema(decision.doc) ELSE decision.doc) \in Documents
      <4>1. CASE op[c].kind # "mutateResume"
        BY <1>1, <2>2, <3>2, <3>8, <4>1, SavedIs
      <4>2. CASE op[c].kind = "mutateResume" /\ decision.act = "save"
        <5>1. PICK e : e = [disk["primary"] EXCEPT !.resume = FALSE]
          OBVIOUS
        <5>2. /\ e \in [accepted: Releases \union {None}, pending: Releases \union {None},
                        versioned: BOOLEAN, resume: BOOLEAN]
              /\ e.versioned => e.pending \notin Legacy
          BY <3>7, <4>2, <5>1 DEF Documents
        <5>3. QED
          BY <3>7, <4>2, <5>1, <5>2, SchemaIs
      <4>3. CASE op[c].kind = "mutateResume" /\ decision.act # "save"
        BY <2>2, <3>6, <4>3 DEF scrubEmbeddedDownloadResumes, Saves
      <4>4. QED
        BY <4>1, <4>2, <4>3
    <3>10. /\ doc' \in [Clients -> Documents] /\ seen' = [e \in Clients |-> seen'[e]]
           /\ seen'[c] = disk /\ \A e \in Clients \ {c} : doc'[e] = doc[e] /\ seen'[e] = seen[e]
           /\ doc'[c] = (IF decision.act = "save" THEN Schema(decision.doc) ELSE decision.doc)
      BY <3>1, <3>9 DEF StoreInv, ClientInv
    <3>11. next \in Writing
      BY <3>2 DEF Writing
    <3>12. ASSUME pc'[c] = next PROVE ReadInv(c)'
      <4>1. decision.act = "save" => Intended(c)'
        <5>1. CASE op[c].kind = "mutateResume"
          BY <3>1, <3>5, <3>7, <3>10, <5>1 DEF Intended, Documented
        <5>2. CASE op[c].kind # "mutateResume"
          <6>1. PICK x, y : x = d /\ y = op[c]
            OBVIOUS
          <6>2. Current(seen[c].primary)' = x /\ op'[c] = y
            BY <3>1, <3>10, <6>1 DEF Current, Documented
          <6>3. Chosen(x, y) = decision
            BY <3>8, <5>2, <6>1
          <6>4. QED
            BY <3>1, <3>2, <3>10, <5>2, <6>1, <6>2, <6>3 DEF Intended
        <5>3. QED
          BY <5>1, <5>2
      <4>2. decision.act = "snapshot" => Documented(disk["primary"])
        BY <3>2, <3>6 DEF scrubEmbeddedDownloadResumes, Saves
      <4>3. decision.act # "save" => op[c].kind = "mutateResume"
        BY <3>2
      <4>4. QED
        BY <1>1, <2>3, <3>1, <3>2, <3>4, <3>5, <3>10, <3>12, <4>1, <4>2, <4>3 DEF ReadInv, Documented
    <3>13. ASSUME pc'[c] = next, foreign = 0 PROVE SnapshotInv(c)'
      <4>1. decision.act = "snapshot" => ~HasResume(disk["primary"])
        BY <3>2, <3>6 DEF scrubEmbeddedDownloadResumes, Saves
      <4>2. decision.act = "sidecar" =>
               /\ ~HasResume(disk["primary"]) /\ ~HasResume(disk["backup"])
               /\ disk["backup"] # Corrupt
        BY <3>2, <3>4, <3>5, <3>6, ContentAssumption
           DEF scrubEmbeddedDownloadResumes, Saves, HasResume, Documented
      <4>3. disk["primary"] = Missing => ~Documented(disk["primary"])
        BY DEF Documented
      <4>4. QED
        BY <1>1, <2>3, <3>1, <3>2, <3>10, <3>13, <4>1, <4>2, <4>3
           DEF SnapshotInv, HasResume, Documented
    <3> HIDE DEF next, decision, d
    <3>14. QED
      BY <1>1, <1>2, <2>3, <3>1, <3>10, <3>11, <3>12, <3>13, GoesInv
  <2>7. QED
    BY <2>5, <2>6
<1>5. QED
  BY <1>3, <1>4 DEF Read

(* Calling and taking the locks leaves the files alone. *)
LEMMA EnterInv ==
    ASSUME StoreInv, NEW c \in Clients,
           Call(c) \/ EnterProcess(c) \/ TakeLock(c) \/ RetryLock(c)
    PROVE  StoreInv'
<1>0. c[1] \in Processes /\ c[2] \in Threads
  BY DEF Clients
<1>1. UNCHANGED <<disk, afterCrash, doc, seen, stale, crashes, foreign>>
  BY DEF Call, EnterProcess, TakeLock, RetryLock, locals, bounds
<1>2. FilesInv'
  BY <1>1 DEF StoreInv, FilesInv, Contents
<1>3. CASE Call(c)
  <2>1. PICK o \in Operations :
           IF o.kind = "save" /\ o.arg \in Legacy
           THEN result' = [result EXCEPT ![c] = [NoResult EXCEPT !.kind = "save"]] /\ UNCHANGED <<pc, op>>
           ELSE op' = [op EXCEPT ![c] = o] /\ pc' = [pc EXCEPT ![c] = "mutex"] /\ UNCHANGED result
    BY <1>3 DEF Call
  <2>2. pc[c] = "idle" /\ attempts' = [attempts EXCEPT ![c] = 0] /\ UNCHANGED <<mutex, lock>>
        /\ 0 \in 0 .. LockAttempts
    BY <1>3, StoreAssumption DEF Call
  <2>3. CASE o.kind = "save" /\ o.arg \in Legacy
    <3>1. result' = [result EXCEPT ![c] = [NoResult EXCEPT !.kind = "save"]] /\ UNCHANGED <<pc, op>>
      BY <2>1, <2>3
    <3>2. ClientInv'
      BY <1>1, <2>2, <3>1 DEF StoreInv, ClientInv
    <3>3. Aside(c) /\ ~result'[c].ok /\ pc'[c] = "idle"
      BY <1>1, <2>2, <3>1 DEF StoreInv, ClientInv, Aside, NoResult
    <3>4. HolderInv' /\ ResultInv'
      BY <3>3, HolderAside, ResultAside DEF Writing
    <3>5. QED
      BY <1>2, <2>2, <3>1, <3>2, <3>4 DEF StoreInv, LockInv
  <2>4. CASE ~(o.kind = "save" /\ o.arg \in Legacy)
    <3>1. op' = [op EXCEPT ![c] = o] /\ pc' = [pc EXCEPT ![c] = "mutex"] /\ UNCHANGED result
      BY <2>1, <2>4
    <3>2. ClientInv'
      BY <1>1, <2>2, <3>1 DEF StoreInv, ClientInv
    <3>3. Aside(c) /\ result'[c] = result[c] /\ pc'[c] = "mutex" /\ op'[c] = o
      BY <1>1, <2>2, <3>1 DEF StoreInv, ClientInv, Aside
    <3>4. HolderInv' /\ ResultInv'
      BY <3>3, HolderAside, ResultAside DEF Writing
    <3>5. LockInv'
      BY <2>2, <2>4, <3>3 DEF StoreInv, LockInv, Aside, Asked, Writing
    <3>6. QED
      BY <1>2, <3>2, <3>4, <3>5 DEF StoreInv
  <2>5. QED
    BY <2>3, <2>4
<1>4. CASE EnterProcess(c) \/ TakeLock(c) \/ RetryLock(c)
  <2>1. /\ UNCHANGED <<op, result>> /\ pc[c] \in {"mutex", "lock"}
        /\ \/ pc' = [pc EXCEPT ![c] = "lock"] /\ lock' = lock
           \/ pc' = pc /\ lock' = lock
           \/ pc' = [pc EXCEPT ![c] = "read"] /\ lock = None /\ lock' = c
    BY <1>4 DEF EnterProcess, TakeLock, RetryLock, locals
  <2>2. mutex' \in [Processes -> Threads \union {None}] /\ attempts' \in [Clients -> 0 .. LockAttempts]
    BY <1>0, <1>4, StoreAssumption
       DEF EnterProcess, TakeLock, RetryLock, bounds, StoreInv, ClientInv
  <2>3. ClientInv'
    BY <1>1, <2>1, <2>2 DEF StoreInv, ClientInv
  <2>4. Aside(c) /\ result'[c] = result[c] /\ pc'[c] \in {"mutex", "lock", "read"}
    BY <1>1, <2>1 DEF StoreInv, ClientInv, Aside
  <2>5. HolderInv' /\ ResultInv'
    BY <2>4, HolderAside, ResultAside DEF Writing
  <2>6. LockInv'
    <3>1. None \notin Clients
      BY StoreAssumption DEF Clients
    <3>2. QED
      BY <2>1, <2>4, <3>1 DEF StoreInv, ClientInv, LockInv, Aside, Writing
  <2>7. QED
    BY <1>2, <2>3, <2>5, <2>6 DEF StoreInv
<1>5. QED
  BY <1>3, <1>4

(* A call that does not get the lock. *)
LEMMA LockFailsInv ==
    ASSUME StoreInv, NEW c \in Clients, LockFails(c)
    PROVE  StoreInv'
<1>1. Returns(c, FALSE) /\ UNCHANGED <<disk, afterCrash, stale, attempts, crashes, foreign>>
  BY DEF LockFails, bounds
<1>2. FilesInv' /\ stale' \in [Clients -> SUBSET Files]
  BY <1>1 DEF StoreInv, FilesInv, ClientInv, Contents
<1>3. QED
  BY <1>1, <1>2, ReturnsInv

-----------------------------------------------------------------------------
(* The environment. *)

(* Clients that are stopped lose what they held in memory, and the lock. *)
LEMMA StoppedInv ==
    ASSUME StoreInv, NEW who \in SUBSET Clients, Stopped(who), FilesInv',
           stale' \in [Clients -> SUBSET Files],
           who = Clients \/ UNCHANGED <<disk, stale>>
    PROVE  StoreInv'
<1>1. /\ pc' = [c \in Clients |-> IF c \in who THEN "idle" ELSE pc[c]]
      /\ result' = [c \in Clients |-> IF c \in who THEN NoResult ELSE result[c]]
      /\ lock' = (IF lock \in who THEN None ELSE lock)
      /\ mutex' = [p \in Processes |-> IF \E c \in who : c[1] = p THEN None ELSE mutex[p]]
      /\ crashes' = crashes + 1
      /\ op' = [c \in Clients |-> IF c \in who THEN NoOperation ELSE op[c]]
      /\ doc' = [c \in Clients |-> IF c \in who THEN Fresh ELSE doc[c]]
      /\ seen' = [c \in Clients |-> IF c \in who THEN NothingSeen ELSE seen[c]]
      /\ UNCHANGED <<attempts, foreign>>
  BY DEF Stopped
<1>2. Fresh \in Documents /\ ~NoResult.ok
  BY StoreAssumption DEF Fresh, Documents, NoResult
<1>3. ClientInv'
  <2>1. seen' = [c \in Clients |-> seen'[c]] /\ result' = [c \in Clients |-> result'[c]]
    BY <1>1
  <2>2. doc' \in [Clients -> Documents] /\ op' \in [Clients -> Operations \union {NoOperation}]
        /\ pc' \in [Clients -> Writing \union {"idle", "mutex", "lock", "read"}]
    BY <1>1, <1>2 DEF StoreInv, ClientInv
  <2>3. mutex' \in [Processes -> Threads \union {None}] /\ lock' \in Clients \union {None}
        /\ attempts' \in [Clients -> 0 .. LockAttempts] /\ crashes' \in Nat /\ foreign' \in Nat
    BY <1>1 DEF StoreInv, ClientInv
  <2>4. QED
    BY <2>1, <2>2, <2>3 DEF ClientInv
<1>4. LockInv'
  BY <1>1, NoneIsNoClient DEF StoreInv, ClientInv, LockInv, Writing
<1>5. HolderInv'
  <2> SUFFICES ASSUME NEW d \in Clients, pc'[d] \in Writing
               PROVE  ReadInv(d)' /\ (foreign' = 0 => SnapshotInv(d)')
    BY DEF HolderInv
  <2>1. /\ d \notin who /\ pc'[d] = pc[d] /\ op'[d] = op[d] /\ doc'[d] = doc[d]
        /\ seen'[d] = seen[d] /\ UNCHANGED <<disk, stale, foreign>>
    BY <1>1 DEF Writing
  <2>2. ReadInv(d) /\ (foreign = 0 => SnapshotInv(d))
    BY <2>1 DEF StoreInv, HolderInv
  <2>3. Intended(d) => Intended(d)'
    BY <2>1, IntendedKept
  <2>4. QED
    BY <2>1, <2>2, <2>3 DEF ReadInv, SnapshotInv, Documented, HasResume
<1>6. ResultInv'
  BY <1>1, <1>2 DEF StoreInv, ResultInv, CommitAcknowledged, ScrubbedEverywhere
<1>7. QED
  BY <1>3, <1>4, <1>5, <1>6 DEF StoreInv

(* A process is killed, or the power fails. *)
LEMMA CrashInv ==
    ASSUME StoreInv, PowerFailure \/ \E p \in Processes : Crash(p)
    PROVE  StoreInv'
<1>1. CASE \E p \in Processes : Crash(p)
  <2>1. PICK p \in Processes : Crash(p)
    BY <1>1
  <2>2. Stopped({c \in Clients : c[1] = p}) /\ UNCHANGED <<disk, afterCrash, stale>>
    BY <2>1 DEF Crash
  <2>3. FilesInv' /\ stale' \in [Clients -> SUBSET Files]
    BY <2>2 DEF StoreInv, FilesInv, ClientInv, Contents
  <2>4. QED
    BY <2>2, <2>3, StoppedInv
<1>2. CASE PowerFailure
  <2>1. /\ Stopped(Clients) /\ stale' = [c \in Clients |-> {}]
        /\ disk' \in [primary: afterCrash["primary"], backup: afterCrash["backup"],
                      sidecar: afterCrash["sidecar"]]
        /\ afterCrash' = [f \in Files |-> {disk'[f]}]
    BY <1>2 DEF PowerFailure
  <2>2. disk' = [f \in Files |-> disk'[f]] /\ \A f \in Files : disk'[f] \in afterCrash[f]
    BY <2>1 DEF Files
  <2>3. FilesInv'
    BY <2>1, <2>2 DEF StoreInv, FilesInv, Contents
  <2>4. stale' \in [Clients -> SUBSET Files]
    BY <2>1
  <2>5. QED
    BY <2>1, <2>3, <2>4, StoppedInv
<1>3. QED
  BY <1>1, <1>2

(* Another program interferes: the holder of the lock notices, unless it   *)
(* is the snapshot, which is read again when it is written.                *)
LEMMA ForeignInv ==
    ASSUME StoreInv, Foreign
    PROVE  StoreInv'
<1>1. PICK f \in Files, content \in {Missing, Corrupt} :
         /\ disk[f] \notin {Missing, content} /\ disk' = [disk EXCEPT ![f] = content]
         /\ afterCrash' = [afterCrash EXCEPT ![f] = @ \union {content}]
         /\ stale' = [c \in Clients |-> Outdated(c, f)]
  BY DEF Foreign
<1>2. foreign' = foreign + 1 /\ UNCHANGED <<mutex, lock, pc, op, doc, seen, attempts, result, crashes>>
  BY DEF Foreign, locals
<1>3. FilesInv'
  BY <1>1 DEF StoreInv, FilesInv, Contents
<1>4. stale' \in [Clients -> SUBSET Files]
  BY <1>1 DEF StoreInv, ClientInv, Outdated
<1>5. ClientInv' /\ LockInv'
  BY <1>2, <1>4 DEF StoreInv, ClientInv, LockInv
<1>6. foreign' # 0
  BY <1>2 DEF StoreInv, ClientInv
<1>7. ResultInv'
  BY <1>2, <1>6 DEF StoreInv, ResultInv, CommitAcknowledged, ScrubbedEverywhere
<1>8. HolderInv'
  <2> SUFFICES ASSUME NEW d \in Clients, pc[d] \in Writing PROVE ReadInv(d)'
    BY <1>2, <1>6 DEF HolderInv
  <2>1. ReadInv(d)
    BY DEF StoreInv, HolderInv
  <2>2. Intended(d) => Intended(d)'
    BY <1>2, IntendedKept
  <2>3. "primary" \notin stale'[d] => "primary" \notin stale[d] /\ disk'["primary"] = disk["primary"]
    BY <1>1 DEF Outdated, Writing, StoreInv, FilesInv, Files
  <2>4. disk["backup"] = Missing => disk'["backup"] = Missing
    BY <1>1 DEF StoreInv, FilesInv, Files
  <2>5. QED
    BY <1>2, <2>1, <2>2, <2>3, <2>4 DEF ReadInv, Documented
<1>9. QED
  BY <1>3, <1>5, <1>7, <1>8 DEF StoreInv

-----------------------------------------------------------------------------
(* The invariant in every reachable state. *)

(* The store as an earlier release of the library left it. *)
LEMMA StoreInit == Init => StoreInv
<1> SUFFICES ASSUME Init PROVE StoreInv
  OBVIOUS
<1>1. \A d \in {Missing} \union OldDocuments : d \in Documents \union {Missing}
  BY StoreAssumption DEF OldDocuments, Documents
<1>2. \A d \in OldSnapshots : d \in Documents \union {Missing}
  <2>1. [Fresh EXCEPT !.resume = TRUE] \in Documents
    BY StoreAssumption DEF Fresh, Documents
  <2>2. QED
    BY <2>1 DEF OldSnapshots
<1>3. /\ disk \in [primary: {Missing} \union OldDocuments, backup: OldSnapshots, sidecar: {Missing}]
      /\ afterCrash = [f \in Files |-> {disk[f]}]
  BY DEF Init
<1>4. disk = [f \in Files |-> disk[f]]
  BY <1>3 DEF Files
<1>5. \A f \in Files : disk[f] \in Contents(f)
  BY <1>1, <1>2, <1>3 DEF Files, Contents
<1>6. FilesInv
  BY <1>3, <1>4, <1>5 DEF FilesInv
<1>7. Fresh \in Documents
  BY StoreAssumption DEF Fresh, Documents
<1>8. ClientInv
  BY <1>7, StoreAssumption DEF Init, ClientInv
<1>9. \A c \in Clients : pc[c] = "idle" /\ ~result[c].ok
  BY DEF Init, NoResult
<1>10. LockInv /\ HolderInv /\ ResultInv
  BY <1>9, NoneIsNoClient DEF Init, LockInv, HolderInv, ResultInv, Writing, CommitAcknowledged, ScrubbedEverywhere
<1>11. QED
  BY <1>6, <1>8, <1>10 DEF StoreInv

(* Every step keeps the invariant. *)
LEMMA StoreNext == StoreInv /\ [Next]_vars => StoreInv'
<1> SUFFICES ASSUME StoreInv, [Next]_vars PROVE StoreInv'
  OBVIOUS
<1>1. CASE \E c \in Clients : Call(c) \/ Step(c)
  BY <1>1, EnterInv, LockFailsInv, ReadStepInv, WriteBackupInv, WritePrimaryInv,
     WriteSidecarInv DEF Step
<1>2. CASE PowerFailure \/ \E p \in Processes : Crash(p)
  BY <1>2, CrashInv
<1>3. CASE Foreign
  BY <1>3, ForeignInv
<1>4. CASE UNCHANGED vars
  <2>1. UNCHANGED <<disk, afterCrash, mutex, lock, pc, op, attempts, doc, seen, stale, result,
                    crashes, foreign>>
    BY <1>4 DEF vars
  <2>2. FilesInv' /\ ClientInv' /\ LockInv' /\ ResultInv'
    BY <2>1 DEF StoreInv, FilesInv, ClientInv, LockInv, ResultInv, Contents,
                CommitAcknowledged, ScrubbedEverywhere
  <2>3. ASSUME NEW d \in Clients, pc[d] \in Writing
        PROVE  ReadInv(d)' /\ (foreign = 0 => SnapshotInv(d)')
    <3>1. ReadInv(d) /\ (foreign = 0 => SnapshotInv(d))
      BY <2>3 DEF StoreInv, HolderInv
    <3>2. Intended(d) => Intended(d)'
      BY <2>1, IntendedKept
    <3>3. QED
      BY <2>1, <3>1, <3>2 DEF ReadInv, SnapshotInv, Documented, HasResume
  <2>4. HolderInv'
    BY <2>1, <2>3 DEF HolderInv
  <2>5. QED
    BY <2>2, <2>4 DEF StoreInv
<1>5. QED
  BY <1>1, <1>2, <1>3, <1>4 DEF Next

(* The lock file has one holder, who knows what it replaces. *)
THEOREM StoreInvariance == Spec => []StoreInv
BY StoreInit, StoreNext, PTL DEF Spec

(* For any number of processes, failing writes and crashes: a commit, a    *)
(* clear or an acceptance that reports success is durable, and after a     *)
(* successful change of the resume records no old map is left beside the   *)
(* state.                                                                  *)
THEOREM SuccessStays == Spec => []SuccessIsKept
<1>1. StoreInv => SuccessIsKept
  BY DEF StoreInv, FilesInv, ClientInv, ResultInv, SuccessIsKept, TypeOK, Writing
<1>2. QED
  BY <1>1, StoreInvariance, PTL

-----------------------------------------------------------------------------
(* What a step may do to the state file. *)

(* The primary is replaced only by the holder of the lock, by the document *)
(* it intends, and only if it is still what that call has read.            *)
LEMMA PrimaryChange ==
    ASSUME StoreInv, NEW c \in Clients, Call(c) \/ Step(c)
    PROVE  \/ /\ disk'["primary"] = disk["primary"]
              /\ afterCrash'["primary"] \in {afterCrash["primary"], {disk["primary"]}}
           \/ /\ pc[c] = "primary" /\ "primary" \notin stale[c]
              /\ disk'["primary"] = doc[c]
              /\ afterCrash'["primary"] \in {{doc[c]}, afterCrash["primary"] \union {doc[c]}}
<1>1. CASE Call(c) \/ EnterProcess(c) \/ TakeLock(c) \/ RetryLock(c) \/ LockFails(c) \/ Read(c)
  BY <1>1 DEF Call, EnterProcess, TakeLock, RetryLock, LockFails, Read
<1>2. ASSUME NEW f \in Files, NEW content, Written(c, f, content) \/ WriteFails(c, f, content)
      PROVE  \/ UNCHANGED <<disk, afterCrash>>
             \/ /\ f \notin stale[c] /\ disk'["primary"] = IF f = "primary" THEN content ELSE disk["primary"]
                /\ \/ afterCrash'["primary"] = {disk'["primary"]}
                   \/ afterCrash'["primary"] = IF f = "primary" THEN afterCrash["primary"] \union {content}
                                               ELSE afterCrash["primary"]
  <2>1. CASE UNCHANGED <<disk, afterCrash>>
    BY <2>1
  <2>2. CASE ~UNCHANGED <<disk, afterCrash>>
    <3>1. /\ f \notin stale[c] /\ disk' = [disk EXCEPT ![f] = content]
          /\ \/ afterCrash' = [g \in Files |-> {disk'[g]}]
             \/ afterCrash' = [afterCrash EXCEPT ![f] = @ \union {content}]
      BY <1>2, <2>2 DEF Written, WriteFails, Visible
    <3>2. disk = [g \in Files |-> disk[g]] /\ afterCrash = [g \in Files |-> afterCrash[g]]
          /\ "primary" \in Files
      BY DEF StoreInv, FilesInv, Files
    <3>3. disk'["primary"] = IF f = "primary" THEN content ELSE disk["primary"]
      BY <3>1, <3>2
    <3>4. CASE afterCrash' = [g \in Files |-> {disk'[g]}]
      BY <3>1, <3>2, <3>3, <3>4
    <3>5. CASE afterCrash' = [afterCrash EXCEPT ![f] = @ \union {content}]
      BY <3>1, <3>2, <3>3, <3>5
    <3>6. QED
      BY <3>1, <3>4, <3>5
  <2>3. QED
    BY <2>1, <2>2
<1>3. "backup" \in Files /\ "sidecar" \in Files /\ "primary" \in Files
  BY DEF Files
<1>4. CASE WriteBackup(c)
  BY <1>2, <1>3, <1>4 DEF WriteBackup
<1>5. CASE WriteSidecar(c)
  BY <1>2, <1>3, <1>5 DEF WriteSidecar
<1>6. CASE WritePrimary(c)
  <2>1. pc[c] = "primary" /\ (Written(c, "primary", doc[c]) \/ WriteFails(c, "primary", doc[c]))
    BY <1>6 DEF WritePrimary
  <2>2. QED
    BY <1>2, <1>3, <2>1
<1>7. QED
  BY <1>1, <1>4, <1>5, <1>6 DEF Step

(* A call that replaces the primary read it, and it is not corrupt. *)
LEMMA ReplacedWasRead ==
    ASSUME StoreInv, NEW c \in Clients, pc[c] = "primary", "primary" \notin stale[c]
    PROVE  /\ disk["primary"] = seen[c].primary /\ disk["primary"] \in Documents \union {Missing}
           /\ disk["primary"] = Missing => disk["backup"] = Missing
BY DEF StoreInv, HolderInv, ReadInv, Writing

(* A state that is corrupt, or gone from beside its snapshot, stays so. *)
LEMMA FailsClosedStep ==
    ASSUME StoreInv, Next
    PROVE  FailsClosed
<1>1. CASE \E c \in Clients : Call(c) \/ Step(c)
  <2>1. PICK c \in Clients : Call(c) \/ Step(c)
    BY <1>1
  <2>2. CASE disk'["primary"] = disk["primary"]
    BY <2>2 DEF FailsClosed
  <2>3. CASE pc[c] = "primary" /\ "primary" \notin stale[c]
    BY <2>3, ReplacedWasRead, ContentAssumption DEF FailsClosed
  <2>4. QED
    BY <2>1, <2>2, <2>3, PrimaryChange
<1>2. CASE PowerFailure \/ \E p \in Processes : Crash(p)
  <2>1. crashes' # crashes
    BY <1>2 DEF PowerFailure, Crash, Stopped, StoreInv, ClientInv
  <2>2. QED
    BY <2>1 DEF FailsClosed
<1>3. CASE Foreign
  BY <1>3 DEF Foreign, FailsClosed, StoreInv, ClientInv
<1>4. QED
  BY <1>1, <1>2, <1>3 DEF Next

(* The snapshot beside a primary about to be replaced is that primary. *)
LEMMA SnapshotIsReplacedStep ==
    ASSUME StoreInv
    PROVE  SnapshotIsReplaced
<1> SUFFICES ASSUME NEW c \in Clients, pc[c] = "primary", disk["primary"] # Missing, foreign = 0,
                    op[c].kind # "mutateResume"
             PROVE  disk["backup"] = disk["primary"]
  BY DEF SnapshotIsReplaced
<1>1. ReadInv(c) /\ SnapshotInv(c)
  BY DEF StoreInv, HolderInv, Writing
<1>2. disk["primary"] = seen[c].primary /\ seen[c].primary \in Documents
  BY <1>1 DEF ReadInv, SnapshotInv
<1>3. QED
  BY <1>1, <1>2, DocumentedIs DEF SnapshotInv

(* For any number of processes, failing writes and crashes: the snapshot   *)
(* is what the last save replaced and never stands in for the state.       *)
THEOREM SnapshotNeverStandsIn == Spec => SnapshotDiscipline
<1>1. StoreInv /\ [Next]_vars => [FailsClosed /\ SnapshotIsReplaced]_vars
  BY FailsClosedStep, SnapshotIsReplacedStep
<1>2. QED
  BY <1>1, StoreInvariance, PTL DEF Spec, SnapshotDiscipline

-----------------------------------------------------------------------------
(* The state file implements StateContract. *)

AbstractNext == [Contract!Next]_<<View(disk["primary"]),
                                  {View(content) : content \in afterCrash["primary"]}, Serving>>

Changing == {"accept", "commit", "save", "clearIf", "clear"}

(* The call that is served is replaced by no other: it is taken up when    *)
(* there is none, and ends.                                                *)
LEMMA ServingStep ==
    ASSUME StoreInv, NEW c \in Clients, Call(c) \/ Step(c)
    PROVE  \/ Serving' \in {Serving, NoOperation}
           \/ Serving = NoOperation /\ Serving' \in Contract!Requests /\ UNCHANGED <<disk, afterCrash>>
<1>0. /\ None \notin Clients /\ lock \in Clients \union {None} /\ op = [d \in Clients |-> op[d]]
      /\ lock = c => pc[c] \in Writing \union {"read"}
  BY StoreAssumption DEF Clients, StoreInv, ClientInv, LockInv
<1>1. ASSUME NEW ok, Returns(c, ok) PROVE Serving' \in {Serving, NoOperation}
  BY <1>0, <1>1 DEF Returns, Forgets, Serving, NoOperation
<1>2. ASSUME UNCHANGED <<lock, op>> PROVE Serving' = Serving
  BY <1>2 DEF Serving, NoOperation
<1>3. CASE Call(c)
  <2>1. pc[c] = "idle" /\ lock' = lock /\ \E o : op' = op \/ op' = [op EXCEPT ![c] = o]
    BY <1>3 DEF Call
  <2>2. lock # c
    BY <1>0, <2>1 DEF Writing
  <2>3. QED
    BY <1>0, <2>1, <2>2 DEF Serving, NoOperation
<1>4. CASE TakeLock(c)
  <2>1. /\ lock = None /\ lock' = c /\ UNCHANGED <<disk, afterCrash, op>> /\ Asked(op[c])
    BY <1>4 DEF TakeLock, locals, StoreInv, LockInv
  <2>2. Serving = NoOperation /\ Serving' = (IF op[c].kind \in Changing THEN op[c] ELSE NoOperation)
    BY <1>0, <2>1 DEF Serving, NoOperation, Changing
  <2>3. op[c].kind \in Changing => op[c] \in Contract!Requests
    BY <2>1 DEF Asked, Operations, Contract!Requests, Changing
  <2>4. QED
    BY <2>1, <2>2, <2>3
<1>5. CASE EnterProcess(c) \/ RetryLock(c)
  BY <1>2, <1>5 DEF EnterProcess, RetryLock, locals
<1>6. CASE LockFails(c)
  BY <1>1, <1>6 DEF LockFails
<1>7. CASE Read(c)
  <2>1. (\E ok : Returns(c, ok)) \/ UNCHANGED <<lock, op>>
    BY <1>7 DEF Read, Goes
  <2>2. QED
    BY <1>1, <1>2, <2>1
<1>8. CASE WriteBackup(c) \/ WritePrimary(c) \/ WriteSidecar(c)
  <2>1. (\E ok : Returns(c, ok)) \/ UNCHANGED <<lock, op>>
    BY <1>8 DEF WriteBackup, WritePrimary, WriteSidecar, WriteFails, Goes, locals
  <2>2. QED
    BY <1>1, <1>2, <2>1
<1>9. QED
  BY <1>3, <1>4, <1>5, <1>6, <1>7, <1>8 DEF Step

(* The call that replaces the primary is the one that is served, and it    *)
(* ends with that.                                                         *)
LEMMA ServedWrites ==
    ASSUME StoreInv, NEW c \in Clients, Call(c) \/ Step(c), pc[c] = "primary",
           op[c].kind # "mutateResume"
    PROVE  Serving = op[c] /\ Serving' = NoOperation
<1>0. /\ None \notin Clients /\ lock = c /\ Asked(op[c]) /\ Intended(c)
  BY StoreAssumption DEF Clients, StoreInv, LockInv, HolderInv, ReadInv, Writing
<1>1. op[c].kind \in Changing
  BY <1>0 DEF Intended, Chosen, Answers, Changing
<1>2. WritePrimary(c)
  BY DEF Call, Step, EnterProcess, TakeLock, RetryLock, LockFails, Read, WriteBackup, WriteSidecar
<1>3. \E ok : Returns(c, ok)
  BY <1>2 DEF WritePrimary, WriteFails
<1>4. lock' = None
  BY <1>0, <1>3 DEF Returns
<1>5. QED
  BY <1>0, <1>1, <1>4 DEF Serving, Changing, NoOperation

(* The value of the contract, and the document it stands for. *)
LEMMA ViewIs ==
    ASSUME NEW content \in Documents \union {Missing}
    PROVE  /\ View(content) # Corrupt
           /\ Contract!View(View(content)) = [accepted |-> Current(content).accepted,
                                              pending |-> Current(content).pending]
<1>1. CASE content \in Documents
  <2>1. View(content) = [accepted |-> content.accepted, pending |-> content.pending]
        /\ Current(content) = content
    BY <1>1, DocumentedIs DEF View, Current
  <2>2. View(content) \in [accepted: Releases \union {None}, pending: Releases \union {None}]
    BY <1>1, <2>1 DEF Documents
  <2>3. QED
    BY <2>1, <2>2, ContentAssumption DEF Contract!View
<1>2. CASE content = Missing
  <2>1. View(content) = Missing /\ Current(content) = Fresh
    BY <1>2 DEF View, Current, Documented
  <2>2. QED
    BY <2>1, ContentAssumption DEF Contract!View, Fresh
<1>3. QED
  BY <1>1, <1>2

(* Making the primary durable, with whichever file was flushed. *)
LEMMA DurableIsAbstract ==
    ASSUME StoreInv, disk'["primary"] = disk["primary"],
           afterCrash'["primary"] \in {afterCrash["primary"], {disk["primary"]}},
           Serving' \in {Serving, NoOperation}
    PROVE  AbstractNext
<1> DEFINE v == View(disk["primary"])
           r == {View(content) : content \in afterCrash["primary"]}
<1>1. v' = v /\ v \in r
  BY DEF View, Documented, StoreInv, FilesInv, Files
<1>2. CASE afterCrash'["primary"] = afterCrash["primary"]
  <2>1. r' = r
    BY <1>2 DEF View, Documented
  <2>2. Serving' = NoOperation => Contract!Finish
    BY <1>1, <2>1 DEF Contract!Finish, Contract!NoRequest, NoOperation
  <2>3. QED
    BY <1>1, <2>1, <2>2 DEF AbstractNext, Contract!Next
<1>3. CASE afterCrash'["primary"] = {disk["primary"]}
  <2>1. r' = {v'}
    BY <1>3 DEF View, Documented
  <2>2. Contract!Acknowledge
    BY <1>1, <2>1 DEF Contract!Acknowledge, Contract!NoRequest, NoOperation
  <2>3. QED
    BY <2>2 DEF AbstractNext, Contract!Next
<1>4. QED
  BY <1>2, <1>3

(* The write of the primary is the operation of the contract. *)
LEMMA WriteIsAbstract ==
    ASSUME StoreInv, NEW c \in Clients, pc[c] = "primary", "primary" \notin stale[c],
           disk'["primary"] = doc[c],
           afterCrash'["primary"] \in {{doc[c]}, afterCrash["primary"] \union {doc[c]}},
           Call(c) \/ Step(c)
    PROVE  AbstractNext
<1> DEFINE v == View(disk["primary"])
           r == {View(content) : content \in afterCrash["primary"]}
<1>1. /\ disk["primary"] = seen[c].primary /\ disk["primary"] \in Documents \union {Missing}
      /\ doc[c] \in Documents /\ Intended(c) /\ Asked(op[c])
  BY ReplacedWasRead, IntendedIs
<1>2. PICK e, d : e = doc[c] /\ d = Current(disk["primary"])
  OBVIOUS
<1>3. /\ v' = [accepted |-> e.accepted, pending |-> e.pending]
      /\ v' = View(e)
  BY <1>1, <1>2, DocumentedIs DEF View, Documented
<1>4. r' \in {{v'}, r \union {v'}}
  <2>1. \A x : View(x)' = View(x)
    BY DEF View, Documented
  <2>2. r' = {View(content) : content \in afterCrash'["primary"]}
    BY <2>1
  <2>3. QED
    BY <1>2, <1>3, <2>2
<1>5. v # Corrupt /\ Contract!View(v) = [accepted |-> d.accepted, pending |-> d.pending]
  BY <1>1, <1>2, ViewIs
<1>6. v \in r
  BY DEF StoreInv, FilesInv, Files
<1>7. ASSUME v' = v, Serving' \in {Serving, NoOperation} PROVE AbstractNext
  <2>1. r' \in {{v}, r}
    BY <1>4, <1>6, <1>7
  <2>2. CASE r' = {v}
    <3>1. Contract!Acknowledge
      BY <1>7, <2>2 DEF Contract!Acknowledge, Contract!NoRequest, NoOperation
    <3>2. QED
      BY <3>1 DEF AbstractNext, Contract!Next
  <2>3. CASE r' = r
    <3>1. Serving' = Serving \/ Contract!Finish
      BY <1>7, <2>3 DEF Contract!Finish, Contract!NoRequest, NoOperation
    <3>2. QED
      BY <1>7, <2>3, <3>1 DEF AbstractNext, Contract!Next
  <2>4. QED
    BY <2>1, <2>2, <2>3
<1>8. CASE op[c].kind = "mutateResume"
  <2>1. /\ seen[c].primary \in Documents /\ doc[c].accepted = seen[c].primary.accepted
        /\ doc[c].pending = seen[c].primary.pending
    BY <1>8, IntendedIs
  <2>2. v' = v
    BY <1>1, <1>2, <1>3, <2>1, DocumentedIs DEF View
  <2>3. Serving = NoOperation
    BY <1>8, IntendedIs DEF Serving
  <2>4. Serving' \in {Serving, NoOperation}
    <3>1. WritePrimary(c)
      BY DEF Call, Step, EnterProcess, TakeLock, RetryLock, LockFails, Read, WriteBackup, WriteSidecar
    <3>2. lock' \in {None, c} /\ (lock' = c => op' = op)
      BY <3>1, IntendedIs, StoreAssumption DEF WritePrimary, WriteFails, Returns, Goes, locals, Clients
    <3>3. QED
      BY <1>8, <2>3, <3>2 DEF Serving, NoOperation
  <2>5. QED
    BY <1>7, <2>2, <2>4
<1>9. CASE op[c].kind # "mutateResume"
  <2>0. Serving = op[c] /\ Serving' = Contract!NoRequest
    BY <1>9, ServedWrites DEF Contract!NoRequest, NoOperation
  <2>1. d \in Documents /\ Chosen(d, op[c]).act = "save" /\ e = Schema(Chosen(d, op[c]).doc)
    BY <1>1, <1>2, <1>9, DocumentedIs DEF Intended
  <2>2. Contract!Publish(v')
    BY <1>4, <2>0 DEF Contract!Publish
  <2>3. \/ /\ op[c].kind = "accept" /\ e.accepted = op[c].arg /\ e.pending = d.pending
        \/ /\ op[c].kind = "commit"
           /\ d.pending = op[c].expected \/ (d.pending = None /\ d.accepted = op[c].arg)
           /\ e.accepted = op[c].arg /\ e.pending = None
        \/ /\ op[c].kind = "save" /\ d.pending = None
           /\ e.accepted = d.accepted /\ e.pending = op[c].arg
        \/ /\ op[c].kind = "clearIf" /\ d.pending = op[c].arg
           /\ e.accepted = d.accepted /\ e.pending = None
        \/ /\ op[c].kind = "clear" /\ e.accepted = d.accepted /\ e.pending = None
    BY <1>1, <1>9, <2>1, SavedIs
  <2>4. CASE op[c].kind = "accept" /\ e.accepted = op[c].arg /\ e.pending = d.pending
    <3>1. v' = [Contract!View(v) EXCEPT !.accepted = op[c].arg]
      BY <1>3, <1>5, <2>4
    <3>2. Contract!Accept
      BY <1>5, <2>0, <2>2, <2>4, <3>1 DEF Contract!Accept, Contract!Serves
    <3>3. QED
      BY <3>2 DEF AbstractNext, Contract!Next
  <2>5. CASE op[c].kind = "commit" /\ d.pending = op[c].expected
             /\ e.accepted = op[c].arg /\ e.pending = None
    <3>1. Contract!CommitHealthy
      BY <1>3, <1>5, <2>0, <2>2, <2>5 DEF Contract!CommitHealthy, Contract!Serves
    <3>2. QED
      BY <3>1 DEF AbstractNext, Contract!Next
  <2>6. CASE op[c].kind = "commit" /\ d.pending = None /\ d.accepted = op[c].arg
             /\ e.accepted = op[c].arg /\ e.pending = None
    <3>1. CASE disk["primary"] = Missing
      <4>1. d.accepted = None
        BY <1>2, <3>1 DEF Current, Documented, Fresh
      <4>2. QED
        BY <1>1, <1>9, <2>6, <4>1, StoreAssumption DEF Asked, Operations
    <3>2. CASE disk["primary"] \in Documents
      <4>1. v = [accepted |-> d.accepted, pending |-> d.pending]
        BY <1>2, <3>2, DocumentedIs DEF View, Current
      <4>2. v' = v
        BY <1>3, <2>6, <4>1
      <4>3. QED
        BY <1>7, <2>0, <4>2 DEF Contract!NoRequest, NoOperation
    <3>3. QED
      BY <1>1, <3>1, <3>2
  <2>7. CASE op[c].kind = "save" /\ d.pending = None
             /\ e.accepted = d.accepted /\ e.pending = op[c].arg
    <3>1. v' = [Contract!View(v) EXCEPT !.pending = op[c].arg] /\ Contract!View(v).pending = None
      BY <1>3, <1>5, <2>7
    <3>2. Contract!SavePending
      BY <1>5, <2>0, <2>2, <2>7, <3>1 DEF Contract!SavePending, Contract!Serves
    <3>3. QED
      BY <3>2 DEF AbstractNext, Contract!Next
  <2>8. CASE op[c].kind \in {"clear", "clearIf"} /\ (op[c].kind = "clearIf" => d.pending = op[c].arg)
             /\ e.accepted = d.accepted /\ e.pending = None
    <3>1. v' = [Contract!View(v) EXCEPT !.pending = None] /\ Contract!View(v).pending = d.pending
      BY <1>3, <1>5, <2>8
    <3>2. Contract!ClearPending \/ Contract!ClearPendingIfMatches
      BY <1>5, <2>0, <2>2, <2>8, <3>1
         DEF Contract!ClearPending, Contract!ClearPendingIfMatches, Contract!Serves
    <3>3. QED
      BY <3>2 DEF AbstractNext, Contract!Next
  <2>9. QED
    BY <2>3, <2>4, <2>5, <2>6, <2>7, <2>8
<1>10. QED
  BY <1>8, <1>9

(* Every step of the store is a step of the contract, or leaves its value. *)
LEMMA NextIsAbstract ==
    ASSUME StoreInv, [Next]_vars
    PROVE  AbstractNext
<1> DEFINE v == View(disk["primary"])
           r == {View(content) : content \in afterCrash["primary"]}
<1>0. lock \in Clients \union {None} /\ None \notin Clients /\ op = [d \in Clients |-> op[d]]
  BY StoreAssumption DEF Clients, StoreInv, ClientInv
<1>1. ASSUME NEW c \in Clients, Call(c) \/ Step(c) PROVE AbstractNext
  <2>1. CASE Serving = NoOperation /\ Serving' \in Contract!Requests /\ UNCHANGED <<disk, afterCrash>>
    <3>1. v' = v /\ r' = r
      BY <2>1 DEF View, Documented
    <3>2. \E q \in Contract!Requests : Contract!Begin(q)
      BY <2>1, <3>1 DEF Contract!Begin, Contract!NoRequest, NoOperation
    <3>3. QED
      BY <3>2 DEF AbstractNext, Contract!Next
  <2>2. CASE Serving' \in {Serving, NoOperation}
    BY <1>1, <2>2, PrimaryChange, DurableIsAbstract, WriteIsAbstract
  <2>3. QED
    BY <1>1, <2>1, <2>2, ServingStep
<1>2. ASSUME UNCHANGED <<disk, afterCrash>>, Serving' \in {Serving, NoOperation} PROVE AbstractNext
  BY <1>2, DurableIsAbstract
<1>3. ASSUME NEW p \in Processes, Crash(p) PROVE AbstractNext
  <2> DEFINE who == {c \in Clients : c[1] = p}
  <2>1. /\ UNCHANGED <<disk, afterCrash>> /\ lock' = (IF lock \in who THEN None ELSE lock)
        /\ op' = [c \in Clients |-> IF c \in who THEN NoOperation ELSE op[c]]
    BY <1>3 DEF Crash, Stopped
  <2>2. Serving' \in {Serving, NoOperation}
    BY <1>0, <2>1 DEF Serving, NoOperation
  <2>3. QED
    BY <1>2, <2>1, <2>2
<1>4. CASE PowerFailure
  <2>1. /\ disk'["primary"] \in afterCrash["primary"] /\ afterCrash'["primary"] = {disk'["primary"]}
        /\ lock' = None
    BY <1>0, <1>4 DEF PowerFailure, Stopped, Files
  <2>2. \A x : View(x)' = View(x)
    BY DEF View, Documented
  <2>3. v' \in r /\ r' = {v'}
    BY <2>1, <2>2 DEF View, Documented
  <2>4. Contract!PowerFailure
    BY <2>1, <2>3 DEF Contract!PowerFailure, Contract!NoRequest, NoOperation, Serving
  <2>5. QED
    BY <2>4 DEF AbstractNext, Contract!Next
<1>5. CASE Foreign
  <2>1. PICK f \in Files, content \in {Missing, Corrupt} :
           /\ disk' = [disk EXCEPT ![f] = content]
           /\ afterCrash' = [afterCrash EXCEPT ![f] = @ \union {content}]
    BY <1>5 DEF Foreign
  <2>2. Serving' = Serving
    BY <1>5 DEF Foreign, locals, Serving, NoOperation
  <2>3. CASE f # "primary"
    BY <2>1, <2>2, <2>3, DurableIsAbstract DEF StoreInv, FilesInv, Files
  <2>4. CASE f = "primary"
    <3>1. disk'["primary"] = content /\ afterCrash'["primary"] = afterCrash["primary"] \union {content}
      BY <2>1, <2>4 DEF StoreInv, FilesInv
    <3>2. View(content) = content
      BY DEF View, Documented
    <3>3. v' = content /\ r' = r \union {content}
      BY <3>1, <3>2 DEF View, Documented
    <3>4. Contract!Interfere
      BY <2>2, <3>3 DEF Contract!Interfere
    <3>5. QED
      BY <3>4 DEF AbstractNext, Contract!Next
  <2>5. QED
    BY <2>3, <2>4
<1>6. CASE UNCHANGED vars
  <2>1. UNCHANGED <<disk, afterCrash, lock, op>>
    BY <1>6 DEF vars
  <2>2. Serving' = Serving
    BY <2>1 DEF Serving, NoOperation
  <2>3. QED
    BY <1>2, <2>1, <2>2
<1>7. QED
  BY <1>1, <1>3, <1>4, <1>5, <1>6 DEF Next

(* For any number of processes, threads, failing writes, crashes and acts  *)
(* of other programs: the state file behaves as the atomic value that      *)
(* IStateStore.h promises, and a commit, a conditional clear or a save     *)
(* changes it only where the pending update is the one it expects.         *)
THEOREM StoreImplementsContract == Spec => Refines
<1>1. Init => Contract!Init
  <2> SUFFICES ASSUME Init PROVE Contract!Init
    OBVIOUS
  <2>1. disk["primary"] \in Documents \union {Missing} /\ afterCrash["primary"] = {disk["primary"]}
    <3>1. StoreInv /\ disk["primary"] # Corrupt
      <4>1. StoreInv
        BY StoreInit
      <4>2. disk["primary"] \in {Missing} \union OldDocuments
        BY DEF Init
      <4>3. disk["primary"] \in Documents \union {Missing}
        BY <4>2, StoreAssumption DEF OldDocuments, Documents
      <4>4. QED
        BY <4>1, <4>3, ContentAssumption
    <3>2. QED
      BY <3>1 DEF StoreInv, FilesInv, Files, Contents, Init
  <2>2. View(disk["primary"]) \in Contract!State \union {Missing}
    BY <2>1, DocumentedIs DEF View, Contract!State, Documents, Documented
  <2>3. {View(content) : content \in afterCrash["primary"]} = {View(disk["primary"])}
    BY <2>1
  <2>4. Serving = Contract!NoRequest
    BY DEF Init, Serving, NoOperation, Contract!NoRequest
  <2>5. QED
    BY <2>2, <2>3, <2>4 DEF Contract!Init
<1>2. StoreInv /\ [Next]_vars =>
         [Contract!Next]_<<View(disk["primary"]),
                           {View(content) : content \in afterCrash["primary"]}, Serving>>
  BY NextIsAbstract DEF AbstractNext
<1>3. QED
  BY <1>1, <1>2, StoreInvariance, PTL DEF Spec, Refines, Contract!Spec

=============================================================================
