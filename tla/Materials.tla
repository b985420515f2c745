------------------------------- MODULE Materials -------------------------------
(***************************************************************************)
(* One material of the bank, the editors who change it at the same time,   *)
(* the fixed mock test that uses it, and the attempts pinned to it.        *)
(*                                                                         *)
(*   internal/reading, listening, writing, speaking                        *)
(*                       the row, its immutable versions, the uploads      *)
(*   internal/fullmock   the fixed tests of the editors                    *)
(*   internal/attempts   Start, StartForExamSession                        *)
(*                                                                         *)
(* The four packages are four copies of one scheme that differ in what     *)
(* they check, what they bump and what a version holds.  Init chooses one. *)
(***************************************************************************)
EXTENDS Naturals, Sequences, FiniteSets

CONSTANTS
  MaterialKinds,         \* the skills a run looks at
  Editors,
  Students,
  Assets,        \* uploads: audio of a listening part, visual of a writing task
  NoAsset,
  MaxVersions,   \* bound on saves
  MaxRevision,   \* bound on changes of the material
  MaxTestRevision \* bound on changes of the fixed test

ASSUME MaterialAssumption ==
  /\ MaterialKinds \subseteq {"reading", "listening", "writing", "speaking"}
  /\ NoAsset \notin Assets
  /\ {MaxVersions, MaxRevision, MaxTestRevision} \subseteq Nat

VARIABLES
  skill,       \* the package the material belongs to
  material,    \* its row
  versions,    \* its versions, never changed once inserted
  passage,     \* current version of the passage a reading TEST is made of
  heldBack,    \* guest_mock_materials names it
  objects,     \* uploads in the object store
  mediaRows,   \* uploads with a row
  desk,        \* what each editor has open, and how far the request is
  fixed,       \* the full_mock_tests row
  starting,    \* the version a start has read, 0 when none is in flight
  pinned       \* attempts: the version each is pinned to, and its status

uploadVars == <<objects, mediaRows>>
contentVars == <<skill, material, versions, passage, heldBack, uploadVars, desk, fixed, starting, pinned>>

NoDesk == [at |-> "away", seen |-> 0, revision |-> 0, asset |-> NoAsset]

\* from: the version its author was looking at;
\* passage: version of the passage a reading TEST links; whole: it may be published.
Edition == [from : Nat, asset : Assets \cup {NoAsset}, passage : Nat, whole : BOOLEAN]
MaterialStatus == {"DRAFT", "PUBLISHED", "ARCHIVED"}

ContentTypeOK ==
  /\ skill \in MaterialKinds
  /\ material \in [status : MaterialStatus, revision : Nat, current : Nat, published : Nat]
  /\ versions \in Seq(Edition)
  /\ passage \in Nat
  /\ heldBack \in BOOLEAN
  /\ objects \subseteq Assets /\ mediaRows \subseteq Assets
  /\ \A e \in Editors :
       /\ desk[e].at \in {"away", "open", "publishing", "transcribing", "uploading", "test", "checked"}
       /\ desk[e].asset \in Assets \cup {NoAsset}
  /\ fixed \in [status : MaterialStatus, revision : Nat, uses : BOOLEAN]
  /\ starting \in [Students -> Nat]
  /\ pinned \subseteq [who : Students, version : Nat, status : {"IN_PROGRESS", "SUBMITTED"}]

-------------------------------------------------------------------------------
(* Faulty variants, the slips the properties are there to notice.           *)

NeverStale(e) == FALSE

RowBeforeObject(e, a) ==
  /\ desk[e].at = "open" /\ skill \in {"listening", "writing"}
  /\ a \notin objects \cup mediaRows
  /\ mediaRows' = mediaRows \cup {a}
  /\ desk' = [desk EXCEPT ![e].at = "uploading", ![e].asset = a]
  /\ UNCHANGED <<skill, material, versions, passage, heldBack, objects, fixed, starting, pinned>>

RowAnyway(e, row) ==
  /\ desk' = [desk EXCEPT ![e] = NoDesk]
  /\ material' = row
  /\ UNCHANGED <<skill, versions, passage, heldBack, uploadVars, fixed, starting, pinned>>

CurrentVersion ==
  IF material.status # "ARCHIVED" /\ ~heldBack THEN material.current ELSE 0

-------------------------------------------------------------------------------
(* What is stored, and what is served.                                      *)

\* PublishedVersionID: nothing of a draft, an archived or a guests' material.
PublishedVersion ==
  IF material.status = "PUBLISHED" /\ ~heldBack THEN material.published ELSE 0

\* GetMedia for a student: the asset is in the version published now.
Audible(a) ==
  /\ a \in mediaRows
  /\ material.status = "PUBLISHED"
  /\ versions[material.published].asset = a

Stale(e) == desk[e].revision # material.revision

-------------------------------------------------------------------------------
(* The first version, by createMaterialInTx or by an import.                *)

\* A reading TEST is created with its passages, and linked to their versions.
CreatedReading == [from |-> 0, asset |-> NoAsset, passage |-> 1, whole |-> TRUE]
CreatedListening == [from |-> 0, asset |-> NoAsset, passage |-> 0, whole |-> TRUE]
CreatedWriting == [from |-> 0, asset |-> NoAsset, passage |-> 0, whole |-> FALSE]
CreatedSpeaking == [from |-> 0, asset |-> NoAsset, passage |-> 0, whole |-> TRUE]

Created ==
  CASE skill = "reading" -> CreatedReading
    [] skill = "listening" -> CreatedListening
    [] skill = "writing" -> CreatedWriting
    [] skill = "speaking" -> CreatedSpeaking

ContentInit ==
  /\ skill \in MaterialKinds
  /\ material = [status |-> "DRAFT", revision |-> 1, current |-> 1, published |-> 0]
  /\ versions = <<Created>>
  /\ passage = 1
  /\ heldBack = FALSE
  /\ objects = {} /\ mediaRows = {}
  /\ desk = [e \in Editors |-> NoDesk]
  /\ fixed = [status |-> "DRAFT", revision |-> 1, uses |-> TRUE]
  /\ starting = [s \in Students |-> 0]
  /\ pinned = {}

-------------------------------------------------------------------------------
(* Editing.                                                                 *)

\* The editor opens the material; every answer to a change is such a read too.
OpenMaterial(e) ==
  /\ desk[e].at \in {"away", "open"}
  /\ desk' = [desk EXCEPT ![e] = [at |-> "open", seen |-> material.current,
                                  revision |-> material.revision, asset |-> NoAsset]]
  /\ UNCHANGED <<skill, material, versions, passage, heldBack, uploadVars, fixed, starting, pinned>>


\* A new version and a new revision in one transaction, or a conflict.
Save(e, edition) ==
  /\ material.current < MaxVersions /\ material.revision < MaxRevision
  /\ desk' = [desk EXCEPT ![e] = NoDesk]
  /\ IF Stale(e) THEN UNCHANGED <<material, versions>>
     ELSE /\ versions' = Append(versions, edition)
          /\ material' = [material EXCEPT !.current = @ + 1, !.revision = @ + 1]
  /\ UNCHANGED <<skill, passage, heldBack, uploadVars, fixed, starting, pinned>>

\* What a request may carry once it is normalised and validated: a whole
\* material, but for writing, where the draft may lack what publishing asks for.
EditedReading(e) ==
  {[from |-> desk[e].seen, asset |-> NoAsset, passage |-> p, whole |-> TRUE] :
     p \in {passage, versions[material.current].passage}}
EditedListening(e) ==
  {[from |-> desk[e].seen, asset |-> a, passage |-> 0, whole |-> TRUE] : a \in mediaRows \cup {NoAsset}}
EditedWriting(e) ==
  {[from |-> desk[e].seen, asset |-> a, passage |-> 0, whole |-> notes /\ a # NoAsset] :
     a \in mediaRows \cup {NoAsset}, notes \in BOOLEAN}
EditedSpeaking(e) ==
  {[from |-> desk[e].seen, asset |-> NoAsset, passage |-> 0, whole |-> TRUE]}

\* A TEST keeps the passages of its current version, or takes their newest.
UpdateReading(e) ==
  skill = "reading" /\ desk[e].at = "open" /\ \E edition \in EditedReading(e) : Save(e, edition)
UpdateListening(e) ==
  skill = "listening" /\ desk[e].at = "open" /\ \E edition \in EditedListening(e) : Save(e, edition)
UpdateWriting(e) ==
  skill = "writing" /\ desk[e].at = "open" /\ \E edition \in EditedWriting(e) : Save(e, edition)
UpdateSpeaking(e) ==
  skill = "speaking" /\ desk[e].at = "open" /\ \E edition \in EditedSpeaking(e) : Save(e, edition)

\* The passage is a material of its own, with editors of its own.
EditPassage ==
  /\ skill = "reading" /\ passage < MaxVersions
  /\ passage' = passage + 1
  /\ UNCHANGED <<skill, material, versions, heldBack, uploadVars, desk, fixed, starting, pinned>>

\* TranscribeTest reads the draft itself; the editor's screen does not matter.
Transcribe(e) ==
  /\ skill = "listening" /\ desk[e].at = "open"
  /\ versions[material.current].asset # NoAsset
  /\ desk' = [desk EXCEPT ![e] = [at |-> "transcribing", seen |-> material.current,
                                  revision |-> material.revision, asset |-> versions[material.current].asset]]
  /\ UNCHANGED <<skill, material, versions, passage, heldBack, uploadVars, fixed, starting, pinned>>

\* Minutes later the draft it read is saved with the transcript.
Transcribed(e) ==
  /\ desk[e].at = "transcribing"
  /\ Save(e, [from |-> desk[e].seen, asset |-> desk[e].asset, passage |-> 0, whole |-> TRUE])

\* The editor leaves, or the request fails before it changed anything.
Leave(e) ==
  /\ desk[e].at \in {"open", "publishing", "transcribing", "test", "checked"}
  /\ desk' = [desk EXCEPT ![e] = NoDesk]
  /\ UNCHANGED <<skill, material, versions, passage, heldBack, uploadVars, fixed, starting, pinned>>

-------------------------------------------------------------------------------
(* Publishing and archiving.                                                *)

SetRow(e, row) ==
  /\ desk' = [desk EXCEPT ![e] = NoDesk]
  /\ material' = IF Stale(e) THEN material ELSE row
  /\ UNCHANGED <<skill, versions, passage, heldBack, uploadVars, fixed, starting, pinned>>

Published(row) == [row EXCEPT !.status = "PUBLISHED", !.published = row.current]

PublishReading(e) ==
  /\ skill = "reading" /\ desk[e].at = "open" /\ material.revision < MaxRevision
  /\ SetRow(e, [Published(material) EXCEPT !.revision = @ + 1])

PublishListening(e) ==
  /\ skill = "listening" /\ desk[e].at = "open" /\ material.revision < MaxRevision
  /\ SetRow(e, [Published(material) EXCEPT !.revision = @ + 1])

PublishSpeaking(e) ==
  /\ skill = "speaking" /\ desk[e].at = "open" /\ material.revision < MaxRevision
  /\ SetRow(e, [Published(material) EXCEPT !.revision = @ + 1])

\* The service reads the draft, validates it and looks its visual up ...
CheckWriting(e) ==
  /\ skill = "writing" /\ desk[e].at = "open"
  /\ LET draft == versions[material.current]
         fit == draft.whole /\ draft.asset \in mediaRows
     IN  desk' = [desk EXCEPT ![e] = IF fit THEN [@ EXCEPT !.at = "publishing"] ELSE NoDesk]
  /\ UNCHANGED <<skill, material, versions, passage, heldBack, uploadVars, fixed, starting, pinned>>

\* ... and then publishes whatever is current.  The revision stays.
PublishWriting(e) ==
  /\ desk[e].at = "publishing"
  /\ SetRow(e, Published(material))

Archived(row) == [row EXCEPT !.status = "ARCHIVED", !.revision = @ + 1]

ArchiveReading(e) ==
  skill = "reading" /\ desk[e].at = "open" /\ material.revision < MaxRevision /\ SetRow(e, Archived(material))
ArchiveListening(e) ==
  skill = "listening" /\ desk[e].at = "open" /\ material.revision < MaxRevision /\ SetRow(e, Archived(material))
ArchiveWriting(e) ==
  skill = "writing" /\ desk[e].at = "open" /\ material.revision < MaxRevision /\ SetRow(e, Archived(material))
ArchiveSpeaking(e) ==
  skill = "speaking" /\ desk[e].at = "open" /\ material.revision < MaxRevision /\ SetRow(e, Archived(material))

\* The fixed mock of the guests takes a published material out of the bank.
HoldBack ==
  /\ material.status = "PUBLISHED" /\ ~heldBack
  /\ heldBack' = TRUE
  /\ UNCHANGED <<skill, material, versions, passage, uploadVars, desk, fixed, starting, pinned>>

-------------------------------------------------------------------------------
(* Uploads: the object first, then its row.                                 *)

PutObject(e, a) ==
  /\ desk[e].at = "open" /\ skill \in {"listening", "writing"}
  /\ a \notin objects \cup mediaRows
  /\ objects' = objects \cup {a}
  /\ desk' = [desk EXCEPT ![e].at = "uploading", ![e].asset = a]
  /\ UNCHANGED <<skill, material, versions, passage, heldBack, mediaRows, fixed, starting, pinned>>

InsertMedia(e) ==
  /\ desk[e].at = "uploading"
  /\ mediaRows' = mediaRows \cup {desk[e].asset}
  /\ desk' = [desk EXCEPT ![e].at = "open", ![e].asset = NoAsset]
  /\ UNCHANGED <<skill, material, versions, passage, heldBack, objects, fixed, starting, pinned>>

\* The row is refused and the object deleted, if the store answers; or the
\* process dies and the object stays without a row.
UploadFails(e) ==
  /\ desk[e].at = "uploading"
  /\ objects' \in {objects, objects \ {desk[e].asset}}
  /\ desk' = [desk EXCEPT ![e] = NoDesk]
  /\ UNCHANGED <<skill, material, versions, passage, heldBack, mediaRows, fixed, starting, pinned>>

-------------------------------------------------------------------------------
(* The fixed tests, by the same editors.                                    *)

OpenTest(e) ==
  /\ desk[e].at = "away"
  /\ desk' = [desk EXCEPT ![e] = [NoDesk EXCEPT !.at = "test", !.revision = fixed.revision]]
  /\ UNCHANGED <<skill, material, versions, passage, heldBack, uploadVars, fixed, starting, pinned>>

SetTest(e, row) ==
  /\ fixed.revision < MaxTestRevision
  /\ desk' = [desk EXCEPT ![e] = NoDesk]
  /\ fixed' = IF desk[e].revision = fixed.revision THEN [row EXCEPT !.revision = @ + 1] ELSE fixed
  /\ UNCHANGED <<skill, material, versions, passage, heldBack, uploadVars, starting, pinned>>

UpdateTest(e) ==
  desk[e].at = "test" /\ \E uses \in BOOLEAN : SetTest(e, [fixed EXCEPT !.uses = uses])

\* validateMaterialsPublished, of the test as it is read now.
CheckTest(e) ==
  /\ desk[e].at = "test"
  /\ desk' = [desk EXCEPT ![e] =
       IF fixed.uses /\ PublishedVersion = 0 THEN NoDesk
       ELSE [@ EXCEPT !.at = "checked", !.seen = IF fixed.uses THEN 1 ELSE 0]]
  /\ UNCHANGED <<skill, material, versions, passage, heldBack, uploadVars, fixed, starting, pinned>>

PublishTest(e) == desk[e].at = "checked" /\ SetTest(e, [fixed EXCEPT !.status = "PUBLISHED"])

ArchiveTest(e) == desk[e].at = "test" /\ SetTest(e, [fixed EXCEPT !.status = "ARCHIVED"])

-------------------------------------------------------------------------------
(* Attempts.                                                                *)

OpenAttempts(s) == {a \in pinned : a.who = s /\ a.status = "IN_PROGRESS"}

StartReads(s) ==
  /\ starting[s] = 0 /\ PublishedVersion # 0
  /\ starting' = [starting EXCEPT ![s] = PublishedVersion]
  /\ UNCHANGED <<skill, material, versions, passage, heldBack, uploadVars, desk, fixed, pinned>>

\* FindInProgress, or CreatePractice with the version read before.
StartInserts(s) ==
  /\ starting[s] # 0
  /\ starting' = [starting EXCEPT ![s] = 0]
  /\ pinned' = IF OpenAttempts(s) # {} THEN pinned
               ELSE pinned \cup {[who |-> s, version |-> starting[s], status |-> "IN_PROGRESS"]}
  /\ UNCHANGED <<skill, material, versions, passage, heldBack, uploadVars, desk, fixed>>

SubmitPinned(s) ==
  /\ \E a \in OpenAttempts(s) : pinned' = (pinned \ {a}) \cup {[a EXCEPT !.status = "SUBMITTED"]}
  /\ UNCHANGED <<skill, material, versions, passage, heldBack, uploadVars, desk, fixed, starting>>

-------------------------------------------------------------------------------
Updates(e) == UpdateReading(e) \/ UpdateListening(e) \/ UpdateWriting(e) \/ UpdateSpeaking(e)
Publishes(e) == PublishReading(e) \/ PublishListening(e) \/ CheckWriting(e) \/ PublishWriting(e) \/ PublishSpeaking(e)
Archives(e) == ArchiveReading(e) \/ ArchiveListening(e) \/ ArchiveWriting(e) \/ ArchiveSpeaking(e)

ContentNext ==
  \/ \E e \in Editors :
       \/ OpenMaterial(e) \/ Updates(e) \/ Transcribe(e) \/ Transcribed(e) \/ Leave(e)
       \/ Publishes(e) \/ Archives(e)
       \/ \E a \in Assets : PutObject(e, a)
       \/ InsertMedia(e) \/ UploadFails(e)
       \/ OpenTest(e) \/ UpdateTest(e) \/ CheckTest(e) \/ PublishTest(e) \/ ArchiveTest(e)
  \/ EditPassage \/ HoldBack
  \/ \E s \in Students : StartReads(s) \/ StartInserts(s) \/ SubmitPinned(s)

ContentSpec == ContentInit /\ [][ContentNext]_contentVars

-------------------------------------------------------------------------------
(* Properties.                                                              *)

\* No save is lost: every version was written by somebody looking at the one
\* before it, a transcription of many minutes included; and what it shows can
\* be played from the store.
NothingOverwritten ==
  /\ \A n \in 2..Len(versions) : versions[n].from = n - 1
  /\ \A n \in DOMAIN versions : versions[n].asset = NoAsset \/ versions[n].asset \in objects

\* What becomes public is what its publisher was looking at: a material in the
\* version on the editor's screen, a writing one with all that Task 1 needs;
\* a fixed test with the choice of materials that were found published.
PublishedAsSeen ==
  [][/\ material'.published # material.published =>
          /\ versions[material'.published].whole
          /\ \E e \in Editors : desk[e].seen = material'.published
     /\ fixed.status # "PUBLISHED" /\ fixed'.status = "PUBLISHED" =>
          \E e \in Editors : desk[e].at = "checked" /\ desk[e].seen = (IF fixed.uses THEN 1 ELSE 0)
    ]_contentVars

\* A student's attempt never shows a version that is not whole or is newer than the
\* published one, as a draft would be, whatever is saved, published or archived while
\* it is being started.
NoDraftServed ==
  \A a \in pinned : versions[a.version].whole /\ a.version <= material.published

\* Materials: no save is lost, students get public versions, public is what was seen.
MaterialsHold == []ContentTypeOK /\ []NothingOverwritten /\ []NoDraftServed /\ PublishedAsSeen
===============================================================================
