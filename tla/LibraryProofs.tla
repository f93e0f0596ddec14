---------------------------- MODULE LibraryProofs ----------------------------
(***************************************************************************)
(* For any number of uploads, imports, checks, printers and models: what   *)
(* an import has stored is a prefix of what it has downloaded, a model     *)
(* without a geometry is between its two commits or was left there, and a  *)
(* report describes the printer as it is.                                  *)
(***************************************************************************)
EXTENDS ModelLibrary, CompatibilityRules, DataLemmas

-----------------------------------------------------------------------------
(* The inductive invariant                                                 *)

\* The import k next to the models m: what it has saved is there, in the
\* order of the files, and only the last may still wait for its geometry.
ImportFits(k, m) ==
    /\ Len(k.saved) <= Len(k.files)
    /\ \A n \in 1..Len(k.saved) :
        /\ k.saved[n] \in DOMAIN m
        /\ m[k.saved[n]].project = k.project
        /\ m[k.saved[n]].content = k.files[n]
        /\ m[k.saved[n]].geometry \/ (n = Len(k.saved) /\ k.phase \in {"geometry", "failed"})
    /\ k.phase = "download" => k.saved = << >>
    /\ k.phase = "geometry" => k.saved # << >>
    /\ k.phase = "created" => Len(k.saved) = Len(k.files)
    /\ k.phase = "refused" /\ k.saved # << >> => k.files[Len(k.saved) + 1] = Unreadable

ImportsFit == \A t \in Importers : ImportFits(importer[t], models)

\* Whoever is between the two commits of model i.
Unfinished(i) == \E t \in Importers : Importing(t, "geometry") /\ InFlight(t) = i

GeometryPending == \A i \in DOMAIN models : models[i].geometry \/ i \in cut \/ Unfinished(i)

\* The check k next to the printers' rows: an instance that is loaded says
\* what the row says, and the one about to be reported on is loaded.
CheckFits(k, rows) ==
    /\ \A p \in LanPrinters : k.loaded[p] = Stale \/ p \in k.changed \/ k.loaded[p] = rows[p]
    /\ k.phase = "save" => \A p \in k.now : k.loaded[p] # Stale

ChecksFit == \A c \in Checkers : checker[c] # NotChecking => CheckFits(checker[c], facts)

LibraryInv == LibraryTypeOK /\ ImportsFit /\ GeometryPending /\ ChecksFit

-----------------------------------------------------------------------------
(* Importers, models and what one step does to them                        *)

FilesOf == BoundedSeq(Contents \cup {Unreadable}, MaxFiles)
SavedOf == BoundedSeq(ModelIds, MaxFiles)
Phases == {"idle", "download", "save", "geometry", "created", "refused", "failed"}

LEMMA ImporterFields ==
    Importer = [phase : Phases, async : BOOLEAN, project : Projects \cup {NoProject},
                files : FilesOf, saved : SavedOf]
  BY DEF Importer, FilesOf, SavedOf, Phases, BoundedSeq

LEMMA AtRestFits ==
    ASSUME NEW m
    PROVE  AtRest \in Importer /\ ImportFits(AtRest, m)
<1>1. << >> \in FilesOf /\ << >> \in SavedOf /\ Len(<< >>) = 0
  BY BoundedEmpty, LibraryAssumption DEF FilesOf, SavedOf
<1>2. AtRest \in Importer
  BY <1>1, ImporterFields DEF AtRest, Phases
<1>3. ImportFits(AtRest, m)
  BY <1>1 DEF AtRest, ImportFits
<1>4. QED
  BY <1>2, <1>3

LEMMA ModelsTyped ==
    ASSUME LibraryTypeOK
    PROVE  /\ models \in BoundedSeq(Model, MaxModels)
           /\ models \in Seq(Model) /\ Len(models) \in 0..MaxModels
           /\ models \in [1..Len(models) -> Model] /\ DOMAIN models = 1..Len(models)
<1>1. models \in BoundedSeq(Model, MaxModels)
  BY DEF LibraryTypeOK, BoundedSeq
<1>2. QED
  BY <1>1, BoundedFacts, LibraryAssumption

LEMMA ImporterTyped ==
    ASSUME LibraryTypeOK, NEW t \in Importers
    PROVE  /\ importer[t] \in Importer
           /\ importer[t].files \in FilesOf /\ importer[t].saved \in SavedOf
           /\ importer[t].phase \in Phases /\ importer[t].project \in Projects \cup {NoProject}
           /\ Len(importer[t].files) \in 0..MaxFiles /\ Len(importer[t].saved) \in 0..MaxFiles
<1>1. importer[t] \in Importer
  BY DEF LibraryTypeOK
<1>2. importer[t].files \in FilesOf /\ importer[t].saved \in SavedOf
  BY <1>1, ImporterFields
<1>3. importer[t].phase \in Phases /\ importer[t].project \in Projects \cup {NoProject}
  BY <1>1, ImporterFields
<1>4. Len(importer[t].files) \in 0..MaxFiles
  BY <1>2, BoundedFacts, LibraryAssumption DEF FilesOf
<1>5. Len(importer[t].saved) \in 0..MaxFiles
  BY <1>2, BoundedFacts, LibraryAssumption DEF SavedOf
<1>6. QED
  BY <1>1, <1>2, <1>3, <1>4, <1>5

\* Models are never deleted or changed, except that their geometry arrives.
Grown(m, n) ==
    \A i \in DOMAIN m :
        /\ i \in DOMAIN n
        /\ n[i].project = m[i].project /\ n[i].content = m[i].content
        /\ m[i].geometry => n[i].geometry

LEMMA FitsGrown ==
    ASSUME NEW k, NEW m, NEW n, ImportFits(k, m), Grown(m, n)
    PROVE  ImportFits(k, n)
  BY DEF ImportFits, Grown

\* One importer's record changes and the models grow: the new record has to
\* fit them, and every model without a geometry has to be accounted for.
LEMMA ImporterStep ==
    ASSUME LibraryInv, NEW t \in Importers, NEW k \in Importer,
           NEW m \in BoundedSeq(Model, MaxModels),
           importer' = [importer EXCEPT ![t] = k], models' = m,
           ImportFits(k, m), Grown(models, m), UNCHANGED <<facts, checker>>,
           cut \subseteq cut', cut' \subseteq ModelIds,
           \A i \in DOMAIN m :
              \/ m[i].geometry
              \/ i \in cut'
              \/ k.phase = "geometry" /\ k.saved[Len(k.saved)] = i
              \/ /\ i \in DOMAIN models /\ ~ models[i].geometry
                 /\ ~ (Importing(t, "geometry") /\ InFlight(t) = i)
    PROVE  LibraryInv'
<1>1. importer \in [Importers -> Importer]
  BY DEF LibraryInv, LibraryTypeOK
<1>2. \A u \in Importers : importer'[u] = IF u = t THEN k ELSE importer[u]
  BY <1>1
<1>3. LibraryTypeOK'
  BY <1>1 DEF LibraryInv, LibraryTypeOK, BoundedSeq
<1>4. ImportsFit'
  <2> SUFFICES ASSUME NEW u \in Importers PROVE ImportFits(importer'[u], m)
    BY DEF ImportsFit
  <2>1. CASE u = t
    BY <1>2, <2>1
  <2>2. CASE u # t
    BY <1>2, <2>2, FitsGrown DEF LibraryInv, ImportsFit
  <2>3. QED
    BY <2>1, <2>2
<1>5. GeometryPending'
  <2> SUFFICES ASSUME NEW i \in DOMAIN m, ~ m[i].geometry, i \notin cut'
               PROVE  \E u \in Importers : /\ importer'[u].phase = "geometry"
                                           /\ importer'[u].saved[Len(importer'[u].saved)] = i
    BY DEF GeometryPending, Unfinished, Importing, InFlight
  <2>1. CASE k.phase = "geometry" /\ k.saved[Len(k.saved)] = i
    BY <1>2, <2>1
  <2>2. CASE /\ i \in DOMAIN models /\ ~ models[i].geometry
             /\ ~ (Importing(t, "geometry") /\ InFlight(t) = i)
    <3>1. PICK u \in Importers : Importing(u, "geometry") /\ InFlight(u) = i
      BY <2>2 DEF LibraryInv, GeometryPending, Unfinished
    <3>2. u # t
      BY <2>2, <3>1
    <3>3. QED
      BY <1>2, <3>1, <3>2 DEF Importing, InFlight
  <2>3. QED
    BY <2>1, <2>2
<1>6. ChecksFit'
  BY DEF LibraryInv, ChecksFit
<1>7. QED
  BY <1>3, <1>4, <1>5, <1>6 DEF LibraryInv

\* ... and the models stay as they are.
LEMMA ImporterMoves ==
    ASSUME LibraryInv, NEW t \in Importers, NEW k \in Importer, ImportFits(k, models),
           importer' = [importer EXCEPT ![t] = k], UNCHANGED <<models, facts, checker>>,
           cut \subseteq cut', cut' \subseteq ModelIds,
           Importing(t, "geometry") => InFlight(t) \in cut'
    PROVE  LibraryInv'
<1>1. models \in BoundedSeq(Model, MaxModels)
  BY ModelsTyped DEF LibraryInv
<1>2. Grown(models, models)
  BY DEF Grown
<1>3. \A i \in DOMAIN models :
        \/ models[i].geometry
        \/ i \in cut'
        \/ ~ models[i].geometry /\ ~ (Importing(t, "geometry") /\ InFlight(t) = i)
  OBVIOUS
<1>4. QED
  BY <1>1, <1>2, <1>3, ImporterStep

\* What is between its two commits is the last model saved.
LEMMA InFlightSaved ==
    ASSUME LibraryTypeOK, ImportsFit, NEW t \in Importers, Importing(t, "geometry")
    PROVE  /\ Len(importer[t].saved) \in 1..MaxFiles
           /\ InFlight(t) \in ModelIds /\ InFlight(t) \in DOMAIN models
<1>1. importer[t].saved # << >> /\ importer[t].saved \in SavedOf
  BY ImporterTyped DEF ImportsFit, ImportFits, Importing
<1>2. /\ importer[t].saved \in Seq(ModelIds) /\ Len(importer[t].saved) \in 0..MaxFiles
      /\ importer[t].saved \in [1..Len(importer[t].saved) -> ModelIds]
  BY <1>1, BoundedFacts, LibraryAssumption DEF SavedOf
<1>3. Len(importer[t].saved) # 0
  BY <1>1, <1>2, EmptySeq
<1>4. InFlight(t) \in ModelIds
  BY <1>2, <1>3 DEF InFlight
<1>5. InFlight(t) \in DOMAIN models
  BY <1>2, <1>3 DEF InFlight, ImportsFit, ImportFits
<1>6. QED
  BY <1>2, <1>3, <1>4, <1>5, LibraryAssumption

-----------------------------------------------------------------------------
(* Uploads and imports                                                     *)

LEMMA BeginImportKeeps ==
    ASSUME LibraryInv, NEW t \in Importers, BeginImport(t)
    PROVE  LibraryInv'
<1>1. PICK project \in Projects :
        importer' = [importer EXCEPT ![t] =
            [AtRest EXCEPT !.phase = "download", !.project = project]]
  BY DEF BeginImport
<1> DEFINE k == [AtRest EXCEPT !.phase = "download", !.project = project]
<1>2. k \in Importer
  BY AtRestFits, ImporterFields DEF Phases
<1>3. ImportFits(k, models)
  BY AtRestFits DEF ImportFits, AtRest
<1>4. ~ Importing(t, "geometry") /\ UNCHANGED <<models, cut, facts, checker>>
  BY DEF BeginImport, Answered, Importing
<1>5. QED
  BY <1>1, <1>2, <1>3, <1>4, ImporterMoves DEF LibraryInv, LibraryTypeOK

LEMMA BeginUploadKeeps ==
    ASSUME LibraryInv, NEW t \in Importers, BeginUpload(t)
    PROVE  LibraryInv'
<1>1. PICK project \in Projects \cup {NoProject}, file \in Contents \cup {Unreadable} :
        importer' = [importer EXCEPT ![t] =
            [phase |-> "save", async |-> TRUE, project |-> project,
             files |-> << file >>, saved |-> << >>]]
  BY DEF BeginUpload
<1> DEFINE k == [phase |-> "save", async |-> TRUE, project |-> project,
                 files |-> << file >>, saved |-> << >>]
<1>2. << file >> \in FilesOf /\ Len(<< file >>) = 1
  BY BoundedSingle, LibraryAssumption DEF FilesOf
<1>3. << >> \in SavedOf /\ Len(<< >>) = 0
  BY BoundedEmpty, LibraryAssumption DEF SavedOf
<1>4. k \in Importer
  BY <1>2, <1>3, ImporterFields DEF Phases
<1>5. ImportFits(k, models)
  BY <1>2, <1>3 DEF ImportFits
<1>6. ~ Importing(t, "geometry") /\ UNCHANGED <<models, cut, facts, checker>>
  BY DEF BeginUpload, Answered, Importing
<1>7. QED
  BY <1>1, <1>4, <1>5, <1>6, ImporterMoves DEF LibraryInv, LibraryTypeOK

LEMMA DownloadFileKeeps ==
    ASSUME LibraryInv, NEW t \in Importers, DownloadFile(t)
    PROVE  LibraryInv'
<1>1. PICK n \in 1..(MaxFiles - Len(importer[t].files)) :
        \E batch \in [1..n -> Contents \cup {Unreadable}] :
            importer' = [importer EXCEPT ![t].files = @ \o batch]
  BY DEF DownloadFile
<1>2. PICK batch \in [1..n -> Contents \cup {Unreadable}] :
        importer' = [importer EXCEPT ![t].files = @ \o batch]
  BY <1>1
<1> DEFINE k == [importer[t] EXCEPT !.files = @ \o batch]
<1>3. importer[t] \in Importer /\ importer[t].files \in FilesOf
  BY ImporterTyped DEF LibraryInv
<1>4. importer[t].files \o batch \in FilesOf
  BY <1>3, BoundedConcat, LibraryAssumption DEF FilesOf
<1>5. k \in Importer
  BY <1>3, <1>4, ImporterFields
<1>6. importer[t].phase = "download" /\ UNCHANGED <<models, cut, facts, checker>>
  BY DEF DownloadFile, Importing
<1>7. importer[t].saved = << >>
  BY <1>6 DEF LibraryInv, ImportsFit, ImportFits
<1>8. Len(k.files) \in Nat
  BY <1>4, BoundedFacts, LibraryAssumption DEF FilesOf
<1>9. k.phase = "download" /\ k.saved = << >> /\ Len(k.saved) = 0
  BY <1>3, <1>6, <1>7, ImporterFields
<1>10. ImportFits(k, models)
  <2> HIDE DEF k
  <2> QED
    BY <1>8, <1>9 DEF ImportFits
<1>11. importer' = [importer EXCEPT ![t] = k]
  BY <1>2
<1>12. QED
  BY <1>5, <1>6, <1>10, <1>11, ImporterMoves DEF LibraryInv, LibraryTypeOK, Importing

\* Only the phase changes, and not into one that stores: a request between its
\* two commits can only fail, and an answer has to be true.
LEMMA FinishKeeps ==
    ASSUME LibraryInv, NEW t \in Importers, NEW phase \in Phases, Finish(t, phase),
           phase \notin {"download", "geometry"},
           importer[t].phase \in {"geometry", "failed"} => phase = "failed",
           phase = "created" => AllSaved(t),
           phase = "refused" /\ importer[t].saved # << >> => NextFile(t) = Unreadable,
           UNCHANGED <<models, facts, checker>>,
           cut \subseteq cut', cut' \subseteq ModelIds,
           Importing(t, "geometry") => InFlight(t) \in cut'
    PROVE  LibraryInv'
<1> DEFINE k == [importer[t] EXCEPT !.phase = phase]
<1>1. importer[t] \in Importer
  BY ImporterTyped DEF LibraryInv
<1>2. k \in Importer
  BY <1>1, ImporterFields
<1>3. /\ k.phase = phase /\ k.project = importer[t].project
      /\ k.files = importer[t].files /\ k.saved = importer[t].saved
  BY <1>1, ImporterFields
<1>4. ImportFits(k, models)
  BY <1>3 DEF LibraryInv, ImportsFit, ImportFits, AllSaved, NextFile
<1>5. importer' = [importer EXCEPT ![t] = k]
  BY DEF Finish
<1>6. QED
  BY <1>2, <1>4, <1>5, ImporterMoves

LEMMA CommitFailsKeeps ==
    ASSUME LibraryInv, NEW t \in Importers, CommitFails(t)
    PROVE  LibraryInv'
<1>1. Finish(t, "failed") /\ UNCHANGED <<models, facts, checker>> /\ "failed" \in Phases
  BY DEF CommitFails, Phases
<1>2. cut' = IF Importing(t, "geometry") THEN cut \cup {InFlight(t)} ELSE cut
  BY DEF CommitFails
<1>3. cut \subseteq ModelIds
  BY DEF LibraryInv, LibraryTypeOK
<1>4. Importing(t, "geometry") => InFlight(t) \in ModelIds
  BY InFlightSaved DEF LibraryInv
<1>5. cut \subseteq cut' /\ cut' \subseteq ModelIds /\ (Importing(t, "geometry") => InFlight(t) \in cut')
  BY <1>2, <1>3, <1>4
<1>6. QED
  BY <1>1, <1>5, FinishKeeps

LEMMA CommitModelKeeps ==
    ASSUME LibraryInv, NEW t \in Importers, CommitModel(t)
    PROVE  LibraryInv'
<1> DEFINE new == [project |-> importer[t].project, content |-> NextFile(t), geometry |-> FALSE]
           m == Append(models, new)
           ids == Append(importer[t].saved, Len(models) + 1)
           k == [importer[t] EXCEPT !.phase = "geometry", !.saved = ids]
<1>1. importer[t].phase = "save" /\ NextFile(t) # Unreadable /\ Len(models) < MaxModels
  BY DEF CommitModel, Importing
<1>2. models' = m /\ importer' = [importer EXCEPT ![t] = k] /\ UNCHANGED <<cut, facts, checker>>
  BY DEF CommitModel
<1>3. /\ models \in BoundedSeq(Model, MaxModels) /\ Len(models) \in Nat
      /\ DOMAIN models = 1..Len(models)
  BY ModelsTyped DEF LibraryInv
<1>4. /\ importer[t] \in Importer /\ importer[t].project \in Projects \cup {NoProject}
      /\ importer[t].files \in FilesOf /\ importer[t].saved \in SavedOf
      /\ Len(importer[t].files) \in 0..MaxFiles /\ Len(importer[t].saved) \in 0..MaxFiles
  BY ImporterTyped DEF LibraryInv
<1>5. ImportFits(importer[t], models)
  BY DEF LibraryInv, ImportsFit
<1>6. Len(importer[t].saved) < Len(importer[t].files)
  BY <1>4, <1>5 DEF CommitModel, AllSaved, ImportFits
<1>7. NextFile(t) \in Contents
  <2>1. importer[t].files \in [1..Len(importer[t].files) -> Contents \cup {Unreadable}]
    BY <1>4, BoundedFacts, LibraryAssumption DEF FilesOf
  <2>2. QED
    BY <1>1, <1>4, <1>6, <2>1 DEF NextFile
<1>8. new \in Model
  BY <1>4, <1>7 DEF Model
<1>9. /\ m \in BoundedSeq(Model, MaxModels)
      /\ DOMAIN m = 1..(Len(models) + 1)
      /\ \A i \in 1..Len(models) : m[i] = models[i]
      /\ m[Len(models) + 1] = new
  BY <1>1, <1>3, <1>8, BoundedAppend, LibraryAssumption
<1>10. Len(models) + 1 \in ModelIds
  BY <1>1, <1>3, LibraryAssumption DEF ModelIds
<1>11. /\ ids \in SavedOf /\ Len(ids) = Len(importer[t].saved) + 1
       /\ \A n \in 1..Len(importer[t].saved) : ids[n] = importer[t].saved[n]
       /\ ids[Len(importer[t].saved) + 1] = Len(models) + 1
  BY <1>4, <1>6, <1>10, BoundedAppend, LibraryAssumption DEF SavedOf
<1>12. k \in Importer
  BY <1>4, <1>11, ImporterFields DEF Phases
<1>13. /\ k.phase = "geometry" /\ k.project = importer[t].project
       /\ k.files = importer[t].files /\ k.saved = ids
  BY <1>4, ImporterFields
<1>14. new.project = importer[t].project /\ new.content = NextFile(t)
  OBVIOUS
<1> HIDE DEF new, m, ids, k
<1>15. Grown(models, m)
  BY <1>3, <1>9 DEF Grown
<1>16. ImportFits(k, m)
  <2>1. Len(k.saved) <= Len(k.files) /\ k.saved # << >>
    <3>1. Len(k.saved) <= Len(k.files) /\ Len(k.saved) # 0
      BY <1>4, <1>6, <1>11, <1>13
    <3>2. QED
      BY <3>1, EmptySeq
  <2>2. ASSUME NEW n \in 1..Len(k.saved)
        PROVE  /\ k.saved[n] \in DOMAIN m
               /\ m[k.saved[n]].project = k.project
               /\ m[k.saved[n]].content = k.files[n]
               /\ m[k.saved[n]].geometry \/ (n = Len(k.saved) /\ k.phase \in {"geometry", "failed"})
    <3>1. CASE n = Len(importer[t].saved) + 1
      <4>1. k.saved[n] = Len(models) + 1 /\ n = Len(k.saved)
        BY <1>11, <1>13, <3>1
      <4>2. m[k.saved[n]] = new /\ k.saved[n] \in DOMAIN m
        BY <1>3, <1>9, <4>1
      <4>3. QED
        BY <1>13, <1>14, <3>1, <4>1, <4>2 DEF NextFile
    <3>2. CASE n # Len(importer[t].saved) + 1
      <4>1. n \in 1..Len(importer[t].saved)
        BY <1>4, <1>11, <1>13, <3>2
      <4>2. k.saved[n] = importer[t].saved[n]
        BY <1>11, <1>13, <4>1
      <4>3. /\ k.saved[n] \in DOMAIN models
            /\ models[k.saved[n]].project = k.project
            /\ models[k.saved[n]].content = k.files[n]
            /\ models[k.saved[n]].geometry
        BY <1>1, <1>5, <1>13, <4>1, <4>2 DEF ImportFits
      <4>4. QED
        BY <1>15, <4>3 DEF Grown
    <3>3. QED
      BY <3>1, <3>2
  <2>3. QED
    BY <1>13, <2>1, <2>2 DEF ImportFits
<1>17. \A i \in DOMAIN m :
          \/ m[i].geometry
          \/ i \in cut
          \/ k.phase = "geometry" /\ k.saved[Len(k.saved)] = i
          \/ /\ i \in DOMAIN models /\ ~ models[i].geometry
             /\ ~ (Importing(t, "geometry") /\ InFlight(t) = i)
  <2> SUFFICES ASSUME NEW i \in DOMAIN m, i \in DOMAIN models \/ i = Len(models) + 1
               PROVE  \/ m[i].geometry
                      \/ k.phase = "geometry" /\ k.saved[Len(k.saved)] = i
                      \/ /\ i \in DOMAIN models /\ ~ models[i].geometry
                         /\ ~ (Importing(t, "geometry") /\ InFlight(t) = i)
    BY <1>3, <1>9
  <2>1. CASE i = Len(models) + 1
    BY <1>11, <1>13, <2>1
  <2>2. CASE i \in DOMAIN models
    BY <1>1, <1>3, <1>9, <2>2 DEF Importing
  <2>3. QED
    BY <2>1, <2>2
<1>18. cut \subseteq ModelIds
  BY DEF LibraryInv, LibraryTypeOK
<1>19. QED
  BY <1>2, <1>9, <1>12, <1>15, <1>16, <1>17, <1>18, ImporterStep

LEMMA CommitGeometryKeeps ==
    ASSUME LibraryInv, NEW t \in Importers, CommitGeometry(t)
    PROVE  LibraryInv'
<1> DEFINE i == InFlight(t)
           m == [models EXCEPT ![i].geometry = TRUE]
           k == [importer[t] EXCEPT !.phase = "save"]
<1>1. importer[t].phase = "geometry" /\ Importing(t, "geometry")
  BY DEF CommitGeometry, Importing
<1>2. models' = m /\ importer' = [importer EXCEPT ![t] = k] /\ UNCHANGED <<cut, facts, checker>>
  BY DEF CommitGeometry, Finish
<1>3. models \in Seq(Model) /\ Len(models) \in 0..MaxModels /\ models \in [1..Len(models) -> Model]
      /\ DOMAIN models = 1..Len(models)
  BY ModelsTyped DEF LibraryInv
<1>4. i \in DOMAIN models
  BY <1>1, InFlightSaved DEF LibraryInv
<1>5. models[i] \in Model /\ [models[i] EXCEPT !.geometry = TRUE] \in Model
  BY <1>3, <1>4 DEF Model
<1>6. /\ m \in [1..Len(models) -> Model] /\ DOMAIN m = DOMAIN models
      /\ \A j \in DOMAIN models : m[j] = IF j = i THEN [models[i] EXCEPT !.geometry = TRUE]
                                                ELSE models[j]
  BY <1>3, <1>4, <1>5
<1>7. m \in BoundedSeq(Model, MaxModels)
  BY <1>3, <1>6 DEF BoundedSeq
<1>8. /\ m[i].project = models[i].project /\ m[i].content = models[i].content /\ m[i].geometry
      /\ \A j \in DOMAIN models : j # i => m[j] = models[j]
  BY <1>4, <1>5, <1>6 DEF Model
<1>9. importer[t] \in Importer /\ ImportFits(importer[t], models) /\ i = importer[t].saved[Len(importer[t].saved)]
  BY ImporterTyped DEF LibraryInv, ImportsFit, InFlight
<1>10. k \in Importer /\ k.phase = "save" /\ k.project = importer[t].project
       /\ k.files = importer[t].files /\ k.saved = importer[t].saved
  BY <1>9, ImporterFields DEF Phases
<1> HIDE DEF i, m, k
<1>11. Grown(models, m)
  BY <1>4, <1>6, <1>8 DEF Grown
<1>12. ImportFits(k, m)
  <2>1. ImportFits(importer[t], m)
    BY <1>9, <1>11, FitsGrown
  <2>2. ASSUME NEW n \in 1..Len(k.saved)
        PROVE  m[k.saved[n]].geometry
    <3>1. CASE n = Len(k.saved)
      BY <1>8, <1>9, <1>10, <3>1
    <3>2. CASE n # Len(k.saved)
      BY <1>10, <2>1, <3>2 DEF ImportFits
    <3>3. QED
      BY <3>1, <3>2
  <2>3. QED
    BY <1>10, <2>1, <2>2 DEF ImportFits
<1>13. \A j \in DOMAIN m :
          \/ m[j].geometry
          \/ j \in DOMAIN models /\ ~ models[j].geometry /\ InFlight(t) # j
  BY <1>6, <1>8 DEF i
<1>14. cut \subseteq ModelIds
  BY DEF LibraryInv, LibraryTypeOK
<1>15. QED
  BY <1>2, <1>7, <1>10, <1>11, <1>12, <1>13, <1>14, ImporterStep

-----------------------------------------------------------------------------
(* Compatibility checks                                                    *)

CandidatesOf == BoundedSeq(Projects \cup {NoProject}, MaxFiles)

\* A sequence of at least one candidate.
LEMMA CandidatesTyped ==
    UNION {[1..n -> Projects \cup {NoProject}] : n \in 1..MaxFiles} =
        {s \in CandidatesOf : Len(s) # 0}
<1> DEFINE P == Projects \cup {NoProject}
<1>1. ASSUME NEW n \in 1..MaxFiles, NEW s \in [1..n -> P]
      PROVE  s \in CandidatesOf /\ Len(s) # 0
  <2>1. s \in Seq(P) /\ Len(s) = n
    BY <1>1, SeqDef, LenProperties
  <2>2. s \in CandidatesOf
    BY <2>1, BoundedIntro, LibraryAssumption DEF CandidatesOf
  <2>3. QED
    BY <2>1, <2>2
<1>2. ASSUME NEW s \in CandidatesOf, Len(s) # 0
      PROVE  Len(s) \in 1..MaxFiles /\ s \in [1..Len(s) -> P]
  BY <1>2, BoundedFacts, LibraryAssumption DEF CandidatesOf
<1>3. QED
  BY <1>1, <1>2

CheckPhases == {"require", "check", "save"}

LEMMA CheckerFields ==
    Checker = [phase : CheckPhases, candidates : {s \in CandidatesOf : Len(s) # 0},
               printers : SUBSET LanPrinters, left : SUBSET LanPrinters, geometry : BOOLEAN,
               loaded : [LanPrinters -> Facts \cup {Stale, NoFacts}],
               now : SUBSET LanPrinters, changed : SUBSET LanPrinters]
  BY CandidatesTyped DEF Checker, CheckPhases

LEMMA CheckerTyped ==
    ASSUME LibraryTypeOK, NEW c \in Checkers, checker[c].phase \in CheckPhases
    PROVE  checker[c] \in Checker /\ checker[c] # NotChecking
  BY DEF LibraryTypeOK, NotChecking, CheckPhases

\* One check goes on: its record has to fit the printers' rows.
LEMMA CheckerMoves ==
    ASSUME LibraryInv, NEW c \in Checkers, NEW k \in Checker \cup {NotChecking},
           k # NotChecking => CheckFits(k, facts),
           checker' = [checker EXCEPT ![c] = k], UNCHANGED <<models, importer, cut, facts>>
    PROVE  LibraryInv'
<1>1. checker \in [Checkers -> Checker \cup {NotChecking}]
  BY DEF LibraryInv, LibraryTypeOK
<1>2. \A d \in Checkers : checker'[d] = IF d = c THEN k ELSE checker[d]
  BY <1>1
<1>3. LibraryTypeOK'
  BY <1>1 DEF LibraryInv, LibraryTypeOK
<1>4. ChecksFit'
  BY <1>2 DEF LibraryInv, ChecksFit
<1>5. ImportsFit' /\ GeometryPending'
  BY DEF LibraryInv, ImportsFit, GeometryPending, Unfinished, Importing, InFlight
<1>6. QED
  BY <1>3, <1>4, <1>5 DEF LibraryInv

LEMMA StartCheckKeeps ==
    ASSUME LibraryInv, NEW c \in Checkers, NEW candidates \in CandidatesOf, Len(candidates) # 0,
           NEW phase \in {"require", "check"}, StartCheck(c, candidates, phase)
    PROVE  LibraryInv'
<1>1. PICK printers \in SUBSET Listed \ {{}} :
        checker' = [checker EXCEPT ![c] =
            [phase |-> phase, candidates |-> candidates, printers |-> printers,
             left |-> printers, geometry |-> phase = "check",
             loaded |-> [p \in LanPrinters |-> IF p \in printers THEN facts[p] ELSE Stale],
             now |-> {}, changed |-> {}]]
  BY DEF StartCheck
<1> DEFINE loaded == [p \in LanPrinters |-> IF p \in printers THEN facts[p] ELSE Stale]
           k == [phase |-> phase, candidates |-> candidates, printers |-> printers,
                 left |-> printers, geometry |-> phase = "check", loaded |-> loaded,
                 now |-> {}, changed |-> {}]
<1>2. printers \subseteq LanPrinters
  BY DEF Listed
<1>3. loaded \in [LanPrinters -> Facts \cup {Stale, NoFacts}]
  BY DEF LibraryInv, LibraryTypeOK
<1>4. k \in Checker
  BY <1>2, <1>3, CheckerFields DEF CheckPhases
<1>5. CheckFits(k, facts)
  BY DEF CheckFits
<1>6. UNCHANGED <<models, importer, cut, facts>>
  BY DEF StartCheck
<1>7. QED
  BY <1>1, <1>4, <1>5, <1>6, CheckerMoves

LEMMA BeginChecksKeep ==
    ASSUME LibraryInv, NEW c \in Checkers, BeginScanCheck(c) \/ BeginModelCheck(c)
    PROVE  LibraryInv'
<1>1. CASE BeginScanCheck(c)
  <2>1. PICK n \in 1..MaxFiles : \E projects \in [1..n -> Projects] :
            StartCheck(c, projects, "require")
    BY <1>1 DEF BeginScanCheck
  <2>2. PICK projects \in [1..n -> Projects] : StartCheck(c, projects, "require")
    BY <2>1
  <2>3. projects \in [1..n -> Projects \cup {NoProject}]
    OBVIOUS
  <2>4. projects \in CandidatesOf /\ Len(projects) # 0
    BY <2>3, CandidatesTyped
  <2>5. QED
    BY <2>2, <2>4, StartCheckKeeps
<1>2. CASE BeginModelCheck(c)
  <2>1. << NoProject >> \in CandidatesOf /\ Len(<< NoProject >>) = 1
    BY BoundedSingle, LibraryAssumption DEF CandidatesOf
  <2>2. StartCheck(c, << NoProject >>, "check")
    BY <1>2 DEF BeginModelCheck
  <2>3. QED
    BY <2>1, <2>2, StartCheckKeeps
<1>3. QED
  BY <1>1, <1>2

LEMMA LoadRequirementsKeeps ==
    ASSUME LibraryInv, NEW c \in Checkers, LoadRequirements(c)
    PROVE  LibraryInv'
<1> DEFINE found == ModelsOf(Head(checker[c].candidates))
<1>1. checker[c].phase = "require" /\ UNCHANGED <<models, importer, cut, facts>>
  BY DEF LoadRequirements
<1>2. PICK geometry \in IF found = {} THEN {FALSE} ELSE {models[i].geometry : i \in found} :
        checker' = [checker EXCEPT ![c].phase = "check", ![c].geometry = geometry]
  BY DEF LoadRequirements
<1>3. checker[c] \in Checker /\ checker[c] # NotChecking
  BY <1>1, CheckerTyped DEF LibraryInv, CheckPhases
<1>4. geometry \in BOOLEAN
  BY ModelsTyped DEF LibraryInv, ModelsOf, Model
<1> DEFINE k == [checker[c] EXCEPT !.phase = "check", !.geometry = geometry]
<1>5. k \in Checker
  BY <1>3, <1>4, CheckerFields DEF CheckPhases
<1>6. k.phase = "check" /\ k.loaded = checker[c].loaded /\ k.changed = checker[c].changed
  BY <1>3, CheckerFields
<1>7. CheckFits(k, facts)
  BY <1>3, <1>6 DEF CheckFits, LibraryInv, ChecksFit
<1>8. checker' = [checker EXCEPT ![c] = k]
  BY <1>2
<1>9. QED
  BY <1>1, <1>5, <1>7, <1>8, CheckerMoves

LEMMA CheckPrinterKeeps ==
    ASSUME LibraryInv, NEW c \in Checkers, CheckPrinter(c)
    PROVE  LibraryInv'
<1>1. checker[c].phase = "check" /\ UNCHANGED <<models, importer, cut, facts>>
  BY DEF CheckPrinter
<1>2. PICK p \in checker[c].left :
        LET f == IF checker[c].loaded[p] = Stale THEN facts[p] ELSE checker[c].loaded[p] IN
        IF f = NoFacts THEN checker' = [checker EXCEPT ![c] = NotChecking]
        ELSE checker' = [checker EXCEPT ![c].phase = "save", ![c].left = @ \ {p},
                            ![c].now = {p}, ![c].loaded[p] = f]
  BY DEF CheckPrinter
<1> DEFINE f == IF checker[c].loaded[p] = Stale THEN facts[p] ELSE checker[c].loaded[p]
<1>3. checker[c] \in Checker /\ checker[c] # NotChecking
  BY <1>1, CheckerTyped DEF LibraryInv, CheckPhases
<1>4. /\ p \in LanPrinters /\ checker[c].left \subseteq LanPrinters
      /\ checker[c].loaded \in [LanPrinters -> Facts \cup {Stale, NoFacts}]
  BY <1>3, CheckerFields
<1>5. f \in Facts \cup {NoFacts} /\ f # Stale
  BY <1>4, LibraryAssumption DEF LibraryInv, LibraryTypeOK
<1>6. CASE f = NoFacts
  BY <1>1, <1>2, <1>6, CheckerMoves
<1>7. CASE f # NoFacts
  <2> DEFINE k == [checker[c] EXCEPT !.phase = "save", !.left = @ \ {p}, !.now = {p},
                                     !.loaded[p] = f]
  <2>1. checker' = [checker EXCEPT ![c] = k]
    BY <1>2, <1>7
  <2>2. k \in Checker
    BY <1>3, <1>4, <1>5, CheckerFields DEF CheckPhases
  <2>3. /\ k.now = {p} /\ k.changed = checker[c].changed
        /\ k.loaded = [checker[c].loaded EXCEPT ![p] = f]
    BY <1>3, CheckerFields
  <2>4. CheckFits(checker[c], facts)
    BY <1>3 DEF LibraryInv, ChecksFit
  <2>5. CheckFits(k, facts)
    BY <1>4, <1>5, <2>3, <2>4 DEF CheckFits
  <2>6. QED
    BY <1>1, <2>1, <2>2, <2>5, CheckerMoves
<1>8. QED
  BY <1>6, <1>7

LEMMA SaveReportKeeps ==
    ASSUME LibraryInv, NEW c \in Checkers, SaveReport(c)
    PROVE  LibraryInv'
<1> DEFINE stale == [p \in LanPrinters |-> Stale]
           k == checker[c]
<1>1. k.phase = "save" /\ UNCHANGED <<models, importer, cut, facts>>
  BY DEF SaveReport
<1>2. k \in Checker
  BY <1>1, CheckerTyped DEF LibraryInv, CheckPhases
<1>3. checker' = [checker EXCEPT ![c] = NotChecking]
      \/ checker' = [checker EXCEPT ![c] = AfterReport(c, stale)]
  BY DEF SaveReport
<1>4. /\ AfterReport(c, stale) \in Checker \cup {NotChecking}
      /\ AfterReport(c, stale) # NotChecking => CheckFits(AfterReport(c, stale), facts)
  <2>1. CASE k.left = {} /\ Len(k.candidates) = 1
    BY <2>1 DEF AfterReport
  <2>2. CASE k.left = {} /\ Len(k.candidates) # 1
    <3> DEFINE next == [k EXCEPT !.phase = "require", !.candidates = Tail(@), !.left = k.printers,
                                 !.loaded = stale, !.now = {}, !.changed = {}]
    <3>1. AfterReport(c, stale) = next
      BY <2>2 DEF AfterReport
    <3>2. k.candidates \in CandidatesOf /\ Len(k.candidates) # 0
      BY <1>2, CheckerFields
    <3>3. k.candidates # << >> /\ Len(k.candidates) \in Nat
      BY <3>2, BoundedFacts, LibraryAssumption, EmptySeq DEF CandidatesOf
    <3>4. Tail(k.candidates) \in CandidatesOf /\ Len(Tail(k.candidates)) = Len(k.candidates) - 1
      BY <3>2, <3>3, BoundedTail, LibraryAssumption DEF CandidatesOf
    <3>5. Len(Tail(k.candidates)) # 0
      BY <2>2, <3>3, <3>4
    <3>6. next \in Checker
      BY <1>2, <3>4, <3>5, CheckerFields DEF CheckPhases
    <3>7. next.phase = "require" /\ next.loaded = stale
      BY <1>2, CheckerFields
    <3>8. CheckFits(next, facts)
      BY <3>7 DEF CheckFits
    <3>9. QED
      BY <3>1, <3>6, <3>8
  <2>3. CASE k.left # {}
    <3> DEFINE next == [k EXCEPT !.phase = "check", !.candidates = @, !.left = @,
                                 !.loaded = stale, !.now = {}, !.changed = {}]
    <3>1. AfterReport(c, stale) = next
      BY <2>3 DEF AfterReport
    <3>2. next \in Checker
      BY <1>2, CheckerFields DEF CheckPhases
    <3>3. next.phase = "check" /\ next.loaded = stale
      BY <1>2, CheckerFields
    <3>4. CheckFits(next, facts)
      BY <3>3 DEF CheckFits
    <3>5. QED
      BY <3>1, <3>2, <3>4
  <2>4. QED
    BY <2>1, <2>2, <2>3
<1>5. QED
  BY <1>1, <1>3, <1>4, CheckerMoves

\* A printer's row changes: every check in progress is told, and keeps what it
\* has loaded.
LEMMA WriteFactsKeeps ==
    ASSUME LibraryInv, NEW p \in LanPrinters, NEW f \in Facts \cup {NoFacts}, WriteFacts(p, f)
    PROVE  LibraryInv'
<1> DEFINE told(c) == [checker[c] EXCEPT !.changed = @ \cup {p}]
<1>1. /\ facts' = [facts EXCEPT ![p] = f]
      /\ checker' = [c \in Checkers |-> IF checker[c] = NotChecking THEN NotChecking ELSE told(c)]
      /\ UNCHANGED <<models, importer, cut>>
  BY DEF WriteFacts
<1>2. ASSUME NEW c \in Checkers, checker[c] # NotChecking
      PROVE  /\ told(c) \in Checker /\ told(c).phase = checker[c].phase
             /\ told(c).loaded = checker[c].loaded /\ told(c).now = checker[c].now
             /\ told(c).changed = checker[c].changed \cup {p}
  <2>1. checker[c] \in Checker
    BY <1>2 DEF LibraryInv, LibraryTypeOK
  <2>2. QED
    BY <2>1, CheckerFields
<1>3. facts \in [LanPrinters -> Facts \cup {NoFacts}]
  BY DEF LibraryInv, LibraryTypeOK
<1>4. LibraryTypeOK'
  BY <1>1, <1>2, <1>3 DEF LibraryInv, LibraryTypeOK
<1>5. ChecksFit'
  <2> SUFFICES ASSUME NEW c \in Checkers, checker'[c] # NotChecking
               PROVE  CheckFits(checker'[c], facts')
    BY DEF ChecksFit
  <2>1. checker[c] # NotChecking /\ checker'[c] = told(c)
    BY <1>1
  <2>2. CheckFits(checker[c], facts)
    BY <2>1 DEF LibraryInv, ChecksFit
  <2>3. /\ checker'[c].loaded = checker[c].loaded /\ checker'[c].now = checker[c].now
        /\ checker'[c].phase = checker[c].phase /\ checker'[c].changed = checker[c].changed \cup {p}
    BY <1>2, <2>1
  <2>4. \A q \in LanPrinters : q # p => facts'[q] = facts[q]
    BY <1>1, <1>3
  <2>5. QED
    BY <2>2, <2>3, <2>4 DEF CheckFits
<1>6. ImportsFit' /\ GeometryPending'
  BY <1>1 DEF LibraryInv, ImportsFit, GeometryPending, Unfinished, Importing, InFlight
<1>7. QED
  BY <1>4, <1>5, <1>6 DEF LibraryInv

LEMMA KillLibraryKeeps ==
    ASSUME LibraryInv, KillLibrary
    PROVE  LibraryInv'
<1>1. /\ importer' = [t \in Importers |-> AtRest]
      /\ checker' = [c \in Checkers |-> NotChecking]
      /\ cut' = cut \cup {InFlight(t) : t \in {u \in Importers : Importing(u, "geometry")}}
      /\ UNCHANGED <<models, facts>>
  BY DEF KillLibrary
<1>2. cut' \subseteq ModelIds
  BY <1>1, InFlightSaved DEF LibraryInv, LibraryTypeOK
<1>3. LibraryTypeOK'
  BY <1>1, <1>2, AtRestFits DEF LibraryInv, LibraryTypeOK
<1>4. ImportsFit'
  BY <1>1, AtRestFits DEF ImportsFit
<1>5. GeometryPending'
  BY <1>1 DEF LibraryInv, GeometryPending, Unfinished
<1>6. ChecksFit'
  BY <1>1 DEF ChecksFit
<1>7. QED
  BY <1>3, <1>4, <1>5, <1>6 DEF LibraryInv

-----------------------------------------------------------------------------
(* The theorems                                                            *)

LEMMA LibraryInitially == InitLibrary => LibraryInv
<1> SUFFICES ASSUME InitLibrary PROVE LibraryInv
  OBVIOUS
<1>1. << >> \in BoundedSeq(Model, MaxModels) /\ DOMAIN << >> = {}
  BY BoundedEmpty, LibraryAssumption
<1>2. LibraryTypeOK
  BY <1>1, AtRestFits DEF InitLibrary, LibraryTypeOK, BoundedSeq
<1>3. ImportsFit
  BY AtRestFits DEF InitLibrary, ImportsFit
<1>4. GeometryPending
  BY <1>1 DEF InitLibrary, GeometryPending
<1>5. ChecksFit
  BY DEF InitLibrary, ChecksFit
<1>6. QED
  BY <1>2, <1>3, <1>4, <1>5 DEF LibraryInv

LEMMA LibraryStep == LibraryInv /\ [NextLibrary]_libraryVars => LibraryInv'
<1> SUFFICES ASSUME LibraryInv, [NextLibrary]_libraryVars PROVE LibraryInv'
  OBVIOUS
<1>0. cut \subseteq ModelIds
  BY DEF LibraryInv, LibraryTypeOK
<1>1. ASSUME NEW t \in Importers, BeginImport(t) PROVE LibraryInv'
  BY <1>1, BeginImportKeeps
<1>2. ASSUME NEW t \in Importers, DownloadFile(t) PROVE LibraryInv'
  BY <1>2, DownloadFileKeeps
<1>3. ASSUME NEW t \in Importers, DownloadFails(t) PROVE LibraryInv'
  <2>1. importer[t].phase = "download" /\ importer[t].saved = << >>
    BY <1>3 DEF DownloadFails, Importing, LibraryInv, ImportsFit, ImportFits
  <2>2. "refused" \in Phases /\ Finish(t, "refused") /\ UNCHANGED <<models, cut, facts, checker>>
    BY <1>3 DEF DownloadFails, Phases
  <2>3. QED
    BY <1>0, <2>1, <2>2, FinishKeeps DEF Importing
<1>4. ASSUME NEW t \in Importers, DownloadsDone(t) PROVE LibraryInv'
  <2>1. "save" \in Phases /\ Finish(t, "save") /\ UNCHANGED <<models, cut, facts, checker>>
    BY <1>4 DEF DownloadsDone, Phases
  <2>2. QED
    BY <1>0, <1>4, <2>1, FinishKeeps DEF DownloadsDone, Importing
<1>5. ASSUME NEW t \in Importers, BeginUpload(t) PROVE LibraryInv'
  BY <1>5, BeginUploadKeeps
<1>6. ASSUME NEW t \in Importers, RefuseFile(t) PROVE LibraryInv'
  <2>1. "refused" \in Phases /\ Finish(t, "refused") /\ UNCHANGED <<models, cut, facts, checker>>
    BY <1>6 DEF RefuseFile, Phases
  <2>2. QED
    BY <1>0, <1>6, <2>1, FinishKeeps DEF RefuseFile, Importing
<1>7. ASSUME NEW t \in Importers, CommitModel(t) PROVE LibraryInv'
  BY <1>7, CommitModelKeeps
<1>8. ASSUME NEW t \in Importers, CommitGeometry(t) PROVE LibraryInv'
  BY <1>8, CommitGeometryKeeps
<1>9. ASSUME NEW t \in Importers, AnswerCreated(t) PROVE LibraryInv'
  <2>1. "created" \in Phases /\ Finish(t, "created") /\ UNCHANGED <<models, cut, facts, checker>>
    BY <1>9 DEF AnswerCreated, Phases
  <2>2. QED
    BY <1>0, <1>9, <2>1, FinishKeeps DEF AnswerCreated, Importing
<1>10. ASSUME NEW t \in Importers, CommitFails(t) PROVE LibraryInv'
  BY <1>10, CommitFailsKeeps
<1>11. ASSUME NEW c \in Checkers, BeginScanCheck(c) \/ BeginModelCheck(c) PROVE LibraryInv'
  BY <1>11, BeginChecksKeep
<1>12. ASSUME NEW c \in Checkers, LoadRequirements(c) PROVE LibraryInv'
  BY <1>12, LoadRequirementsKeeps
<1>13. ASSUME NEW c \in Checkers, CheckPrinter(c) PROVE LibraryInv'
  BY <1>13, CheckPrinterKeeps
<1>14. ASSUME NEW c \in Checkers, SaveReport(c) PROVE LibraryInv'
  BY <1>14, SaveReportKeeps
<1>15. ASSUME NEW p \in LanPrinters, EditPrinter(p) \/ DeleteLanPrinter(p) PROVE LibraryInv'
  BY <1>15, WriteFactsKeeps DEF EditPrinter, DeleteLanPrinter
<1>16. CASE KillLibrary
  BY <1>16, KillLibraryKeeps
<1>17. CASE UNCHANGED libraryVars
  BY <1>17 DEF libraryVars, LibraryInv, LibraryTypeOK, ImportsFit, GeometryPending, Unfinished,
     Importing, InFlight, ChecksFit
<1>18. QED
  BY <1>1, <1>2, <1>3, <1>4, <1>5, <1>6, <1>7, <1>8, <1>9, <1>10, <1>11, <1>12, <1>13, <1>14,
     <1>15, <1>16, <1>17 DEF NextLibrary

\* The inductive invariant of the library: every import's saved models are
\* those of its first files, a model without a geometry is between its two
\* commits or was left there by a request that ended, and what a check has
\* loaded of a printer is in its row unless the row has changed since.
THEOREM LibraryInvariant == LibrarySpec => []LibraryInv
<1>1. QED
  BY LibraryInitially, LibraryStep, PTL DEF LibrarySpec

\* The variables of the library keep their types.
THEOREM LibraryTypes == LibrarySpec => []LibraryTypeOK
<1>1. LibraryInv => LibraryTypeOK
  BY DEF LibraryInv
<1>2. QED
  BY LibraryInvariant, <1>1, PTL

\* However uploads and imports overlap, and wherever one of them fails or the
\* process is killed: what an import has stored is what it downloaded, from
\* the first file on and with the geometry of every file but perhaps the last;
\* a 201 is the answer to an import that has stored everything, and a 400 to
\* one that has stored what comes before the file it could not read.
THEOREM ImportsArePrefixes == LibrarySpec => []ImportIsPrefix
<1>1. LibraryInv => ImportIsPrefix
  <2> SUFFICES ASSUME LibraryInv, NEW t \in Importers,
                      NEW k \in DOMAIN importer[t].saved
               PROVE  /\ ImportFits(importer[t], models)
                      /\ \/ models[importer[t].saved[k]] =
                             [project |-> importer[t].project,
                              content |-> importer[t].files[k], geometry |-> TRUE]
                         \/ k = Len(importer[t].saved)
                            /\ importer[t].phase \in {"geometry", "failed"}
    BY DEF LibraryInv, ImportsFit, ImportIsPrefix, ImportFits, Importing, AllSaved, NextFile
  <2>1. ImportFits(importer[t], models)
    BY DEF LibraryInv, ImportsFit
  <2>2. k \in 1..Len(importer[t].saved)
    BY ImporterTyped, BoundedFacts, LibraryAssumption DEF LibraryInv, SavedOf
  <2>3. models[importer[t].saved[k]] \in Model
    BY <2>1, <2>2, ModelsTyped DEF LibraryInv, ImportFits
  <2>4. QED
    BY <2>1, <2>2, <2>3 DEF ImportFits, Model
<1>2. QED
  BY LibraryInvariant, <1>1, PTL

\* However long a check takes, and however often printers are edited and
\* deleted meanwhile: the report it is about to save says of the printer what
\* its row says, unless the row has changed since the last commit.
THEOREM FactsAreFresh == LibrarySpec => []FreshFacts
<1>1. LibraryInv => FreshFacts
  <2> SUFFICES ASSUME LibraryInv, NEW c \in Checkers, checker[c].phase = "save",
                      NEW p \in checker[c].now \ checker[c].changed
               PROVE  checker[c].loaded[p] = facts[p]
    BY DEF FreshFacts
  <2>1. checker[c] \in Checker /\ checker[c] # NotChecking
    BY CheckerTyped DEF LibraryInv, CheckPhases
  <2>2. p \in LanPrinters
    BY <2>1, CheckerFields
  <2>3. QED
    BY <2>1, <2>2 DEF LibraryInv, ChecksFit, CheckFits
<1>2. QED
  BY LibraryInvariant, <1>1, PTL

\* A check falls back to the metadata of the scan although a model of the
\* project has a geometry only where another of its models is between its two
\* commits, or was left there by a request that ended.
THEOREM StoredGeometryIsUsed == LibrarySpec => GeometryIsUsed
<1> DEFINE A == \A c \in Checkers :
                    /\ checker[c].phase = "require" /\ checker'[c].phase = "check"
                    /\ ~ checker'[c].geometry
                    /\ \E i \in ModelsOf(Head(checker[c].candidates)) : models[i].geometry
                    => \E i \in ModelsOf(Head(checker[c].candidates)) :
                        i \in cut \/ \E t \in Importers : Importing(t, "geometry") /\ InFlight(t) = i
<1>1. LibraryInv /\ [NextLibrary]_libraryVars => A
  <2> SUFFICES ASSUME LibraryInv, [NextLibrary]_libraryVars, NEW c \in Checkers,
                      checker[c].phase = "require", checker'[c].phase = "check",
                      ~ checker'[c].geometry,
                      NEW j \in ModelsOf(Head(checker[c].candidates)), models[j].geometry
               PROVE  \E i \in ModelsOf(Head(checker[c].candidates)) :
                        i \in cut \/ \E t \in Importers : Importing(t, "geometry") /\ InFlight(t) = i
    OBVIOUS
  <2>1. checker[c] \in Checker /\ checker[c] # NotChecking
    BY CheckerTyped DEF LibraryInv, CheckPhases
  <2>2. checker \in [Checkers -> Checker \cup {NotChecking}]
    BY DEF LibraryInv, LibraryTypeOK
  <2>3. ASSUME NEW d \in Checkers, NEW k, d # c, checker' = [checker EXCEPT ![d] = k]
        PROVE  FALSE
    BY <2>2, <2>3
  <2>4. ASSUME NEW t \in Importers,
               \/ BeginImport(t) \/ DownloadFile(t) \/ DownloadFails(t) \/ DownloadsDone(t)
               \/ BeginUpload(t) \/ RefuseFile(t) \/ CommitModel(t) \/ CommitGeometry(t)
               \/ AnswerCreated(t) \/ CommitFails(t)
        PROVE  FALSE
    <3>1. UNCHANGED checker
      BY <2>4 DEF BeginImport, DownloadFile, DownloadFails, DownloadsDone, BeginUpload, RefuseFile,
         CommitModel, CommitGeometry, AnswerCreated, CommitFails
    <3>2. QED
      BY <3>1
  <2>5. ASSUME NEW d \in Checkers, BeginScanCheck(d) \/ BeginModelCheck(d) PROVE FALSE
    <3>1. d # c
      BY <2>1, <2>5 DEF BeginScanCheck, BeginModelCheck, StartCheck
    <3>2. PICK k : checker' = [checker EXCEPT ![d] = k]
      BY <2>5 DEF BeginScanCheck, BeginModelCheck, StartCheck
    <3>3. QED
      BY <2>3, <3>1, <3>2
  <2>6. ASSUME NEW d \in Checkers, LoadRequirements(d) PROVE LoadRequirements(c)
    <3>1. PICK k : checker' = [checker EXCEPT ![d] = k]
      BY <2>6 DEF LoadRequirements
    <3>2. d = c
      BY <2>3, <3>1
    <3>3. QED
      BY <2>6, <3>2
  <2>7. ASSUME NEW d \in Checkers, CheckPrinter(d) PROVE FALSE
    <3>1. PICK k : checker' = [checker EXCEPT ![d] = k]
      BY <2>7 DEF CheckPrinter
    <3>2. d # c
      BY <2>7 DEF CheckPrinter
    <3>3. QED
      BY <2>3, <3>1, <3>2
  <2>8. ASSUME NEW d \in Checkers, SaveReport(d) PROVE FALSE
    <3>1. PICK k : checker' = [checker EXCEPT ![d] = k]
      BY <2>8 DEF SaveReport
    <3>2. d # c
      BY <2>8 DEF SaveReport
    <3>3. QED
      BY <2>3, <3>1, <3>2
  <2>9. ASSUME NEW p \in LanPrinters, EditPrinter(p) \/ DeleteLanPrinter(p) PROVE FALSE
    <3>1. checker'[c] = [checker[c] EXCEPT !.changed = @ \cup {p}]
      BY <2>1, <2>9 DEF EditPrinter, DeleteLanPrinter, WriteFacts
    <3>2. checker'[c].phase = checker[c].phase
      BY <2>1, <3>1, CheckerFields
    <3>3. QED
      BY <3>2
  <2>10. ASSUME KillLibrary PROVE FALSE
    BY <2>10 DEF KillLibrary, NotChecking
  <2>11. ASSUME UNCHANGED libraryVars PROVE FALSE
    BY <2>11 DEF libraryVars
  <2>12. LoadRequirements(c)
    <3>1. NextLibrary
      BY <2>11
    <3>2. CASE \E d \in Checkers : \/ BeginScanCheck(d) \/ BeginModelCheck(d)
                                  \/ LoadRequirements(d) \/ CheckPrinter(d) \/ SaveReport(d)
      BY <2>5, <2>6, <2>7, <2>8, <3>2
    <3>3. QED
      BY <2>4, <2>9, <2>10, <3>1, <3>2 DEF NextLibrary
  <2>13. PICK geometry \in {models[i].geometry : i \in ModelsOf(Head(checker[c].candidates))} :
            checker' = [checker EXCEPT ![c].phase = "check", ![c].geometry = geometry]
    BY <2>12 DEF LoadRequirements
  <2>14. checker'[c].geometry = geometry
    BY <2>1, <2>2, <2>13, CheckerFields
  <2>15. PICK i \in ModelsOf(Head(checker[c].candidates)) : ~ models[i].geometry
    BY <2>13, <2>14
  <2>16. QED
    BY <2>15 DEF LibraryInv, GeometryPending, Unfinished, ModelsOf
<1>2. QED
  BY LibraryInvariant, <1>1, PTL DEF LibrarySpec, GeometryIsUsed

-----------------------------------------------------------------------------
(* The compatibility rules                                                 *)

Quantity == Nat \cup {Unknown}

\* What a printer's row and a model's requirements say: a quantity is a number
\* or unknown, a material or a format is one of any set of names or unknown.
PrinterRow(Names) ==
    [x : Quantity, y : Quantity, z : Quantity, materials : SUBSET Names, nozzleMax : Quantity,
     bedMax : Quantity, nozzle : Quantity, hardened : BOOLEAN, flexible : BOOLEAN,
     colors : Quantity, formats : SUBSET Names, enclosed : BOOLEAN,
     online : Names \cup {Unknown}]

Requirement(Names) ==
    [x : Quantity, y : Quantity, z : Quantity, material : Names \cup {Unknown},
     nozzleTemp : Quantity, bedTemp : Quantity, enclosure : BOOLEAN,
     format : Names \cup {Unknown}, nozzle : Quantity, abrasive : BOOLEAN,
     flexible : BOOLEAN, colors : Nat]

ProfilesOf(model) == {f \in MaterialProfiles : f.name = model.material}

\* Every name has one profile, which states both temperatures.
LEMMA ProfilesTyped ==
    /\ \A f \in MaterialProfiles : f.nozzle \in Nat /\ f.bed \in Nat
    /\ \A f, g \in MaterialProfiles : f.name = g.name => f = g
  BY DEF MaterialProfiles

\* The temperature required once the profile has been applied: what the model
\* states, or else what its material's profile says.
LEMMA ProfileApplied ==
    ASSUME NEW Names, NEW model \in Requirement(Names)
    PROVE  LET m == ApplyMaterialProfile(model) IN
           /\ m.x = model.x /\ m.y = model.y /\ m.z = model.z
           /\ ProfilesOf(model) = {} =>
                m.nozzleTemp = model.nozzleTemp /\ m.bedTemp = model.bedTemp
           /\ \A f \in ProfilesOf(model) :
                /\ ProfilesOf(model) = {f}
                /\ m.nozzleTemp = OrElse(model.nozzleTemp, f.nozzle)
                /\ m.bedTemp = OrElse(model.bedTemp, f.bed)
<1>1. CASE ProfilesOf(model) = {}
  <2>1. ApplyMaterialProfile(model) = model
    BY <1>1 DEF ApplyMaterialProfile, ProfilesOf
  <2>2. QED
    BY <1>1, <2>1
<1>2. ASSUME NEW f \in ProfilesOf(model)
      PROVE  LET m == ApplyMaterialProfile(model) IN
             /\ ProfilesOf(model) = {f}
             /\ m.x = model.x /\ m.y = model.y /\ m.z = model.z
             /\ m.nozzleTemp = OrElse(model.nozzleTemp, f.nozzle)
             /\ m.bedTemp = OrElse(model.bedTemp, f.bed)
  <2>1. ProfilesOf(model) = {f}
    BY ProfilesTyped DEF ProfilesOf
  <2>2. (CHOOSE g \in ProfilesOf(model) : TRUE) = f
    BY <2>1
  <2>3. ApplyMaterialProfile(model) =
            [model EXCEPT !.nozzleTemp = OrElse(@, f.nozzle), !.bedTemp = OrElse(@, f.bed),
                          !.enclosure = @ \/ f.enclosure, !.abrasive = @ \/ f.abrasive,
                          !.flexible = @ \/ f.flexible]
    BY <2>1, <2>2 DEF ApplyMaterialProfile, ProfilesOf
  <2>4. QED
    BY <2>1, <2>3 DEF Requirement
<1>3. QED
  BY <1>1, <1>2

\* The capabilities say of sizes and temperatures what the row says.
LEMMA CapabilitiesKeep ==
    ASSUME NEW Names, NEW row \in PrinterRow(Names)
    PROVE  LET p == PrinterCapabilities(row) IN
           /\ p.x = row.x /\ p.y = row.y /\ p.z = row.z
           /\ p.nozzleMax = row.nozzleMax /\ p.bedMax = row.bedMax
  BY DEF PrinterCapabilities, PrinterRow

\* Only the build volume and the two temperatures can fail.
LEMMA VerdictOfItems ==
    ASSUME NEW p, NEW m
    PROVE  LET three == {CheckBuildVolume(p, m), CheckTemperature(p.nozzleMax, m.nozzleTemp),
                         CheckTemperature(p.bedMax, m.bedTemp)}
           IN  /\ Rollup(Items(p, m)) = "fail" <=> "fail" \in three
               /\ Rollup(Items(p, m)) = "pass" => three = {"pass"}
<1> DEFINE three == {CheckBuildVolume(p, m), CheckTemperature(p.nozzleMax, m.nozzleTemp),
                     CheckTemperature(p.bedMax, m.bedTemp)}
<1>1. "fail" \in Items(p, m) <=> "fail" \in three
  <2>1. /\ CheckFileFormat(p, m) \in {"pass", "warning"}
        /\ CheckMaterial(p, m) \in {"pass", "warning"}
        /\ CheckNozzleDiameter(p, m) \in {"pass", "warning"}
        /\ CheckMultiMaterial(p, m) \in {"pass", "warning"}
        /\ CheckPrinterStatus(p) \in {"pass", "warning"}
        /\ CheckFeature(p.enclosed, m.enclosure) \in {"pass", "warning"}
        /\ CheckFeature(p.hardened, m.abrasive) \in {"pass", "warning"}
        /\ CheckFeature(p.flexible, m.flexible) \in {"pass", "warning"}
    BY DEF CheckFileFormat, CheckMaterial, CheckNozzleDiameter, CheckMultiMaterial,
       CheckPrinterStatus, CheckFeature, PassIf
  <2>2. QED
    BY <2>1 DEF Items
<1>2. three \subseteq Items(p, m)
  BY DEF Items
<1>3. three \subseteq {"pass", "warning", "fail"}
  BY DEF CheckBuildVolume, CheckTemperature, PassIf
<1>4. QED
  BY <1>1, <1>2, <1>3 DEF Rollup

\* Comparing the smaller with the smaller side and the larger with the larger
\* one decides whether the footprint fits, turned by a quarter or not.
LEMMA SortedFits ==
    ASSUME NEW size, NEW volume,
           size.x \in Nat, size.y \in Nat, size.z \in Nat,
           volume.x \in Nat, volume.y \in Nat, volume.z \in Nat
    PROVE  Fits(size, volume) <=>
            /\ SmallerOf(size.x, size.y) <= SmallerOf(volume.x, volume.y)
            /\ LargerOf(size.x, size.y) <= LargerOf(volume.x, volume.y)
            /\ size.z <= volume.z
  BY DEF Fits, SmallerOf, LargerOf

LEMMA VolumeItemSound ==
    ASSUME NEW Names, NEW row \in PrinterRow(Names), NEW model \in Requirement(Names), NEW sizes,
           NEW p, p.x = row.x, p.y = row.y, p.z = row.z,
           NEW m, m.x = model.x, m.y = model.y, m.z = model.z
    PROVE  LET item == CheckBuildVolume(p, m)
               known == Unknown \notin {model.x, model.y, model.z, row.x, row.y, row.z}
               never == \A size \in Footprints(model, sizes), volume \in Footprints(row, sizes) :
                            ~ Fits(size, volume)
               always == \A size \in Footprints(model, sizes), volume \in Footprints(row, sizes) :
                            Fits(size, volume)
           IN  /\ item = "fail" <=> known /\ never
               /\ item = "pass" => known /\ always
<1> DEFINE known == Unknown \notin {model.x, model.y, model.z, row.x, row.y, row.z}
           size0 == [x |-> model.x, y |-> model.y, z |-> model.z]
           volume0 == [x |-> row.x, y |-> row.y, z |-> row.z]
<1>1. CASE ~ known
  BY <1>1 DEF CheckBuildVolume
<1>2. CASE known
  <2>1. /\ model.x \in Nat /\ model.y \in Nat /\ model.z \in Nat
        /\ row.x \in Nat /\ row.y \in Nat /\ row.z \in Nat
    BY <1>2 DEF PrinterRow, Requirement, Quantity
  <2>2. Footprints(model, sizes) = {size0} /\ Footprints(row, sizes) = {volume0}
    <3>1. ASSUME NEW a, NEW b, NEW c
          PROVE  [x : {a}, y : {b}, z : {c}] = {[x |-> a, y |-> b, z |-> c]}
      <4>1. \A s \in [x : {a}, y : {b}, z : {c}] : s = [x |-> a, y |-> b, z |-> c]
        OBVIOUS
      <4>2. [x |-> a, y |-> b, z |-> c] \in [x : {a}, y : {b}, z : {c}]
        OBVIOUS
      <4>3. QED
        BY <4>1, <4>2
    <3>2. /\ Footprints(model, sizes) = [x : {model.x}, y : {model.y}, z : {model.z}]
          /\ Footprints(row, sizes) = [x : {row.x}, y : {row.y}, z : {row.z}]
      BY <1>2 DEF Footprints, Completions
    <3>3. [x : {model.x}, y : {model.y}, z : {model.z}] = {size0}
      BY ONLY <3>1
    <3>4. [x : {row.x}, y : {row.y}, z : {row.z}] = {volume0}
      BY ONLY <3>1
    <3> HIDE DEF size0, volume0
    <3>5. QED
      BY <3>2, <3>3, <3>4
  <2>3. CheckBuildVolume(p, m) = PassIf(Fits(size0, volume0), "fail")
    <3>1. Fits(size0, volume0) <=>
            /\ SmallerOf(m.x, m.y) <= SmallerOf(p.x, p.y)
            /\ LargerOf(m.x, m.y) <= LargerOf(p.x, p.y)
            /\ m.z <= p.z
      <4>1. /\ size0.x = m.x /\ size0.y = m.y /\ size0.z = m.z
            /\ volume0.x = p.x /\ volume0.y = p.y /\ volume0.z = p.z
        OBVIOUS
      <4> HIDE DEF size0, volume0
      <4>2. QED
        BY <2>1, <4>1, SortedFits
    <3>2. Unknown \notin {m.x, m.y, m.z, p.x, p.y, p.z}
      BY <1>2
    <3> HIDE DEF size0, volume0
    <3>3. QED
      BY <3>1, <3>2 DEF CheckBuildVolume, PassIf
  <2>4. QED
    BY <1>2, <2>2, <2>3 DEF PassIf
<1>3. QED
  BY <1>1, <1>2

\* What the item of a temperature says of a limit and a need that may be unknown.
HeatItemIs(item, limit, stated, typical, heats) ==
    LET known == limit # Unknown /\ (stated # Unknown \/ typical # {})
        needs == Needed(stated, typical, heats)
        limits == Completions(limit, heats)
    IN  /\ item = "fail" <=> known /\ \A need \in needs, max \in limits : need > max
        /\ item = "pass" => known /\ \A need \in needs, max \in limits : need <= max

\* A temperature that the model states, or that is typical of its material, is
\* held against a limit.
LEMMA HeatItemSound ==
    ASSUME NEW limit \in Quantity, NEW stated \in Quantity, NEW typical, NEW required, NEW heats,
           \/ typical = {} /\ required = stated
           \/ \E usual \in Nat : typical = {usual} /\ required = OrElse(stated, usual)
    PROVE  HeatItemIs(CheckTemperature(limit, required), limit, stated, typical, heats)
<1> DEFINE known == limit # Unknown /\ (stated # Unknown \/ typical # {})
<1>1. Unknown \notin Nat
  BY RulesAssumption
<1>2. CASE ~ known
  <2>1. Unknown \in {limit, required}
    BY <1>2
  <2>2. QED
    BY <1>2, <2>1 DEF CheckTemperature, HeatItemIs
<1>3. CASE known
  <2>1. /\ limit \in Nat /\ required \in Nat
        /\ Needed(stated, typical, heats) = {required} /\ Completions(limit, heats) = {limit}
    BY <1>1, <1>3 DEF Quantity, OrElse, Needed, Completions
  <2>2. CheckTemperature(limit, required) = PassIf(required <= limit, "fail")
    BY <1>1, <2>1 DEF CheckTemperature
  <2>3. QED
    BY <1>3, <2>1, <2>2 DEF PassIf, HeatItemIs
<1>4. QED
  BY <1>2, <1>3

\* Whatever a printer's row and a model's requirements say, and whatever is
\* unknown of them: a fail stays one however the unknown turns out, a pass
\* leaves nothing open, and a model that is known not to be printable fails.
THEOREM VerdictsAreSound ==
    ASSUME NEW Names, NEW row \in PrinterRow(Names), NEW model \in Requirement(Names), NEW sizes, NEW heats
    PROVE  SoundVerdict(row, model, sizes, heats)
<1> DEFINE p == PrinterCapabilities(row)
           m == ApplyMaterialProfile(model)
           nozzles == {f["nozzle"] : f \in ProfilesOf(model)}
           beds == {f["bed"] : f \in ProfilesOf(model)}
           volume == CheckBuildVolume(p, m)
           nozzle == CheckTemperature(p.nozzleMax, m.nozzleTemp)
           bed == CheckTemperature(p.bedMax, m.bedTemp)
<1> DEFINE knownSize == Unknown \notin {model.x, model.y, model.z, row.x, row.y, row.z}
           never == \A size \in Footprints(model, sizes), v \in Footprints(row, sizes) :
                        ~ Fits(size, v)
           always == \A size \in Footprints(model, sizes), v \in Footprints(row, sizes) :
                        Fits(size, v)
           knownNozzle == row.nozzleMax # Unknown /\ (model.nozzleTemp # Unknown \/ nozzles # {})
           nozzleTooHot == \A need \in Needed(model.nozzleTemp, nozzles, heats),
                             max \in Completions(row.nozzleMax, heats) : need > max
           nozzleFine == \A need \in Needed(model.nozzleTemp, nozzles, heats),
                             max \in Completions(row.nozzleMax, heats) : need <= max
           knownBed == row.bedMax # Unknown /\ (model.bedTemp # Unknown \/ beds # {})
           bedTooHot == \A need \in Needed(model.bedTemp, beds, heats),
                          max \in Completions(row.bedMax, heats) : need > max
           bedFine == \A need \in Needed(model.bedTemp, beds, heats),
                          max \in Completions(row.bedMax, heats) : need <= max
<1>1. /\ p.x = row.x /\ p.y = row.y /\ p.z = row.z
      /\ p.nozzleMax = row.nozzleMax /\ p.bedMax = row.bedMax
  BY CapabilitiesKeep
<1>2. m.x = model.x /\ m.y = model.y /\ m.z = model.z
  BY ProfileApplied
<1>3. /\ row.nozzleMax \in Quantity /\ row.bedMax \in Quantity
      /\ model.nozzleTemp \in Quantity /\ model.bedTemp \in Quantity
  BY DEF PrinterRow, Requirement
<1>4. /\ \/ nozzles = {} /\ m.nozzleTemp = model.nozzleTemp
         \/ \E usual \in Nat : nozzles = {usual} /\ m.nozzleTemp = OrElse(model.nozzleTemp, usual)
      /\ \/ beds = {} /\ m.bedTemp = model.bedTemp
         \/ \E usual \in Nat : beds = {usual} /\ m.bedTemp = OrElse(model.bedTemp, usual)
  <2>1. CASE ProfilesOf(model) = {}
    BY <2>1, ProfileApplied
  <2>2. CASE ProfilesOf(model) # {}
    <3>1. PICK f \in ProfilesOf(model) : TRUE
      BY <2>2
    <3>2. /\ nozzles = {f.nozzle} /\ m.nozzleTemp = OrElse(model.nozzleTemp, f.nozzle)
          /\ beds = {f.bed} /\ m.bedTemp = OrElse(model.bedTemp, f.bed)
      BY ProfileApplied
    <3>3. f.nozzle \in Nat /\ f.bed \in Nat
      BY ProfilesTyped DEF ProfilesOf
    <3>4. QED
      BY <3>2, <3>3
  <2>3. QED
    BY <2>1, <2>2
<1>5. (nozzles # {}) <=> (beds # {})
  OBVIOUS
<1>6. (volume = "fail" <=> knownSize /\ never) /\ (volume = "pass" => knownSize /\ always)
  BY <1>1, <1>2, VolumeItemSound
<1>7. /\ nozzle = "fail" <=> knownNozzle /\ nozzleTooHot
      /\ nozzle = "pass" => knownNozzle /\ nozzleFine
  <2>1. HeatItemIs(nozzle, row.nozzleMax, model.nozzleTemp, nozzles, heats)
    <3> HIDE DEF p, m, nozzles
    <3> QED
      BY <1>1, <1>3, <1>4, HeatItemSound
  <2>2. QED
    BY <2>1 DEF HeatItemIs
<1>8. /\ bed = "fail" <=> knownBed /\ bedTooHot
      /\ bed = "pass" => knownBed /\ bedFine
  <2>1. HeatItemIs(bed, row.bedMax, model.bedTemp, beds, heats)
    <3> HIDE DEF p, m, beds
    <3> QED
      BY <1>1, <1>3, <1>4, HeatItemSound
  <2>2. QED
    BY <2>1 DEF HeatItemIs
<1>9. /\ CheckCompatibility(row, model) = "fail" <=> "fail" \in {volume, nozzle, bed}
      /\ CheckCompatibility(row, model) = "pass" => {volume, nozzle, bed} = {"pass"}
  BY VerdictOfItems DEF CheckCompatibility
<1> DEFINE prospects == Prospects(row, model, sizes, heats)
<1>10. /\ prospects.hopeless = (never \/ nozzleTooHot \/ bedTooHot)
       /\ prospects.certain = (always /\ nozzleFine /\ bedFine)
       /\ prospects.known =
            (/\ Unknown \notin {model.x, model.y, model.z, row.x, row.y, row.z,
                                row.nozzleMax, row.bedMax}
             /\ Unknown \notin {model.nozzleTemp, model.bedTemp} \/ nozzles # {})
  BY DEF Prospects, ProfilesOf
<1>11. prospects.known <=> knownSize /\ knownNozzle /\ knownBed
  BY <1>5, <1>10
<1> HIDE DEF p, m, nozzles, beds, volume, nozzle, bed, knownSize, never, always, knownNozzle,
             nozzleTooHot, nozzleFine, knownBed, bedTooHot, bedFine, prospects
<1>12. /\ CheckCompatibility(row, model) = "fail" => prospects.hopeless
       /\ CheckCompatibility(row, model) = "pass" => prospects.certain /\ prospects.known
       /\ prospects.known /\ prospects.hopeless => CheckCompatibility(row, model) = "fail"
  BY <1>6, <1>7, <1>8, <1>9, <1>10, <1>11
<1>13. QED
  BY <1>12 DEF SoundVerdict, prospects
=============================================================================
