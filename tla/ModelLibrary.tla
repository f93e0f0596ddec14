---------------------------- MODULE ModelLibrary ----------------------------
(***************************************************************************)
(* The model library: uploads and imports of model files                   *)
(* (backend/domains/models/routes.py, store.py and the analysis of         *)
(* service.py), and the checks of stored models against saved printers     *)
(* (backend/domains/compatibility/routes.py and store.py).                 *)
(*                                                                         *)
(* Saving one file takes two commits: enqueue_job commits the model, the   *)
(* file, its payload and the analysis job, and the geometry follows in a   *)
(* commit of its own.  An import saves its files one after another; a      *)
(* check saves its reports one after another.  Models and files are never  *)
(* deleted; printers are.                                                  *)
(***************************************************************************)
EXTENDS Naturals, Sequences, FiniteSets

CONSTANTS
    Importers,      \* threads that serve uploads and imports
    Checkers,       \* threads that serve compatibility checks
    Projects,       \* source URLs of projects, also found by site scans
    NoProject,      \* an upload without a source URL
    Contents,       \* contents the analysis understands
    Unreadable,     \* content it refuses with GeometryParseError
    LanPrinters,    \* ids of saved printers
    Facts,          \* what a printer's row says of its capabilities
    NoFacts,        \* a printer that has been deleted
    Stale,          \* an ORM instance expired by a commit
    MaxModels,      \* bound: rows ever inserted into "models"
    MaxFiles        \* bound: files of one import, candidates of one check

ASSUME LibraryAssumption ==
    /\ NoProject \notin Projects
    /\ Unreadable \notin Contents
    /\ {NoFacts, Stale} \cap Facts = {} /\ NoFacts # Stale
    /\ MaxModels \in Nat /\ MaxFiles \in Nat \ {0}

VARIABLES
    models,         \* committed models, in the order of their ids
    importer,       \* importer[t]: the upload or import of thread t
    cut,            \* ids whose request ended between its two commits (history)
    facts,          \* facts[p]: the row of printer p
    checker         \* checker[c]: the check of thread c

libraryVars == <<models, importer, cut, facts, checker>>

ModelIds == 1..MaxModels

\* A model and its only file; geometry: the model_geometry row is there.
Model == [project : Projects \cup {NoProject}, content : Contents, geometry : BOOLEAN]

\* async: an upload, which runs on the event loop and not in the pool;
\* files: what has been downloaded; saved: ids of the models committed for
\* files[1], files[2], ...
Importer ==
    [phase : {"idle", "download", "save", "geometry", "created", "refused", "failed"},
     async : BOOLEAN,
     project : Projects \cup {NoProject},
     files : UNION {[1..n -> Contents \cup {Unreadable}] : n \in 0..MaxFiles},
     saved : UNION {[1..n -> ModelIds] : n \in 0..MaxFiles}]

AtRest ==
    [phase |-> "idle", async |-> FALSE, project |-> NoProject, files |-> << >>, saved |-> << >>]

\* candidates: the project of each candidate still to be checked, NoProject
\* for a stored model; printers: all that were listed; left: those the first
\* candidate has not been checked against; geometry: its requirements come
\* from a stored geometry; loaded: the session's printer instances; now: the
\* printer of the report about to be saved; changed: printers whose rows have
\* changed since the session's last commit (history).
Checker ==
    [phase : {"require", "check", "save"},
     candidates : UNION {[1..n -> Projects \cup {NoProject}] : n \in 1..MaxFiles},
     printers : SUBSET LanPrinters, left : SUBSET LanPrinters, geometry : BOOLEAN,
     loaded : [LanPrinters -> Facts \cup {Stale, NoFacts}],
     now : SUBSET LanPrinters, changed : SUBSET LanPrinters]

NotChecking == [phase |-> "idle"]

LibraryTypeOK ==
    /\ models \in UNION {[1..n -> Model] : n \in 0..MaxModels}
    /\ importer \in [Importers -> Importer]
    /\ cut \subseteq ModelIds
    /\ facts \in [LanPrinters -> Facts \cup {NoFacts}]
    /\ checker \in [Checkers -> Checker \cup {NotChecking}]

InitLibrary ==
    /\ models = << >>
    /\ importer = [t \in Importers |-> AtRest]
    /\ cut = {}
    /\ facts \in [LanPrinters -> Facts \cup {NoFacts}]
    /\ checker = [c \in Checkers |-> NotChecking]

-----------------------------------------------------------------------------
(* Uploads and imports                                                     *)

Importing(t, phase) == importer[t].phase = phase

Finish(t, phase) == importer' = [importer EXCEPT ![t].phase = phase]

Answered(t) == importer[t].phase \in {"idle", "created", "refused", "failed"}

\* import_source_model_files
BeginImport(t) ==
    /\ Answered(t)
    /\ \E project \in Projects :
        importer' = [importer EXCEPT ![t] =
            [AtRest EXCEPT !.phase = "download", !.project = project]]
    /\ UNCHANGED <<models, cut, facts, checker>>

\* One file, or the models of an archive.  A list of its own: what a file
\* holds is found out when it is analysed.
DownloadFile(t) ==
    /\ Importing(t, "download")
    /\ \E n \in 1..(MaxFiles - Len(importer[t].files)) :
        \E batch \in [1..n -> Contents \cup {Unreadable}] :
            importer' = [importer EXCEPT ![t].files = @ \o batch]
    /\ UNCHANGED <<models, cut, facts, checker>>

\* SourceSiteRunnerError, or an archive that is broken, too large or empty.
DownloadFails(t) ==
    /\ Importing(t, "download")
    /\ Finish(t, "refused")
    /\ UNCHANGED <<models, cut, facts, checker>>

DownloadsDone(t) ==
    /\ Importing(t, "download")
    /\ importer[t].files # << >>
    /\ Finish(t, "save")
    /\ UNCHANGED <<models, cut, facts, checker>>

\* upload_model and import_downloaded_model_file: one file.  From here on the
\* handler does not await, so no other upload is between its commits.
BeginUpload(t) ==
    /\ Answered(t)
    /\ \A u \in Importers : importer[u].async => Answered(u)
    /\ \E project \in Projects \cup {NoProject}, file \in Contents \cup {Unreadable} :
        importer' = [importer EXCEPT ![t] =
            [phase |-> "save", async |-> TRUE, project |-> project,
             files |-> << file >>, saved |-> << >>]]
    /\ UNCHANGED <<models, cut, facts, checker>>

NextFile(t) == importer[t].files[Len(importer[t].saved) + 1]

AllSaved(t) == Len(importer[t].saved) = Len(importer[t].files)

\* GeometryParseError: 400, and the models saved so far stay.
RefuseFile(t) ==
    /\ Importing(t, "save")
    /\ ~ AllSaved(t)
    /\ NextFile(t) = Unreadable
    /\ Finish(t, "refused")
    /\ UNCHANGED <<models, cut, facts, checker>>

\* _save_analyzed_model, up to the commit of enqueue_job.
CommitModel(t) ==
    /\ Importing(t, "save")
    /\ ~ AllSaved(t)
    /\ NextFile(t) # Unreadable
    /\ Len(models) < MaxModels
    /\ models' = Append(models,
        [project |-> importer[t].project, content |-> NextFile(t), geometry |-> FALSE])
    /\ importer' = [importer EXCEPT ![t].phase = "geometry", ![t].saved = Append(@, Len(models) + 1)]
    /\ UNCHANGED <<cut, facts, checker>>

InFlight(t) == importer[t].saved[Len(importer[t].saved)]

\* The geometry stored with the first file of the import (a mutant).
CommitGeometryOfFirst(t) ==
    /\ Importing(t, "geometry")
    /\ models' = [models EXCEPT ![importer[t].saved[1]].geometry = TRUE]
    /\ Finish(t, "save")
    /\ UNCHANGED <<cut, facts, checker>>

\* ... and the commit of the geometry and of the file's job id.
CommitGeometry(t) ==
    /\ Importing(t, "geometry")
    /\ models' = [models EXCEPT ![InFlight(t)].geometry = TRUE]
    /\ Finish(t, "save")
    /\ UNCHANGED <<cut, facts, checker>>

AnswerCreated(t) ==
    /\ Importing(t, "save")
    /\ AllSaved(t)
    /\ Finish(t, "created")
    /\ UNCHANGED <<models, cut, facts, checker>>

\* One of the two commits fails: nothing of it is kept, and the answer is 500.
CommitFails(t) ==
    /\ importer[t].phase \in {"save", "geometry"}
    /\ ~ (Importing(t, "save") /\ AllSaved(t))
    /\ cut' = IF Importing(t, "geometry") THEN cut \cup {InFlight(t)} ELSE cut
    /\ Finish(t, "failed")
    /\ UNCHANGED <<models, facts, checker>>

-----------------------------------------------------------------------------
(* Compatibility checks                                                    *)

Listed == {p \in LanPrinters : facts[p] # NoFacts}

\* A row changes under the checks in progress.
WriteFacts(p, f) ==
    /\ facts' = [facts EXCEPT ![p] = f]
    /\ checker' = [c \in Checkers |->
        IF checker[c] = NotChecking THEN NotChecking
        ELSE [checker[c] EXCEPT !.changed = @ \cup {p}]]
    /\ UNCHANGED <<models, importer, cut>>

EditPrinter(p) ==
    /\ facts[p] # NoFacts
    /\ \E f \in Facts \ {facts[p]} : WriteFacts(p, f)

DeleteLanPrinter(p) ==
    /\ facts[p] # NoFacts
    /\ WriteFacts(p, NoFacts)

StartCheck(c, candidates, phase) ==
    /\ checker[c] = NotChecking
    /\ \E printers \in SUBSET Listed \ {{}} :
        checker' = [checker EXCEPT ![c] =
            [phase |-> phase, candidates |-> candidates, printers |-> printers,
             left |-> printers, geometry |-> phase = "check",
             loaded |-> [p \in LanPrinters |-> IF p \in printers THEN facts[p] ELSE Stale],
             now |-> {}, changed |-> {}]]
    /\ UNCHANGED <<models, importer, cut, facts>>

\* run_compatibility_checks: the candidates of a finished scan; 404 when there
\* is none, or no printer, and nothing happens.
BeginScanCheck(c) ==
    \E n \in 1..MaxFiles : \E projects \in [1..n -> Projects] :
        StartCheck(c, projects, "require")

\* run_model_compatibility_checks: 400 for a model without a geometry.
BeginModelCheck(c) ==
    /\ \E i \in DOMAIN models : models[i].geometry
    /\ StartCheck(c, << NoProject >>, "check")

ModelsOf(project) == {i \in DOMAIN models : models[i].project = project}

\* requirements_for_scan_result: the geometry of the newest model of the
\* project, else the metadata of the scan.  created_at is the start of the
\* transaction that inserted the row, so the last id need not be the newest.
LoadRequirements(c) ==
    /\ checker[c].phase = "require"
    /\ LET found == ModelsOf(Head(checker[c].candidates)) IN
        \E geometry \in IF found = {} THEN {FALSE} ELSE {models[i].geometry : i \in found} :
            checker' = [checker EXCEPT ![c].phase = "check", ![c].geometry = geometry]
    /\ UNCHANGED <<models, importer, cut, facts>>

\* printer_capabilities of the next printer: an expired instance is loaded
\* again, and the row may be gone.
CheckPrinter(c) ==
    /\ checker[c].phase = "check"
    /\ \E p \in checker[c].left :
        LET f == IF checker[c].loaded[p] = Stale THEN facts[p] ELSE checker[c].loaded[p] IN
        IF f = NoFacts THEN checker' = [checker EXCEPT ![c] = NotChecking]
        ELSE checker' = [checker EXCEPT ![c].phase = "save", ![c].left = @ \ {p},
                            ![c].now = {p}, ![c].loaded[p] = f]
    /\ UNCHANGED <<models, importer, cut, facts>>

\* What follows the commit of a report: the next printer, the next candidate
\* or the answer.
AfterReport(c, loaded) ==
    LET k == checker[c] IN
    IF k.left = {} /\ Len(k.candidates) = 1 THEN NotChecking
    ELSE [k EXCEPT !.phase = IF k.left = {} THEN "require" ELSE "check",
                   !.candidates = IF k.left = {} THEN Tail(@) ELSE @,
                   !.left = IF k.left = {} THEN k.printers ELSE @,
                   !.loaded = loaded, !.now = {}, !.changed = {}]

\* The commit keeps the instances as they were loaded (a mutant).
SaveReportKeeping(c) ==
    /\ checker[c].phase = "save"
    /\ checker' = [checker EXCEPT ![c] =
        IF ~ checker[c].now \subseteq Listed THEN NotChecking
        ELSE AfterReport(c, checker[c].loaded)]
    /\ UNCHANGED <<models, importer, cut, facts>>

\* _save_check_with_items: the commit expires every instance of the session;
\* the report of a deleted printer breaks the foreign key, and the answer is
\* 500.
SaveReport(c) ==
    /\ checker[c].phase = "save"
    /\ checker' = [checker EXCEPT ![c] =
        IF ~ checker[c].now \subseteq Listed THEN NotChecking
        ELSE AfterReport(c, [p \in LanPrinters |-> Stale])]
    /\ UNCHANGED <<models, importer, cut, facts>>

\* The process is killed.
KillLibrary ==
    /\ \/ \E t \in Importers : ~ Answered(t)
       \/ \E c \in Checkers : checker[c] # NotChecking
    /\ importer' = [t \in Importers |-> AtRest]
    /\ checker' = [c \in Checkers |-> NotChecking]
    /\ cut' = cut \cup {InFlight(t) : t \in {u \in Importers : Importing(u, "geometry")}}
    /\ UNCHANGED <<models, facts>>

NextLibrary ==
    \/ \E t \in Importers :
        \/ BeginImport(t) \/ DownloadFile(t) \/ DownloadFails(t) \/ DownloadsDone(t)
        \/ BeginUpload(t) \/ RefuseFile(t) \/ CommitModel(t) \/ CommitGeometry(t)
        \/ AnswerCreated(t) \/ CommitFails(t)
    \/ \E c \in Checkers :
        \/ BeginScanCheck(c) \/ BeginModelCheck(c) \/ LoadRequirements(c)
        \/ CheckPrinter(c) \/ SaveReport(c)
    \/ \E p \in LanPrinters : EditPrinter(p) \/ DeleteLanPrinter(p)
    \/ KillLibrary

LibrarySpec == InitLibrary /\ [][NextLibrary]_libraryVars

-----------------------------------------------------------------------------

\* What an import has stored is a prefix of what it has downloaded, each file
\* with its geometry except one whose second commit is missing: all of it when
\* the answer is 201, and when it is 400 everything before the file that
\* cannot be read, or nothing.
ImportIsPrefix ==
    \A t \in Importers :
        LET files == importer[t].files
            saved == importer[t].saved
            whole == {k \in DOMAIN saved :
                        models[saved[k]] = [project |-> importer[t].project,
                                            content |-> files[k], geometry |-> TRUE]}
        IN  /\ Len(saved) <= Len(files)
            /\ DOMAIN saved \ whole \subseteq
                IF importer[t].phase \in {"geometry", "failed"} THEN {Len(saved)} ELSE {}
            /\ Importing(t, "created") => AllSaved(t)
            /\ Importing(t, "refused") /\ saved # << >> => NextFile(t) = Unreadable

\* A check falls back to the metadata of the scan, although a model of the
\* project has a geometry, only because of another model of that project that
\* is between its two commits, or was left there by a request that ended.
GeometryIsUsed ==
    [][\A c \in Checkers :
        /\ checker[c].phase = "require" /\ checker'[c].phase = "check"
        /\ ~ checker'[c].geometry
        /\ \E i \in ModelsOf(Head(checker[c].candidates)) : models[i].geometry
        => \E i \in ModelsOf(Head(checker[c].candidates)) :
            i \in cut \/ \E t \in Importers : Importing(t, "geometry") /\ InFlight(t) = i]_libraryVars

\* However long a check has been running, the report it is about to save
\* describes the printer as its row says it is, unless the row has changed
\* since the report before it was committed.
FreshFacts ==
    \A c \in Checkers :
        checker[c].phase = "save" =>
            \A p \in checker[c].now \ checker[c].changed : checker[c].loaded[p] = facts[p]
=============================================================================
