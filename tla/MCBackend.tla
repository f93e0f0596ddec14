------------------------------ MODULE MCBackend ------------------------------
(***************************************************************************)
(* The stores of the backend side by side: printer credentials, users and  *)
(* sessions, the key file, the model library with its compatibility        *)
(* checks, and the accounts of a source site.  They share no row, so a     *)
(* behaviour runs one of them, chosen at the start, and the others stay as *)
(* they are.  Threads, names and values of the components are the same     *)
(* model values, which makes one small symmetry group of them.             *)
(*                                                                         *)
(* The model library runs twice: "imports" has two importing threads and,  *)
(* with no printer saved, no checks; "library" has one next to the checks. *)
(* The compatibility rules have no state: each of their cases is an        *)
(* initial state.                                                          *)
(***************************************************************************)
EXTENDS PrinterCredentials, UserSessions, KeyFile, ModelLibrary, SiteAccounts,
        CompatibilityRules, TLC

CONSTANT SoleImporter   \* the thread that imports next to the checks

VARIABLES running, case

backendVars == <<vars, usersVars, keyFileVars, libraryVars, siteVars, running, case>>

Stores == {"credentials", "users", "keys", "imports", "library", "site"}

-----------------------------------------------------------------------------
(* Cases of the compatibility rules                                        *)

Plate ==
    [x |-> 2, y |-> 1, z |-> 1, materials |-> {"PLA"}, nozzleMax |-> 300, bedMax |-> 110,
     nozzle |-> 4, hardened |-> TRUE, flexible |-> TRUE, colors |-> 2,
     formats |-> {}, enclosed |-> TRUE, online |-> "idle"]

Piece ==
    [x |-> 1, y |-> 1, z |-> 1, material |-> "PLA", nozzleTemp |-> Unknown, bedTemp |-> Unknown,
     enclosure |-> FALSE, format |-> "stl", nozzle |-> 4, abrasive |-> FALSE, flexible |-> FALSE,
     colors |-> 1]

Lengths == {Unknown, 1, 2}

\* Either side of what PETG and ABS need, and between stated values.
Heats == {Unknown, 79, 80, 244, 245, 255}

VolumeCases ==
    {<<[Plate EXCEPT !.x = v[1], !.y = v[2], !.z = v[3]],
       [Piece EXCEPT !.x = v[4], !.y = v[5], !.z = v[6]]>> :
        v \in Lengths \X Lengths \X Lengths \X Lengths \X Lengths \X Lengths}

HeatCases ==
    {<<[Plate EXCEPT !.nozzleMax = h[1], !.bedMax = h[2]],
       [Piece EXCEPT !.material = h[3], !.nozzleTemp = h[4], !.bedTemp = h[5]]>> :
        h \in Heats \X Heats \X {Unknown, "PETG", "ABS", "WOOD"} \X Heats \X Heats}

FeatureCases ==
    {<<[Plate EXCEPT !.materials = f[1], !.formats = f[2], !.online = f[3],
                     !.hardened = f[4], !.flexible = f[4], !.enclosed = f[4], !.colors = f[5]],
       [Piece EXCEPT !.material = f[6], !.format = f[7], !.colors = 2, !.nozzle = f[8]]>> :
        f \in {{}, {"PLA"}, {"TPU", "PA-CF"}} \X {{}, {"3mf"}} \X {"idle", "offline", Unknown}
              \X BOOLEAN \X {Unknown, 1, 2} \X {Unknown, "PLA", "TPU", "PA-CF"}
              \X {Unknown, "stl", "3mf"} \X {Unknown, 3, 4}}

NoCase == << >>

VerdictSound ==
    case # NoCase => SoundVerdict(case[1], case[2], Lengths \ {Unknown}, Heats \ {Unknown})

-----------------------------------------------------------------------------

InitBackend ==
    /\ Init /\ InitUsers /\ InitKeyFile
    /\ \/ /\ running \in Stores /\ case = NoCase
          /\ InitLibrary /\ InitSite
          /\ running # "library" => facts = [p \in LanPrinters |-> NoFacts]
          /\ running # "site" => adapter = NoAdapter
          /\ running = "library" => facts \in [LanPrinters -> Facts]
       \/ /\ running = "rules"
          /\ case \in VolumeCases \cup HeatCases \cup FeatureCases
          /\ models = << >> /\ importer = [t \in Importers |-> AtRest] /\ cut = {}
          /\ facts = [p \in LanPrinters |-> NoFacts]
          /\ checker = [c \in Checkers |-> NotChecking]
          /\ profile = NoProfile /\ adapter = NoAdapter
          /\ work = [t \in SiteThreads |-> NoRequest]

RunCredentials ==
    /\ running = "credentials" /\ Next
    /\ UNCHANGED <<usersVars, keyFileVars, libraryVars, siteVars, running, case>>

RunUsers ==
    /\ running = "users" /\ NextUsers
    /\ UNCHANGED <<vars, keyFileVars, libraryVars, siteVars, running, case>>

RunKeyFile ==
    /\ running = "keys" /\ NextKeyFile
    /\ UNCHANGED <<vars, usersVars, libraryVars, siteVars, running, case>>

RunLibrary ==
    /\ running \in {"imports", "library"} /\ NextLibrary
    /\ running = "library" => \A t \in Importers \ {SoleImporter} : importer'[t] = AtRest
    /\ UNCHANGED <<vars, usersVars, keyFileVars, siteVars, running, case>>

RunSite ==
    /\ running = "site" /\ NextSite
    /\ UNCHANGED <<vars, usersVars, keyFileVars, libraryVars, running, case>>

NextBackend == RunCredentials \/ RunUsers \/ RunKeyFile \/ RunLibrary \/ RunSite

SpecBackend == InitBackend /\ [][NextBackend]_backendVars

\* One type invariant for the components; those that do not run stay as they
\* are in their initial states.
TypesOK ==
    /\ running \in {"credentials", "rules"} => TypeOK
    /\ running \in {"users", "rules"} => UsersTypeOK
    /\ running \in {"keys", "rules"} => KeyFileTypeOK
    /\ running \in {"imports", "library", "rules"} => LibraryTypeOK
    /\ running \in {"site", "rules"} => SiteTypeOK

Symmetry ==
    Permutations(UserThreads) \cup Permutations(UserNames) \cup Permutations(Passwords)
    \cup Permutations(UserTokens)
=============================================================================
