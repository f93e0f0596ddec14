-------------------------- MODULE CompatibilityRules --------------------------
(***************************************************************************)
(* The verdict on a model and a printer (check_compatibility in            *)
(* backend/domains/compatibility/service.py, printer_capabilities in       *)
(* store.py): eleven items, each pass, warning or fail, rolled up to the   *)
(* worst.  Only a build volume or a temperature that is known to be too    *)
(* small fails; everything else that is missing or unknown warns.          *)
(*                                                                         *)
(* No state: the operators are checked against a reading of "the model can *)
(* be printed" that does not go through the items.                         *)
(***************************************************************************)
EXTENDS Integers

CONSTANT Unknown     \* None

ASSUME RulesAssumption == Unknown \notin Nat \cup STRING \cup BOOLEAN

\* MATERIAL_PROFILES
MaterialProfiles == {
    [name |-> "PLA",     nozzle |-> 210, bed |-> 60,  enclosure |-> FALSE, abrasive |-> FALSE, flexible |-> FALSE],
    [name |-> "PETG",    nozzle |-> 245, bed |-> 80,  enclosure |-> FALSE, abrasive |-> FALSE, flexible |-> FALSE],
    [name |-> "ABS",     nozzle |-> 255, bed |-> 105, enclosure |-> TRUE,  abrasive |-> FALSE, flexible |-> FALSE],
    [name |-> "ASA",     nozzle |-> 260, bed |-> 105, enclosure |-> TRUE,  abrasive |-> FALSE, flexible |-> FALSE],
    [name |-> "TPU",     nozzle |-> 230, bed |-> 50,  enclosure |-> FALSE, abrasive |-> FALSE, flexible |-> TRUE],
    [name |-> "NYLON",   nozzle |-> 270, bed |-> 90,  enclosure |-> TRUE,  abrasive |-> FALSE, flexible |-> FALSE],
    [name |-> "PA-CF",   nozzle |-> 285, bed |-> 100, enclosure |-> TRUE,  abrasive |-> TRUE,  flexible |-> FALSE],
    [name |-> "PETG-CF", nozzle |-> 260, bed |-> 80,  enclosure |-> FALSE, abrasive |-> TRUE,  flexible |-> FALSE]}

OrElse(value, default) == IF value = Unknown THEN default ELSE value

\* _apply_material_profile: what the model leaves open is the profile's.
ApplyMaterialProfile(model) ==
    LET profiles == {f \in MaterialProfiles : f.name = model.material} IN
    IF profiles = {} THEN model
    ELSE LET f == CHOOSE f \in profiles : TRUE IN
        [model EXCEPT !.nozzleTemp = OrElse(@, f.nozzle), !.bedTemp = OrElse(@, f.bed),
                      !.enclosure = @ \/ f.enclosure, !.abrasive = @ \/ f.abrasive,
                      !.flexible = @ \/ f.flexible]

\* _online_status
OnlineStatus(state) ==
    CASE state \in {"online", "ready", "printing", "paused", "idle"} -> TRUE
      [] state \in {"offline", "unreachable", "error"} -> FALSE
      [] OTHER -> Unknown

\* printer_capabilities: a row that lists no format stands for both.
PrinterCapabilities(row) ==
    [row EXCEPT !.formats = IF @ = {} THEN {"stl", "3mf"} ELSE @,
                !.colors = IF @ = Unknown \/ @ = 0 THEN 1 ELSE @,
                !.online = OnlineStatus(@)]

-----------------------------------------------------------------------------
(* The items                                                               *)

PassIf(ok, otherwise) == IF ok THEN "pass" ELSE otherwise

SmallerOf(a, b) == IF a <= b THEN a ELSE b
LargerOf(a, b) == IF a <= b THEN b ELSE a

\* The footprint compared side by side, without sorting (a mutant).
CheckBuildVolumeUnsorted(printer, model) ==
    IF Unknown \in {model.x, model.y, model.z, printer.x, printer.y, printer.z} THEN "warning"
    ELSE PassIf(model.x <= printer.x /\ model.y <= printer.y /\ model.z <= printer.z, "fail")

CheckBuildVolume(printer, model) ==
    IF Unknown \in {model.x, model.y, model.z, printer.x, printer.y, printer.z} THEN "warning"
    ELSE PassIf(/\ SmallerOf(model.x, model.y) <= SmallerOf(printer.x, printer.y)
                /\ LargerOf(model.x, model.y) <= LargerOf(printer.x, printer.y)
                /\ model.z <= printer.z, "fail")

CheckFileFormat(printer, model) ==
    PassIf(model.format # Unknown /\ (printer.formats = {} \/ model.format \in printer.formats),
           "warning")

CheckMaterial(printer, model) ==
    PassIf(model.material # Unknown /\ (printer.materials = {} \/ model.material \in printer.materials),
           "warning")

CheckNozzleDiameter(printer, model) ==
    IF Unknown \in {model.nozzle, printer.nozzle} THEN "warning"
    ELSE PassIf(model.nozzle >= printer.nozzle, "warning")

\* _check_nozzle_temperature and _check_bed_temperature
CheckTemperature(limit, required) ==
    IF Unknown \in {limit, required} THEN "warning" ELSE PassIf(required <= limit, "fail")

\* _check_enclosure, _check_abrasive_material, _check_flexible_material
CheckFeature(offered, required) == PassIf(required => offered, "warning")

CheckMultiMaterial(printer, model) ==
    PassIf(model.colors <= 1 \/ printer.colors >= model.colors, "warning")

CheckPrinterStatus(printer) == PassIf(printer.online = TRUE, "warning")

Items(printer, model) == {
    CheckBuildVolume(printer, model), CheckFileFormat(printer, model),
    CheckMaterial(printer, model), CheckNozzleDiameter(printer, model),
    CheckTemperature(printer.nozzleMax, model.nozzleTemp),
    CheckTemperature(printer.bedMax, model.bedTemp),
    CheckFeature(printer.enclosed, model.enclosure),
    CheckFeature(printer.hardened, model.abrasive),
    CheckFeature(printer.flexible, model.flexible),
    CheckMultiMaterial(printer, model), CheckPrinterStatus(printer)}

\* _rollup_status
Rollup(items) ==
    IF "fail" \in items THEN "fail" ELSE IF "warning" \in items THEN "warning" ELSE "pass"

\* check_compatibility
CheckCompatibility(row, model) == Rollup(Items(PrinterCapabilities(row), ApplyMaterialProfile(model)))

-----------------------------------------------------------------------------
(* What the verdict is held against                                        *)

\* Every value an unknown quantity may turn out to have.
Completions(value, range) == IF value = Unknown THEN range ELSE {value}

Footprints(r, range) ==
    [x : Completions(r.x, range), y : Completions(r.y, range), z : Completions(r.z, range)]

\* The model stands on the plate, turned by a quarter or not.
Fits(size, volume) ==
    /\ size.z <= volume.z
    /\ \/ size.x <= volume.x /\ size.y <= volume.y
       \/ size.y <= volume.x /\ size.x <= volume.y

\* The temperature a print needs: as stated, or typical of the material.
Needed(stated, typical, range) == Completions(stated, IF typical = {} THEN range ELSE typical)

\* pass, whatever is unknown turns out to be; fail, whatever it turns out to
\* be; or neither.
Prospects(row, model, sizes, heats) ==
    LET typical(field) == {f[field] : f \in {g \in MaterialProfiles : g.name = model.material}}
        nozzle == Needed(model.nozzleTemp, typical("nozzle"), heats)
        bed == Needed(model.bedTemp, typical("bed"), heats)
        nozzleMax == Completions(row.nozzleMax, heats)
        bedMax == Completions(row.bedMax, heats)
    IN  [hopeless |->
            \/ \A size \in Footprints(model, sizes), volume \in Footprints(row, sizes) :
                    ~ Fits(size, volume)
            \/ \A need \in nozzle, max \in nozzleMax : need > max
            \/ \A need \in bed, max \in bedMax : need > max,
         certain |->
            /\ \A size \in Footprints(model, sizes), volume \in Footprints(row, sizes) :
                    Fits(size, volume)
            /\ \A need \in nozzle, max \in nozzleMax : need <= max
            /\ \A need \in bed, max \in bedMax : need <= max,
         known |->
            /\ Unknown \notin {model.x, model.y, model.z, row.x, row.y, row.z,
                               row.nozzleMax, row.bedMax}
            /\ Unknown \notin {model.nozzleTemp, model.bedTemp} \/ typical("nozzle") # {}]

\* A fail is final: nothing the program does not know yet could make the model
\* printable.  A pass is a promise: everything that decides it is known and
\* says so.  And where everything is known, a model that cannot be printed is
\* not let off with a warning.
SoundVerdict(row, model, sizes, heats) ==
    LET verdict == CheckCompatibility(row, model)
        prospects == Prospects(row, model, sizes, heats)
    IN  /\ verdict = "fail" => prospects.hopeless
        /\ verdict = "pass" => prospects.certain /\ prospects.known
        /\ prospects.known /\ prospects.hopeless => verdict = "fail"
=============================================================================
