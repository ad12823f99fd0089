----------------------------- MODULE CoverageFloors -----------------------------
(***************************************************************************)
(* scripts/check-coverage.py: a floor for each listed module, from what    *)
(* coverage measured.                                                      *)
(*                                                                         *)
(* A report is [files |-> sequence of [path, percent]], in the order of    *)
(* the JSON object, its paths distinct; a floors file is                   *)
(* [modules |-> function from listed paths to floors].  NULL stands for a  *)
(* file that is missing, unreadable or no JSON object, for a section that  *)
(* is no object, and for a module without a measured number.  Percentages  *)
(* and floors are counted in units of 1e-9.                                *)
(***************************************************************************)
EXTENDS ExitCodes

CONSTANTS
    Paths,
    Normal    \* what normalise makes of each path

Slack == 1

\* by_module: of files whose paths are normalised to one, the last is kept.
Entries(files, rel) ==
    { files[i].percent : i \in { j \in DOMAIN files :
          /\ Normal[files[j].path] = Normal[rel]
          /\ \A k \in DOMAIN files : Normal[files[k].path] = Normal[rel] => k <= j } }

Absent(files, rel) == Entries(files, rel) = {}

Unmeasured(files, rel) == NULL \in Entries(files, rel)

Below(files, rel, floor) ==
    \E got \in Entries(files, rel) : got # NULL /\ got + Slack < floor

\* check: every violation, not just the first.
FloorProblems(report, floors) ==
    IF floors.modules = NULL \/ DOMAIN floors.modules = {}
    THEN {<<"lists no modules">>}
    ELSE IF report.files = NULL
    THEN {<<"no files section">>}
    ELSE {<<"absent", rel>> : rel \in {m \in DOMAIN floors.modules : Absent(report.files, m)}}
         \cup {<<"no percent_covered", rel>> :
                  rel \in {m \in DOMAIN floors.modules : Unmeasured(report.files, m)}}
         \cup {<<"below", rel>> :
                  rel \in {m \in DOMAIN floors.modules :
                               Below(report.files, m, floors.modules[m])}}

\* load_json twice, then check.
CoverageExit(report, floors) ==
    IF floors = NULL \/ report = NULL THEN EXIT_CANNOT_VERIFY
    ELSE IF FloorProblems(report, floors) # {} THEN EXIT_FAIL
    ELSE EXIT_OK

-------------------------------------------------------------------------------
\* What the script promises of a listed module.
Covered(report, floors, rel) ==
    \E i \in DOMAIN report.files :
        /\ Normal[report.files[i].path] = Normal[rel]
        /\ \A k \in DOMAIN report.files :
               Normal[report.files[k].path] = Normal[rel] => k <= i
        /\ report.files[i].percent # NULL
        /\ report.files[i].percent + Slack >= floors.modules[rel]
===============================================================================
