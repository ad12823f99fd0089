------------------------------- MODULE GateProofs -------------------------------
(***************************************************************************)
(* What a green run of the three gates of the repository says, for every   *)
(* repository, report and compose file.                                    *)
(***************************************************************************)
EXTENDS CoverageFloors, RepoContract, ComposeGate, TLAPS

-------------------------------------------------------------------------------
(* scripts/check-coverage.py                                               *)

\* Files whose paths are normalised to one leave one entry, the last.
LEMMA OneEntry ==
    ASSUME NEW files, DOMAIN files \subseteq Int, NEW rel,
           NEW x \in Entries(files, rel), NEW y \in Entries(files, rel)
    PROVE  x = y
<1> DEFINE Last(i) == /\ i \in DOMAIN files
                      /\ Normal[files[i].path] = Normal[rel]
                      /\ \A k \in DOMAIN files : Normal[files[k].path] = Normal[rel] => k <= i
<1>1. PICK i : Last(i) /\ x = files[i].percent
  BY DEF Entries
<1>2. PICK j : Last(j) /\ y = files[j].percent
  BY DEF Entries
<1>3. i <= j /\ j <= i /\ i \in Int /\ j \in Int
  BY <1>1, <1>2
<1>4. i = j
  BY <1>3
<1> QED BY <1>1, <1>2, <1>4

\* "every listed module meets its floor" (check-coverage.py:35) is what exit code 0
\* says, no more and no less, once both files are there and list something.
THEOREM GreenMeansCovered ==
    ASSUME NEW report, NEW floors, report # NULL, floors # NULL,
           floors.modules # NULL, DOMAIN floors.modules # {},
           report.files # NULL, DOMAIN report.files \subseteq Int,
           \A i \in DOMAIN report.files : report.files[i].percent \in Int \cup {NULL},
           \A rel \in DOMAIN floors.modules : floors.modules[rel] \in Int,
           NULL \notin Int
    PROVE  CoverageExit(report, floors) = EXIT_OK
               <=> \A rel \in DOMAIN floors.modules : Covered(report, floors, rel)
<1> DEFINE files == report.files
           Bad(rel) == \/ Absent(files, rel)
                       \/ Unmeasured(files, rel)
                       \/ Below(files, rel, floors.modules[rel])
<1>1. CoverageExit(report, floors) = EXIT_OK
          <=> \A rel \in DOMAIN floors.modules : ~Bad(rel)
  <2>1. CoverageExit(report, floors) = EXIT_OK <=> FloorProblems(report, floors) = {}
    BY DEF CoverageExit, EXIT_OK, EXIT_FAIL, EXIT_CANNOT_VERIFY
  <2>2. FloorProblems(report, floors) = {}
            <=> \A rel \in DOMAIN floors.modules : ~Bad(rel)
    <3> HIDE DEF Bad
    <3>1. ASSUME NEW rel \in DOMAIN floors.modules, Bad(rel)
          PROVE  FloorProblems(report, floors) # {}
      BY <3>1 DEF FloorProblems, Bad
    <3>2. ASSUME \A rel \in DOMAIN floors.modules : ~Bad(rel)
          PROVE  FloorProblems(report, floors) = {}
      BY <3>2 DEF FloorProblems, Bad
    <3> QED BY <3>1, <3>2
  <2> HIDE DEF Bad
  <2> QED BY <2>1, <2>2
<1>2. ASSUME NEW rel \in DOMAIN floors.modules
      PROVE  ~Bad(rel) <=> Covered(report, floors, rel)
  <2>1. ASSUME ~Bad(rel) PROVE Covered(report, floors, rel)
    <3>1. PICK got : got \in Entries(files, rel)
      BY <2>1 DEF Absent
    <3>2. got # NULL /\ ~(got + Slack < floors.modules[rel])
      BY <2>1, <3>1 DEF Unmeasured, Below
    <3>3. got \in Int
      BY <3>1, <3>2 DEF Entries
    <3>4. got + Slack >= floors.modules[rel]
      BY <3>2, <3>3 DEF Slack
    <3> QED BY <3>1, <3>2, <3>4 DEF Entries, Covered
  <2>2. ASSUME Covered(report, floors, rel) PROVE ~Bad(rel)
    <3>1. PICK got \in Entries(files, rel) :
              got # NULL /\ got + Slack >= floors.modules[rel]
      BY <2>2 DEF Covered, Entries
    <3>2. got \in Int
      BY <3>1 DEF Entries
    <3>3. \A x \in Entries(files, rel) : x = got
      BY <3>1, OneEntry
    <3>4. ~(got + Slack < floors.modules[rel])
      BY <3>1, <3>2 DEF Slack
    <3> QED BY <3>1, <3>3, <3>4 DEF Absent, Unmeasured, Below
  <2> QED BY <2>1, <2>2
<1> QED BY <1>1, <1>2

\* "raising service.py further must not buy permission to leave handlers.py untested"
\* (check-coverage.py:29): whatever happens to the other modules of a report, and to
\* the other floors, a listed module that is below its floor keeps the gate red.
THEOREM NoPermissionBought ==
    ASSUME NEW report, NEW floors, NEW better, NEW relaxed, NEW rel,
           report # NULL, better # NULL, floors # NULL, relaxed # NULL,
           report.files # NULL, better.files # NULL,
           floors.modules # NULL, relaxed.modules # NULL,
           rel \in DOMAIN floors.modules, rel \in DOMAIN relaxed.modules,
           floors.modules[rel] = relaxed.modules[rel],
           Entries(report.files, rel) = Entries(better.files, rel),
           \/ Absent(report.files, rel)
           \/ Unmeasured(report.files, rel)
           \/ Below(report.files, rel, floors.modules[rel])
    PROVE  CoverageExit(report, floors) = EXIT_FAIL /\ CoverageExit(better, relaxed) = EXIT_FAIL
<1>1. \/ Absent(better.files, rel)
      \/ Unmeasured(better.files, rel)
      \/ Below(better.files, rel, relaxed.modules[rel])
  BY DEF Absent, Unmeasured, Below
<1>2. FloorProblems(report, floors) # {}
  BY DEF FloorProblems
<1>3. FloorProblems(better, relaxed) # {}
  BY <1>1 DEF FloorProblems
<1> QED BY <1>2, <1>3 DEF CoverageExit

-------------------------------------------------------------------------------
(* scripts/check-repo-contract.py                                          *)

\* A green run has seen every required file and no exempt one, no .env and a
\* .gitignore that keeps it out, and a README whose anchors and links lead somewhere.
THEOREM GreenMeansHonoured ==
    ASSUME NEW arguments, NEW repo, NEW contract,
           ContractExit(arguments, repo, contract) = EXIT_OK
    PROVE  /\ contract # NULL /\ repo.isDir /\ HasType(repo, contract)
           /\ Honours(repo, contract.types[contract.repos[repo.name]])
<1> DEFINE spec == contract.types[contract.repos[repo.name]]
           report == ReportOf(repo, contract)
<1>1. /\ contract # NULL /\ repo.isDir /\ HasType(repo, contract)
      /\ Violations(report) = {}
  BY DEF ContractExit, EXIT_OK, EXIT_FAIL, EXIT_CANNOT_VERIFY
<1> HIDE DEF spec
<1>2. \A a \in report : a.holds
  BY <1>1 DEF Violations
<1>3. report = Required(repo, spec) \cup Exempt(repo, spec)
                  \cup Readme(repo, repo.name \in contract.waived)
                  \cup Links(repo) \cup Orphans(repo) \cup SingleHome(repo) \cup Secrets(repo)
  BY DEF ReportOf, Report, spec
<1> HIDE DEF report
<1>4. spec.required \subseteq repo.files
  <2> SUFFICES ASSUME NEW f \in spec.required PROVE f \in repo.files
    OBVIOUS
  <2>1. Assertion("required-artifact", f, f \in repo.files) \in report
    BY <1>3 DEF Required
  <2> QED BY <1>2, <2>1 DEF Assertion
<1>5. spec.exemptions \cap repo.files = {}
  <2> SUFFICES ASSUME NEW f \in spec.exemptions PROVE f \notin repo.files
    OBVIOUS
  <2>1. Assertion("exemption-violated", f, f \notin repo.files) \in report
    BY <1>3 DEF Exempt
  <2> QED BY <1>2, <2>1 DEF Assertion
<1>6. repo.readme # NULL
  <2> SUFFICES ASSUME repo.readme = NULL PROVE FALSE
    OBVIOUS
  <2>1. Assertion("readme", "README.md", FALSE) \in report
    BY <1>3 DEF Readme
  <2> QED BY <1>2, <2>1 DEF Assertion
<1>7. Contents(repo.readme) \subseteq report /\ Badges(repo, repo.readme) \subseteq report
  BY <1>3, <1>6 DEF Readme
<1>8. repo.readme.contents
  <2>1. Assertion("toc", "README.md", repo.readme.contents) \in report
    BY <1>7 DEF Contents
  <2> QED BY <1>2, <2>1 DEF Assertion
<1>9. repo.readme.targets \subseteq repo.readme.anchors
  <2> SUFFICES ASSUME NEW t \in repo.readme.targets PROVE t \in repo.readme.anchors
    OBVIOUS
  <2>1. Assertion("toc-anchor", t, t \in repo.readme.anchors) \in report
    BY <1>7 DEF Contents
  <2> QED BY <1>2, <2>1 DEF Assertion
<1>10. repo.workflows => "ci" \in repo.readme.badges
  <2> SUFFICES ASSUME repo.workflows PROVE "ci" \in repo.readme.badges
    OBVIOUS
  <2>1. Assertion("badges", "ci", "ci" \in repo.readme.badges) \in report
    BY <1>7 DEF Badges
  <2> QED BY <1>2, <2>1 DEF Assertion
<1>11. repo.links \subseteq repo.resolved
  <2> SUFFICES ASSUME NEW l \in repo.links PROVE l \in repo.resolved
    OBVIOUS
  <2>1. Assertion("broken-link", l, l \in repo.resolved) \in report
    BY <1>3 DEF Links
  <2> QED BY <1>2, <2>1 DEF Assertion
<1>12. repo.rootDocs \subseteq repo.readme.mentions \cup GOVERNANCE_DOCS
  <2> SUFFICES ASSUME NEW d \in repo.rootDocs \ GOVERNANCE_DOCS
               PROVE  d \in repo.readme.mentions
    OBVIOUS
  <2>1. Assertion("orphan-doc", d, repo.readme # NULL /\ d \in repo.readme.mentions) \in report
    BY <1>3 DEF Orphans
  <2> QED BY <1>2, <2>1 DEF Assertion
<1>13. ".env" \notin repo.files /\ repo.ignoresEnv
  <2>1. /\ Assertion("secret", ".env", ".env" \notin repo.files) \in report
        /\ Assertion("gitignore", ".gitignore", repo.ignoresEnv) \in report
    BY <1>3 DEF Secrets
  <2>2. ".env" \notin repo.files
    BY <1>2, <2>1 DEF Assertion
  <2>3. repo.ignoresEnv
    BY <1>2, <2>1 DEF Assertion
  <2> QED BY <2>2, <2>3
<1>14. Honours(repo, spec)
  BY <1>4, <1>5, <1>6, <1>8, <1>9, <1>10, <1>11, <1>12, <1>13 DEF Honours
<1> QED BY <1>1, <1>14 DEF spec

\* Exit code 2 is for "could not verify anything" (check-repo-contract.py:10): it comes
\* from the arguments and the root only.  The last refusal, for a run that checked
\* nothing, never happens, since some rules apply to every repository; and a contract
\* that cannot be read exits 1, like a violation.
THEOREM CannotVerifyMeansNoRoot ==
    ASSUME NEW arguments, NEW repo, NEW contract
    PROVE  ContractExit(arguments, repo, contract) = EXIT_CANNOT_VERIFY
               <=> arguments < 3 \/ (contract # NULL /\ ~repo.isDir)
<1>1. ReportOf(repo, contract) # {}
  BY DEF ReportOf, Report, SingleHome
<1> QED BY <1>1 DEF ContractExit, EXIT_OK, EXIT_FAIL, EXIT_CANNOT_VERIFY

-------------------------------------------------------------------------------
(* .github/validate_compose.py                                             *)

\* What a deployment relies on: the file it is given has no key twice, names its image
\* by a tag that must be set, hands the bot no certificate in either way, and publishes
\* its ports on the loopback only.
THEOREM PassMeansDeployable ==
    ASSUME NEW arguments, NEW file, NEW bot,
           ComposeExit(arguments, file, bot) = EXIT_OK
    PROVE  /\ ~HasDuplicates(file)
           /\ "required tag" \in file.bot["image"] /\ "fallback tag" \notin file.bot["image"]
           /\ EXPECTED_ENV \subseteq Keys(file.bot["environment"]) \ FORBIDDEN_ENV
           /\ "certificate" \notin file.bot["volumes"]
           /\ file.bot["ports"] \subseteq {"loopback"}
           /\ bot # NULL => file.network.name = bot
<1>1. /\ ~Malformed(file) /\ ~EnvironmentRefused(file.bot) /\ ~Pinned(file.bot)
      /\ FailedChecks(file, bot) = {}
  BY DEF ComposeExit, EXIT_OK, EXIT_FAIL, EXIT_CANNOT_VERIFY
<1>2. ~HasDuplicates(file)
  BY <1>1 DEF Malformed
<1>3. /\ EXPECTED_ENV \subseteq Keys(file.bot["environment"]) \ FORBIDDEN_ENV
      /\ "certificate" \notin file.bot["volumes"]
  BY <1>1 DEF EnvironmentRefused, Pinned
<1>4. \A c \in Checks(file, bot) : c.ok
  BY <1>1 DEF FailedChecks
<1>5. "required tag" \in file.bot["image"]
  <2>1. Check("image names the tag", "required tag" \in file.bot["image"]) \in Checks(file, bot)
    BY DEF Checks
  <2> QED BY <1>4, <2>1 DEF Check
<1>6. "fallback tag" \notin file.bot["image"]
  <2>1. Check("image has no fallback", "fallback tag" \notin file.bot["image"])
            \in Checks(file, bot)
    BY DEF Checks
  <2> QED BY <1>4, <2>1 DEF Check
<1>7. file.bot["ports"] \subseteq {"loopback"}
  <2>1. Check("ports", file.bot["ports"] # NULL /\ file.bot["ports"] \subseteq {"loopback"})
            \in Checks(file, bot)
    BY DEF Checks
  <2> QED BY <1>4, <2>1 DEF Check
<1>8. bot # NULL => file.network.name = bot
  <2>1. Check("network name", bot # NULL => file.network.name = bot) \in Checks(file, bot)
    BY DEF Checks
  <2> QED BY <1>4, <2>1 DEF Check
<1> QED BY <1>2, <1>3, <1>5, <1>6, <1>7, <1>8

\* Three of the listed checks repeat a refusal above them: no file is ever reported to
\* fail one of them.
THEOREM RepeatedChecksHold ==
    ASSUME NEW file, ~EnvironmentRefused(file.bot), ~Pinned(file.bot),
           NEW c \in RepeatedChecks(file.bot)
    PROVE  c.ok
<1>1. /\ EXPECTED_ENV \subseteq Keys(file.bot["environment"])
      /\ FORBIDDEN_ENV \cap Keys(file.bot["environment"]) = {}
      /\ "certificate" \notin file.bot["volumes"]
  BY DEF EnvironmentRefused, Pinned
<1>2. CASE c = Check("environment covers", EXPECTED_ENV \subseteq Keys(file.bot["environment"]))
  BY <1>1, <1>2 DEF Check
<1>3. CASE c = Check("environment without pin",
                     FORBIDDEN_ENV \cap Keys(file.bot["environment"]) = {})
  BY <1>1, <1>3 DEF Check
<1>4. CASE c = Check("no certificate mount", "certificate" \notin file.bot["volumes"])
  BY <1>1, <1>4 DEF Check
<1> QED BY <1>2, <1>3, <1>4, Zenon DEF RepeatedChecks
===============================================================================
