------------------------------ MODULE RepoContract ------------------------------
(***************************************************************************)
(* scripts/check-repo-contract.py: a repository against the contract for   *)
(* its type.                                                               *)
(*                                                                         *)
(* A repository is what the rules ask about:                               *)
(*   name, isDir, files (paths that exist), workflows (it has some),       *)
(*   links (pairs of a document and a relative target), resolved (those    *)
(*   that lead somewhere), rootDocs (names of *.md files at the root),     *)
(*   ignoresEnv (.gitignore has a line .env), and readme, which is NULL or *)
(*     letters, cyrillic (how many), contents (it has such a section),     *)
(*     targets (anchors linked from it), anchors (of its headings),        *)
(*     badges, placeholders (kinds that occur), mentions (rootDocs named). *)
(* A contract is NULL when the file is missing or is no JSON, otherwise    *)
(*   repos (types of repositories), types (required and exempt paths of    *)
(*   each), waived (repositories without the language rule).               *)
(***************************************************************************)
EXTENDS ExitCodes

MIN_LETTERS_FOR_LANGUAGE_RULE == 200

GOVERNANCE_DOCS ==
    {"README.md", "CHANGELOG.md", "LICENSE", "CONTRIBUTING.md", "SECURITY.md",
     "CODE_OF_CONDUCT.md", "AGENTS.md"}

\* rep.ok and rep.fail: a rule was applied to something, and held or not.
Assertion(rule, subject, holds) == [rule |-> rule, subject |-> subject, holds |-> holds]

Required(repo, spec) ==
    {Assertion("required-artifact", f, f \in repo.files) : f \in spec.required}

Exempt(repo, spec) ==
    {Assertion("exemption-violated", f, f \notin repo.files) : f \in spec.exemptions}

\* cyr / len(letters) > 0.20
CyrillicHeavy(text) ==
    text.letters >= MIN_LETTERS_FOR_LANGUAGE_RULE /\ 5 * text.cyrillic > text.letters

Language(text, waived) ==
    {Assertion("language-policy", "README.md", waived \/ ~CyrillicHeavy(text))}

Contents(text) ==
    {Assertion("toc-anchor", t, t \in text.anchors) : t \in text.targets}
    \cup {Assertion("toc", "README.md", text.contents)}

Badges(repo, text) ==
    {Assertion("badges", b, b \in text.badges) :
        b \in {"license"} \cup (IF repo.workflows THEN {"ci"} ELSE {})}

Placeholders(text) ==
    {Assertion("placeholder", p, p \notin text.placeholders) :
        p \in {"template", "angle", "todo", "lorem ipsum"}}

Readme(repo, waived) ==
    IF repo.readme = NULL
    THEN {Assertion("readme", "README.md", FALSE)}
    ELSE Language(repo.readme, waived) \cup Contents(repo.readme)
         \cup Badges(repo, repo.readme) \cup Placeholders(repo.readme)

Links(repo) == {Assertion("broken-link", l, l \in repo.resolved) : l \in repo.links}

\* Without a README nothing is mentioned.
Orphans(repo) ==
    {Assertion("orphan-doc", d, repo.readme # NULL /\ d \in repo.readme.mentions) :
        d \in repo.rootDocs \ GOVERNANCE_DOCS}

SingleHome(repo) ==
    {Assertion("coc-duplicate", "CODE_OF_CONDUCT.md",
               ~({"CODE_OF_CONDUCT.md", ".github/CODE_OF_CONDUCT.md"} \subseteq repo.files))}

Secrets(repo) ==
    {Assertion("secret", ".env", ".env" \notin repo.files),
     Assertion("gitignore", ".gitignore", repo.ignoresEnv)}

Report(repo, spec, waived) ==
    Required(repo, spec) \cup Exempt(repo, spec) \cup Readme(repo, waived)
    \cup Links(repo) \cup Orphans(repo) \cup SingleHome(repo) \cup Secrets(repo)

Violations(report) == {a \in report : ~a.holds}

HasType(repo, contract) ==
    repo.name \in DOMAIN contract.repos /\ contract.repos[repo.name] \in DOMAIN contract.types

ReportOf(repo, contract) ==
    Report(repo, contract.types[contract.repos[repo.name]], repo.name \in contract.waived)

\* main.  A contract that is not there, or is no JSON, and a repository without a type
\* end it by an exception, which exits 1.
ContractExit(arguments, repo, contract) ==
    IF arguments < 3 THEN EXIT_CANNOT_VERIFY
    ELSE IF contract = NULL THEN EXIT_FAIL
    ELSE IF ~repo.isDir THEN EXIT_CANNOT_VERIFY
    ELSE IF ~HasType(repo, contract) THEN EXIT_FAIL
    ELSE IF ReportOf(repo, contract) = {} THEN EXIT_CANNOT_VERIFY
    ELSE IF Violations(ReportOf(repo, contract)) # {} THEN EXIT_FAIL
    ELSE EXIT_OK

-------------------------------------------------------------------------------
\* What a green run promises of a repository.
Honours(repo, spec) ==
    /\ spec.required \subseteq repo.files
    /\ spec.exemptions \cap repo.files = {}
    /\ repo.readme # NULL
    /\ repo.readme.contents /\ repo.readme.targets \subseteq repo.readme.anchors
    /\ repo.workflows => "ci" \in repo.readme.badges
    /\ repo.links \subseteq repo.resolved
    /\ repo.rootDocs \subseteq repo.readme.mentions \cup GOVERNANCE_DOCS
    /\ ".env" \notin repo.files /\ repo.ignoresEnv
===============================================================================
