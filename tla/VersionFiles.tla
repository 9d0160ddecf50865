----------------------------- MODULE VersionFiles -----------------------------
(* The scripts of a checkout (scripts/): the version in its files, which
   version_bump writes and the pre-commit hook compares, the hook itself
   (install_hooks), and the environment in which a published package is
   tried (verify_testpypi_install).  Each writes files one after another,
   and may be broken off between two.

   A place that shows the version is found by the text around it.  Some
   rules say nothing of what comes after the version: they find 1.0.3 in
   1.0.3-dev0, too. *)
EXTENDS Integers, Sequences, FiniteSets

CONSTANTS Places,     \* _DOC_VERSION_RULES, in order
          OpenPlaces, \* those whose rule does not say what follows
          MaxPart, MaxDev, \* bounds of the numbers of a version
          MaxWrites,  \* bound: versions that are written
          Foreign,    \* hooks of others
          MaxRelease, \* bound: releases of the package
          Sources     \* where releases are: "testpypi", "local" (dist/), "pypi"

ASSUME VersionFilesAssumption ==
  /\ Places \in Seq(STRING) /\ OpenPlaces \subseteq {Places[n] : n \in DOMAIN Places}
  /\ \A m, n \in DOMAIN Places : Places[m] = Places[n] => m = n
  /\ {"init", "examples"} \cap {Places[n] : n \in DOMAIN Places} = {}
  /\ Foreign \cap {"none", "ours", "empty"} = {}
  /\ MaxPart \in Nat /\ MaxDev \in Nat /\ MaxWrites \in Nat /\ MaxRelease \in Nat

VARIABLES files,    \* [code, init, shown, examples]
          writing,  \* write_version under way: [old, new, next], next 0 if none
          writes,
          byHand,   \* bound: one file is edited by hand
          left,     \* history: what was edited, or left out by a write that
                    \* broke off, and not written since
          passed,   \* the files of the last commit the hook let through
          hooks,    \* [hook, runs, old, backup] of .git/hooks
          script,   \* install or uninstall under way: "none", or the next step
          replaced, \* history: foreign hooks that their owners replaced
          overwritten, \* history: foreign hooks that an uninstall replaced
          written,  \* history: foreign hooks
          torn,     \* history: an install broke off in the text of its hook
          venv,     \* [made, deps, package, from]: package 0 is none
          trial,    \* a verification under way: [at, source, fresh, wanted]
          newest,   \* the newest release of every source
          verified  \* what the last verification tried, and what it wanted

fileVars == <<files, writing, writes, byHand, left, passed>>
hookVars == <<hooks, script, replaced, overwritten, written, torn>>
trialVars == <<venv, trial, newest, verified>>

PlaceNames == {Places[n] : n \in DOMAIN Places}
NoDev == -1
NoVersion == [major |-> -1, minor |-> -1, patch |-> -1, dev |-> NoDev]
FileVersions == [major : 0..MaxPart, minor : 0..MaxPart, patch : 0..MaxPart,
                 dev : NoDev..MaxDev]
Base(v) == [v EXCEPT !.dev = NoDev]
FirstVersion == [major |-> 0, minor |-> 0, patch |-> 1, dev |-> NoDev]

----------------------------------------
(* What a commit message asks for (parse_commit_type): from where it came,
   how it begins, and its marks. *)
Messages == [source : {"", "merge", "squash"}, begins : {"Merge", "Revert", "prefix", "text"},
             type : {"feat", "fix", "docs"}, bang : BOOLEAN, footer : BOOLEAN]
CommitType(m) ==
  IF m.source \in {"merge", "squash"} \/ m.begins \in {"Merge", "Revert"} THEN "skip"
  ELSE IF m.footer \/ (m.begins = "prefix" /\ m.bang) THEN "breaking"
  ELSE IF m.begins = "text" \/ m.type = "fix" THEN "patch"
  ELSE IF m.type = "feat" THEN "feat" ELSE "no_change"

Raised(v, type) ==
  CASE type = "breaking" -> [v EXCEPT !.major = @ + 1, !.minor = 0, !.patch = 0]
    [] type = "feat"     -> [v EXCEPT !.minor = @ + 1, !.patch = 0]
    [] type = "patch"    -> [v EXCEPT !.patch = @ + 1]

(* bump_version: on a development branch only the number of -dev goes up. *)
Bumped(v, type, development) ==
  IF type \in {"skip", "no_change"} THEN v
  ELSE IF development THEN [v EXCEPT !.dev = @ + 1] ELSE Raised(Base(v), type)

----------------------------------------
(* write_version. *)

Text(v) == [version |-> v, more |-> FALSE]   \* more: something follows it
Agreeing(v) == [code |-> v, init |-> v, shown |-> [p \in PlaceNames |-> Text(v)],
                examples |-> Base(v)]
Idle == [old |-> NoVersion, new |-> NoVersion, next |-> 0]

FilesInit ==
  /\ files = Agreeing(FirstVersion) /\ writing = Idle /\ writes = 0 /\ byHand = FALSE
  /\ left = {} /\ passed = Agreeing(FirstVersion)

(* Is v found in a place?  (1.0.3 in 1.0.30 is beyond the bound.) *)
BeginsWith(text, v) == text.version = v \/ (v.dev = NoDev /\ Base(text.version) = v)
Finds(p, v) == IF p \in OpenPlaces THEN BeginsWith(files.shown[p], v)
               ELSE files.shown[p] = Text(v)

BeginWrite(new) ==
  /\ writing.next = 0 /\ writes < MaxWrites /\ files.code # NoVersion /\ new # files.code
  /\ writing' = [old |-> files.code, new |-> new, next |-> 1] /\ writes' = writes + 1
  /\ UNCHANGED <<files, byHand, left, passed>>

Writes(x) == /\ files' = x /\ writing' = [writing EXCEPT !.next = @ + 1]
             /\ UNCHANGED <<writes, byHand, passed>>

(* pyproject.toml. *)
WriteCode == writing.next = 1 /\ Writes([files EXCEPT !.code = writing.new]) /\ UNCHANGED left

(* What is still to be written from step n on; pyproject.toml says which
   version the others should have. *)
ToWrite(n) == (IF n <= 2 THEN {"init"} ELSE {}) \cup {"examples"}
              \cup {Places[k] : k \in {m \in DOMAIN Places : m >= n - 2}}

(* The write ends before step n, with x in the files; of what the file it
   was writing showed, it leaves nothing in `gone`. *)
EndsBefore(n, x, gone) ==
  /\ writing' = Idle /\ files' = x /\ left' = left \cup ToWrite(n) \cup gone
  /\ UNCHANGED <<writes, byHand, passed>>

(* __init__.py: without the field, an error, and the first file is written. *)
WriteInit ==
  /\ writing.next = 2
  /\ \/ /\ files.init # NoVersion /\ Writes([files EXCEPT !.init = writing.new])
        /\ left' = left \ {"init"}
     \/ files.init = NoVersion /\ EndsBefore(2, files, {})

(* What stands in a place when the old version is replaced. *)
NowShown(text) ==
  IF text.version = writing.old THEN [text EXCEPT !.version = writing.new]
  ELSE IF writing.new.dev = NoDev THEN [text EXCEPT !.version.major = writing.new.major,
                                                    !.version.minor = writing.new.minor,
                                                    !.version.patch = writing.new.patch]
  ELSE [version |-> writing.new, more |-> TRUE]

(* A mutant: the version that is looked for is the one in pyproject now. *)
WriteShownLate ==
  /\ writing.next \in 3..Len(Places) + 2
  /\ LET p == Places[writing.next - 2]
     IN  Writes(IF Finds(p, files.code) THEN [files EXCEPT !.shown[p] = NowShown(@)] ELSE files)
  /\ UNCHANGED left

(* A document, if the old version is found. *)
WriteShown ==
  /\ writing.next \in 3..Len(Places) + 2
  /\ LET p == Places[writing.next - 2]
     IN  Writes(IF Finds(p, writing.old) THEN [files EXCEPT !.shown[p] = NowShown(@)] ELSE files)
  /\ UNCHANGED left

(* _sync_readme_examples, and the end. *)
WriteExamples ==
  /\ writing.next = Len(Places) + 3 /\ writing' = Idle
  /\ files' = IF files.examples = Base(writing.old)
              THEN [files EXCEPT !.examples = Base(writing.new)] ELSE files
  /\ UNCHANGED <<writes, byHand, left, passed>>

(* The process ends between two files, or as write_text has emptied the
   file it writes: pyproject.toml, __init__.py, or a document with all the
   places it has. *)
BreaksOff ==
  /\ writing.next > 1 /\ EndsBefore(writing.next, files, {})
EmptiedCode == writing.next = 1 /\ EndsBefore(1, [files EXCEPT !.code = NoVersion], {})
EmptiedInit == writing.next = 2 /\ EndsBefore(2, [files EXCEPT !.init = NoVersion], {})
EmptiedDocument(gone) ==
  /\ writing.next > 2 /\ (writing.next < Len(Places) + 3 => Places[writing.next - 2] \in gone)
  /\ \E examples \in {files.examples, NoVersion} :
       EndsBefore(writing.next,
                  [files EXCEPT !.examples = examples,
                                !.shown = [p \in PlaceNames |-> IF p \in gone THEN Text(NoVersion)
                                                                ELSE @[p]]],
                  gone)

EditByHand(x, what) ==
  /\ writing.next = 0 /\ ~byHand /\ files' = x /\ byHand' = TRUE /\ left' = left \cup {what}
  /\ UNCHANGED <<writing, writes, passed>>

(* check_version_consistency. *)
Consistent ==
  files.code # NoVersion /\ files.init = files.code /\ \A p \in PlaceNames : Finds(p, files.code)

(* The hook: all version files go into the commit (stage_version_files). *)
Commit ==
  /\ Consistent /\ passed' = files /\ UNCHANGED <<files, writing, writes, byHand, left>>

FilesNext ==
  \/ \E m \in Messages, development \in BOOLEAN :
       LET new == Bumped(files.code, CommitType(m), development)
       IN  new \in FileVersions /\ BeginWrite(new)
  \/ files.code # NoVersion /\ BeginWrite(Base(files.code))   \* release_version
  \/ WriteCode \/ WriteInit \/ WriteShown \/ WriteExamples \/ Commit
  \/ BreaksOff \/ EmptiedCode \/ EmptiedInit \/ \E gone \in SUBSET PlaceNames : EmptiedDocument(gone)
  \/ EditByHand([files EXCEPT !.code = NoVersion], "code")
  \/ EditByHand([files EXCEPT !.init = NoVersion], "init")
  \/ \E p \in PlaceNames : EditByHand([files EXCEPT !.shown[p] = Text(NoVersion)], p)

----------------------------------------
(* install_hooks. *)

HooksInit ==
  /\ hooks = [hook |-> "none", runs |-> TRUE, old |-> "ours", backup |-> "none"]
  /\ script = "none" /\ replaced = {} /\ overwritten = {} /\ written = {} /\ torn = FALSE

HookStep(step, x) ==
  hooks' = x /\ script' = step /\ UNCHANGED <<replaced, overwritten, written, torn>>

(* Another tool, or the developer, puts a hook there. *)
OthersHook(f) ==
  /\ script = "none" /\ f \notin written /\ written' = written \cup {f}
  /\ hooks' = [hooks EXCEPT !.hook = f, !.runs = TRUE]
  /\ replaced' = replaced \cup ({hooks.hook} \cap Foreign)
  /\ UNCHANGED <<script, overwritten, torn>>

(* _remove_hook: only one with the marker. *)
Without(h) == IF h = "ours" THEN "none" ELSE h
Unmarked(h) == h \notin {"none", "ours"}

Install == script = "none" /\ HookStep("back up", [hooks EXCEPT !.old = Without(@)])

(* A mutant: an older backup is written over. *)
BackUpOver ==
  /\ script = "back up"
  /\ IF Unmarked(hooks.hook)
     THEN HookStep("open", [hooks EXCEPT !.backup = hooks.hook, !.hook = "none"])
     ELSE HookStep("open", hooks)

(* A hook without the marker is kept, unless there is a backup: then an
   error. *)
BackUp ==
  /\ script = "back up"
  /\ \/ ~Unmarked(hooks.hook) /\ HookStep("open", hooks)
     \/ Unmarked(hooks.hook) /\ hooks.backup # "none" /\ HookStep("none", hooks)
     \/ Unmarked(hooks.hook) /\ hooks.backup = "none"
        /\ HookStep("open", [hooks EXCEPT !.backup = hooks.hook, !.hook = "none"])

(* write_text empties the file, in its place, before it writes; a new file
   cannot be run. *)
OpenHook == script = "open" /\ HookStep("write", [hooks EXCEPT !.hook = "empty",
                                                      !.runs = hooks.hook = "ours" /\ hooks.runs])
WriteHook == script = "write" /\ HookStep("chmod", [hooks EXCEPT !.hook = "ours"])
MakeExecutable == script = "chmod" /\ HookStep("none", [hooks EXCEPT !.runs = TRUE])

Uninstall == script = "none" /\ HookStep("remove old", [hooks EXCEPT !.hook = Without(@)])
RemoveOld == script = "remove old" /\ HookStep("restore", [hooks EXCEPT !.old = Without(@)])

(* The backup is moved to its place, whatever is there. *)
Restore ==
  /\ script = "restore" /\ script' = "none" /\ UNCHANGED <<replaced, written, torn>>
  /\ IF hooks.backup = "none" THEN UNCHANGED <<hooks, overwritten>>
     ELSE /\ hooks' = [hooks EXCEPT !.hook = hooks.backup, !.backup = "none",
                                    !.runs = hooks.backup \in Foreign]
          /\ overwritten' = overwritten \cup ({hooks.hook} \cap Foreign)

ScriptBreaksOff ==
  /\ script # "none" /\ script' = "none" /\ torn' = (torn \/ script = "write")
  /\ UNCHANGED <<hooks, replaced, overwritten, written>>

HooksNext ==
  \/ Install \/ BackUp \/ OpenHook \/ WriteHook \/ MakeExecutable
  \/ Uninstall \/ RemoveOld \/ Restore \/ ScriptBreaksOff
  \/ \E f \in Foreign : OthersHook(f)

----------------------------------------
(* verify_testpypi_install. *)

NoTrial == [at |-> "none", source |-> "none", fresh |-> FALSE, wanted |-> 0]
NoVenv == [made |-> "no", deps |-> FALSE, package |-> 0, from |-> "none"]

TrialInit ==
  /\ venv = NoVenv /\ trial = NoTrial /\ newest = [s \in Sources |-> 0]
  /\ verified = [package |-> 0, from |-> "none", wanted |-> 0, source |-> "none", fresh |-> FALSE]

PublishRelease(s) ==
  /\ newest[s] < MaxRelease /\ newest' = [newest EXCEPT ![s] = @ + 1]
  /\ UNCHANGED <<venv, trial, verified>>

(* ensure_venv begins to make one, if there is no directory. *)
Try(s, install) ==
  /\ trial.at = "none"
  /\ trial' = [at |-> IF venv.made = "no" THEN "making" ELSE IF install THEN "deps" ELSE "run",
               source |-> s, fresh |-> venv.made = "no", wanted |-> newest[s]]
  /\ venv' = [venv EXCEPT !.made = IF @ = "no" THEN "partly" ELSE @]
  /\ UNCHANGED <<newest, verified>>

MakeVenv(install) ==
  /\ trial.at = "making" /\ venv' = [venv EXCEPT !.made = "yes"]
  /\ trial' = [trial EXCEPT !.at = IF install THEN "deps" ELSE "run"]
  /\ UNCHANGED <<newest, verified>>

(* install_package: pip leaves a package that is there as it is. *)
InstallDeps ==
  /\ trial.at = "deps" /\ venv.made = "yes"
  /\ venv' = [venv EXCEPT !.deps = trial.source = "testpypi" \/ @]
  /\ trial' = [trial EXCEPT !.at = "package"] /\ UNCHANGED <<newest, verified>>

(* Where pip looks: for a local trial in dist/ and, for the dependencies,
   on PyPI, which has releases of the package as well. *)
LooksIn(source) == {source} \cup (IF source = "local" THEN {"pypi"} \cap Sources ELSE {})

(* The newest it finds; of two equal ones, either. *)
InstallPackage ==
  /\ trial.at = "package" /\ newest[trial.source] > 0
  /\ \E s \in LooksIn(trial.source) :
       /\ \A u \in LooksIn(trial.source) : newest[u] <= newest[s]
       /\ venv' = IF venv.package > 0 THEN [venv EXCEPT !.deps = TRUE]
                  ELSE [venv EXCEPT !.package = newest[s], !.from = s, !.deps = TRUE]
  /\ trial' = [trial EXCEPT !.at = "run"] /\ UNCHANGED <<newest, verified>>

RunVerify ==
  /\ trial.at = "run" /\ venv.made = "yes" /\ venv.package > 0 /\ venv.deps
  /\ verified' = [package |-> venv.package, from |-> venv.from, wanted |-> trial.wanted,
                  source |-> trial.source, fresh |-> trial.fresh]
  /\ trial' = NoTrial /\ UNCHANGED <<venv, newest>>

(* Any step may fail, and the environment stays as it is. *)
TrialFails == trial.at # "none" /\ trial' = NoTrial /\ UNCHANGED <<venv, newest, verified>>

DeleteVenv ==
  /\ trial.at = "none" /\ venv.made # "no"
  /\ venv' = NoVenv /\ UNCHANGED <<trial, newest, verified>>

TrialNext ==
  \/ InstallDeps \/ InstallPackage \/ RunVerify \/ TrialFails \/ DeleteVenv
  \/ \E s \in Sources : PublishRelease(s)
  \/ \E install \in BOOLEAN : MakeVenv(install) \/ \E s \in Sources \ {"pypi"} : Try(s, install)

----------------------------------------
(* Properties. *)

(* Between two writes everything that names the version agrees with
   pyproject, the examples with its base - but for what was edited by hand
   or left out by a write that broke off.  The next write brings
   __init__.py back, if it still has the field; a document stays behind,
   and as an open place it may get a mixture: the next write looks for the
   version that only pyproject had.  A commit that the hook let through
   shows the version everywhere, but for places without an end, where more
   may follow it (write_version, check_version_consistency). *)
VersionsAgree ==
  /\ writing.next = 0 /\ files.code # NoVersion =>
       /\ files.init = files.code \/ "init" \in left
       /\ files.examples = Base(files.code) \/ "examples" \in left
       /\ \A p \in PlaceNames \ left : files.shown[p] = Text(files.code)
  /\ passed.init = passed.code
  /\ \A p \in PlaceNames : passed.shown[p] = Text(passed.code)
                           \/ (p \in OpenPlaces /\ BeginsWith(passed.shown[p], passed.code))

(* A hook of somebody else is in its place or in the backup and can be
   run, unless its owner replaced it, or an uninstall moved the backup over
   it; ours is never the backup.  A hook is whole, but while an install
   writes it, and after one that broke off there: the empty file, which has
   no marker, is kept from then on like a hook of somebody else (install,
   uninstall). *)
HooksKept ==
  /\ written \ (replaced \cup overwritten) \subseteq {hooks.hook, hooks.backup}
  /\ hooks.backup # "ours"
  /\ hooks.hook \in Foreign => hooks.runs
  /\ hooks.backup = "empty" => torn
  /\ hooks.hook = "empty" => torn \/ script = "write"

(* What the script says of itself (install_hooks.py:24): it overwrites no
   hook of others.  An uninstall beside a backup does: not checked. *)
OthersUntouched == overwritten = {}

(* What was tried in an environment made for the trial is at least as new
   as what was there when the trial began, and it is from where the trial
   asked for it, or, asked for dist/, from PyPI, when PyPI has no older
   release (ensure_venv, install_package). *)
TriedNewest ==
  verified.fresh => verified.package >= verified.wanted /\ verified.from \in LooksIn(verified.source)

(* What the option says (verify_testpypi_install.py:186, "--no-index"): a
   local trial tries dist/.  The index of PyPI is given all the same: not
   checked. *)
TriedLocal == verified.fresh /\ verified.source = "local" => verified.from = "local"

(* Files agree on the version but for what is named, hooks of others are
   kept but for what is named, and what is tried is no older than what was
   published. *)
ScriptsSound == VersionsAgree /\ HooksKept /\ TriedNewest
=============================================================================
