------------------------------ MODULE Releases ------------------------------
(* The release of a version after a pull request from dev was merged
   (scripts/release_after_merge.py): a run of the workflow per merge, in a
   checkout of its own, against the repository on GitHub.  Nothing keeps
   two runs apart.  A step is one command of git or one request.

   GitHub is external: it closes a pull request whose branch is deleted,
   and does not merge one whose version files conflict with main. *)
EXTENDS Naturals, Sequences

CONSTANTS Runs,        \* runs of the workflow, one per merged pull request
          NoRun,
          Titles,      \* bound: the types the title of each may have
          FirstVersion,
          MaxReruns,   \* bound: failed runs that are started again
          MaxNumber    \* bound: the numbers in a version

Versions == [major : 0..MaxNumber, minor : 0..MaxNumber, patch : 0..MaxNumber,
             dev : BOOLEAN]
CommitTypes == {"skip", "no_change", "breaking", "feat", "patch"}

ASSUME ReleasesAssumption ==
  /\ NoRun \notin Runs /\ Titles \in [Runs -> SUBSET CommitTypes]
  /\ FirstVersion \in Versions /\ MaxReruns \in Nat
  /\ MaxNumber \in Nat

VARIABLES main,     \* the version in each commit of main, oldest first
          branches, \* release branches on GitHub: who pushed the one of a version
          pull,     \* the pull request of each run
          tags,     \* the commit of main a tag is on; 0 is no tag
          run,      \* [at, base, version, head] of each run
          reruns

releaseVars == <<main, branches, pull, tags, run, reruns>>

Asleep == [at |-> "none", type |-> "patch", base |-> 0, version |-> FirstVersion,
           head |-> 0]

ReleaseInit ==
  /\ main = <<FirstVersion>>
  /\ branches = [v \in Versions |-> NoRun]
  /\ pull = [r \in Runs |-> "none"]
  /\ tags = [v \in Versions |-> 0]
  /\ run = [r \in Runs |-> Asleep]
  /\ reruns = 0

----------------------------------------
(* The version of a release. *)

Same(v) == [v EXCEPT !.dev = FALSE]

(* release_version: -dev is dropped, and the number the type of the commit
   asks for goes up; the same version back means that nothing is released. *)
ReleaseVersion(v, type) ==
  CASE type = "skip"      -> v
    [] type = "no_change" -> Same(v)
    [] type = "breaking"  -> [major |-> v.major + 1, minor |-> 0, patch |-> 0,
                              dev |-> FALSE]
    [] type = "feat"      -> [Same(v) EXCEPT !.minor = @ + 1, !.patch = 0]
    [] type = "patch"     -> [Same(v) EXCEPT !.patch = @ + 1]

(* A title that forgets to say so is breaking if a commit of the pull
   request is. *)
Detected(type) == IF type \in {"feat", "patch"} THEN {type, "breaking"} ELSE {type}

Step(r, from, to) ==
  /\ run[r].at = from
  /\ run' = [run EXCEPT ![r].at = to]
Fails(r) == run' = [run EXCEPT ![r] = [@ EXCEPT !.at = "failed", !.base = 0,
                                                !.head = 0]]

----------------------------------------

(* A pull request from dev is merged, with a title of some type. *)
MergeDev(r, type) ==
  /\ run[r].at = "none"
  /\ main' = Append(main, main[Len(main)])
  /\ run' = [run EXCEPT ![r] = [Asleep EXCEPT !.at = "queued", !.type = type]]
  /\ UNCHANGED <<branches, pull, tags, reruns>>

Rerun(r) ==
  /\ run[r].at = "failed" /\ reruns < MaxReruns
  /\ reruns' = reruns + 1
  /\ run' = [run EXCEPT ![r] = [Asleep EXCEPT !.at = "queued",
                                                !.type = run[r].type]]
  /\ pull' = [pull EXCEPT ![r] = "none"]
  /\ UNCHANGED <<main, branches, tags>>

(* main is checked out; a merge or a revert is not released. *)
Starts(r) ==
  /\ run[r].at = "queued"
  /\ run' = [run EXCEPT ![r].base = Len(main), ![r].at =
               IF run[r].type = "skip" THEN "nothing" ELSE "version"]
  /\ UNCHANGED <<main, branches, pull, tags, reruns>>

(* The version is written to the files of the checkout and committed. *)
Prepare(r) ==
  LET base == run[r].base
      next(type) == ReleaseVersion(main[base], type)
  IN  /\ run[r].at = "version"
      /\ \E type \in Detected(run[r].type) :
           /\ next(type) \in Versions
           /\ run' = [run EXCEPT ![r] = [run[r] EXCEPT
                !.at = IF next(type) = main[base] THEN "nothing" ELSE "commit",
                !.version = next(type)]]
      /\ UNCHANGED <<main, branches, pull, tags, reruns>>

LooksForBranch(r) ==
  /\ run[r].at = "commit"
  /\ Step(r, "commit", IF branches[run[r].version] = NoRun THEN "push" ELSE "delete")
  /\ UNCHANGED <<main, branches, pull, tags, reruns>>

\* A pull request is closed with its branch.
ClosedWith(v) ==
  [r \in Runs |-> IF pull[r] = "open" /\ branches[v] # NoRun /\ run[r].version = v
                  THEN "closed" ELSE pull[r]]

(* The branch is taken for one a failed run left, and deleted. *)
CleanStale(r) ==
  /\ run[r].at = "delete"
  /\ LET v == run[r].version
     IN  IF branches[v] = NoRun
         THEN Fails(r) /\ UNCHANGED <<branches, pull>>
         ELSE /\ Step(r, "delete", "push")
              /\ branches' = [branches EXCEPT ![v] = NoRun]
              /\ pull' = ClosedWith(v)
  /\ UNCHANGED <<main, tags, reruns>>

Push(r) ==
  /\ run[r].at = "push"
  /\ IF branches[run[r].version] # NoRun
     THEN Fails(r) /\ UNCHANGED branches
     ELSE /\ Step(r, "push", "pull")
          /\ branches' = [branches EXCEPT ![run[r].version] = r]
  /\ UNCHANGED <<main, pull, tags, reruns>>

(* GitHub wants a branch, and has one open pull request for it. *)
PullRefused(v) ==
  \/ branches[v] = NoRun
  \/ \E q \in Runs : pull[q] = "open" /\ run[q].version = v

CreatePull(r) ==
  /\ run[r].at = "pull"
  /\ IF PullRefused(run[r].version)
     THEN Fails(r) /\ UNCHANGED pull
     ELSE Step(r, "pull", "checks") /\ pull' = [pull EXCEPT ![r] = "open"]
  /\ UNCHANGED <<main, branches, tags, reruns>>

(* wait_for_checks: they pass, or they fail or take too long. *)
WaitForChecks(r) ==
  /\ run[r].at = "checks"
  /\ Step(r, "checks", "merge") \/ Fails(r)
  /\ UNCHANGED <<main, branches, pull, tags, reruns>>

\* main has another version than the commit was made on and makes it.
Conflicts(r) == main[Len(main)] \notin {main[run[r].base], run[r].version}

MergePull(r) ==
  /\ run[r].at = "merge"
  /\ IF pull[r] = "open" /\ ~Conflicts(r)
     THEN /\ Step(r, "merge", "sync")
          /\ main' = Append(main, run[r].version)
          /\ pull' = [pull EXCEPT ![r] = "merged"]
     ELSE Fails(r) /\ UNCHANGED <<main, pull>>
  /\ UNCHANGED <<branches, tags, reruns>>

(* A mutant: the tag goes on the commit that was made here. *)
StaysLocal(r) == run[r].base

Fetched(r) == Len(main)

SyncMain(r) ==
  /\ run[r].at = "sync"
  /\ run' = [run EXCEPT ![r].at = "look", ![r].head = Fetched(r)]
  /\ UNCHANGED <<main, branches, pull, tags, reruns>>

LooksForTag(r) ==
  /\ run[r].at = "look"
  /\ Step(r, "look", IF tags[run[r].version] = 0 THEN "tag" ELSE "clean")
  /\ UNCHANGED <<main, branches, pull, tags, reruns>>

PushTag(r) ==
  /\ run[r].at = "tag"
  /\ IF tags[run[r].version] = 0
     THEN /\ Step(r, "tag", "clean")
          /\ tags' = [tags EXCEPT ![run[r].version] = run[r].head]
     ELSE Fails(r) /\ UNCHANGED tags
  /\ UNCHANGED <<main, branches, pull, reruns>>

(* The branch, whoever pushed it, is deleted; a failure does not matter. *)
DeleteBranch(r) ==
  /\ Step(r, "clean", "released")
  /\ \/ UNCHANGED <<branches, pull>>
     \/ /\ branches' = [branches EXCEPT ![run[r].version] = NoRun]
        /\ pull' = ClosedWith(run[r].version)
  /\ UNCHANGED <<main, tags, reruns>>

(* A command fails, or the runner is lost. *)
RunFails(r) ==
  /\ run[r].at \notin {"none", "failed", "nothing", "released", "clean"}
  /\ Fails(r)
  /\ UNCHANGED <<main, branches, pull, tags, reruns>>

ReleaseNext ==
  \E r \in Runs :
    \/ \E type \in Titles[r] : MergeDev(r, type)
    \/ Rerun(r) \/ Starts(r) \/ Prepare(r) \/ LooksForBranch(r) \/ CleanStale(r) \/ Push(r)
    \/ CreatePull(r) \/ WaitForChecks(r) \/ MergePull(r) \/ SyncMain(r)
    \/ LooksForTag(r) \/ PushTag(r) \/ DeleteBranch(r) \/ RunFails(r)

ReleaseSpec == ReleaseInit /\ [][ReleaseNext]_releaseVars

ReleaseTypeOK ==
  /\ main \in Seq(Versions)
  /\ branches \in [Versions -> Runs \cup {NoRun}]
  /\ pull \in [Runs -> {"none", "open", "closed", "merged"}]
  /\ \A v \in Versions : tags[v] \in 0..Len(main)
  /\ \A r \in Runs :
     /\ run[r].base \in 0..Len(main)
     /\ run[r].head \in 0..Len(main)
     /\ run[r].version \in Versions /\ run[r].type \in CommitTypes
  /\ reruns \in 0..MaxReruns

Below(v, w) ==
  \/ v.major < w.major
  \/ v.major = w.major /\ v.minor < w.minor
  \/ v.major = w.major /\ v.minor = w.minor /\ v.patch < w.patch
  \/ Same(v) = Same(w) /\ v.dev /\ ~w.dev

(* However runs interleave, fail and are started again, the versions on
   main never go back, the tag of a version is on a commit of main that
   has the release, and a run that succeeded has what was merged before it
   in the tag of its version. *)
ReleasesOnMain ==
  /\ \A i \in 2..Len(main) : ~Below(main[i], main[i - 1])
  /\ \A v \in Versions : tags[v] # 0 => \E i \in 1..tags[v] : main[i] = v
  /\ \A r \in Runs : run[r].at = "released" =>
       /\ tags[run[r].version] # 0 /\ run[r].base < tags[run[r].version]

(* Tags and versions on main stay right, however runs of the workflow
   interleave, fail and are started again (release_after_merge.py). *)
ReleasesSound == ReleaseTypeOK /\ ReleasesOnMain
=============================================================================
