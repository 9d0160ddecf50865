---------------------------- MODULE PartsProofs ----------------------------
(***************************************************************************)
(* Proofs about VersionFiles, Registries and Connections, whose parts      *)
(* stand alone: each has an inductive invariant of its own.                *)
(***************************************************************************)
EXTENDS VersionFiles, Registries, Connections, FiniteSetTheorems, SequenceTheorems, TLAPS
LOCAL INSTANCE SequencesExt

----------------------------------------
(* VersionFiles, the version in the files of a checkout. *)

Versions == [major : Int, minor : Int, patch : Int, dev : Int]
ShownVersions == [version : Versions, more : BOOLEAN]
VersionFilesOf == [code : Versions, init : Versions, shown : [PlaceNames -> ShownVersions],
                   examples : Versions]

(* The place names that steps before the n-th of a write have written. *)
Renewed(n) == {Places[k] : k \in {m \in DOMAIN Places : m < n - 2}}
(* The files agree on v, or, before step n of a write, are half written,
   but for what is left behind. *)
Agreed(x, behind, v) ==
  /\ x.init = v \/ "init" \in behind
  /\ x.examples = Base(v) \/ "examples" \in behind
  /\ \A p \in PlaceNames \ behind : x.shown[p] = Text(v)
HalfWritten(x, behind, old, new, n) ==
  /\ x.code = IF n > 1 THEN new ELSE old
  /\ x.init = (IF n > 2 THEN new ELSE old) \/ "init" \in behind
  /\ x.examples = Base(old) \/ "examples" \in behind
  /\ \A p \in PlaceNames \ behind : x.shown[p] = IF p \in Renewed(n) THEN Text(new) ELSE Text(old)

(* The inductive invariant: every step of a write finds what the steps
   before it have left. *)
FilesIInv ==
  /\ files \in VersionFilesOf
  /\ writing \in [old : Versions, new : Versions, next : 0..Len(Places) + 3]
  /\ writing.next = 0 /\ files.code # NoVersion => Agreed(files, left, files.code)
  /\ writing.next # 0 => HalfWritten(files, left, writing.old, writing.new, writing.next)
  /\ passed.init = passed.code
  /\ \A p \in PlaceNames : passed.shown[p] = Text(passed.code)
                           \/ (p \in OpenPlaces /\ BeginsWith(passed.shown[p], passed.code))

LEMMA FilesThen == ASSUME FilesIInv PROVE VersionsAgree
  BY DEF FilesIInv, VersionsAgree, Agreed

LEMMA RenewedStepwise ==
  /\ Renewed(1) = {} /\ Renewed(2) = {} /\ Renewed(3) = {}
  /\ Renewed(Len(Places) + 3) = PlaceNames
  /\ \A n \in 3..Len(Places) + 2 : Renewed(n + 1) = Renewed(n) \cup {Places[n - 2]}
                                    /\ Places[n - 2] \notin Renewed(n)
  /\ \A n \in 1..Len(Places) + 3 : PlaceNames \ ToWrite(n) \subseteq Renewed(n)
<1>1. Len(Places) \in Nat /\ DOMAIN Places = 1..Len(Places) BY VersionFilesAssumption
<1>2. Renewed(1) = {} /\ Renewed(2) = {} /\ Renewed(3) = {} BY <1>1 DEF Renewed
<1>3. {m \in DOMAIN Places : m < Len(Places) + 3 - 2} = DOMAIN Places BY <1>1
<1>4. Renewed(Len(Places) + 3) = PlaceNames BY <1>3 DEF Renewed, PlaceNames
<1>5. ASSUME NEW n \in 3..Len(Places) + 2
      PROVE  Renewed(n + 1) = Renewed(n) \cup {Places[n - 2]} /\ Places[n - 2] \notin Renewed(n)
  <2>1. n - 2 \in DOMAIN Places /\ n - 2 \notin {m \in DOMAIN Places : m < n - 2} BY <1>1
  <2>2. {m \in DOMAIN Places : m < n + 1 - 2} = {m \in DOMAIN Places : m < n - 2} \cup {n - 2}
    BY <1>1
  <2>3. Places[n - 2] \notin Renewed(n) BY <2>1, VersionFilesAssumption DEF Renewed
  <2> QED BY <2>2, <2>3 DEF Renewed
<1>6. ASSUME NEW n \in 1..Len(Places) + 3, NEW p \in PlaceNames \ ToWrite(n) PROVE p \in Renewed(n)
  <2>1. PICK k \in DOMAIN Places : p = Places[k] BY DEF PlaceNames
  <2>2. ~(k >= n - 2) BY <2>1 DEF ToWrite
  <2>3. k < n - 2 BY <1>1, <2>2
  <2> QED BY <2>1, <2>3 DEF Renewed
<1> QED BY <1>2, <1>4, <1>5, <1>6

LEMMA VersionTypes ==
  /\ FirstVersion \in Versions /\ NoVersion \in Versions
  /\ \A v \in Versions : Base(v) \in Versions
  /\ \A v \in FileVersions : v \in Versions
  /\ \A v \in Versions : Text(v) \in ShownVersions
<1>1. FirstVersion \in Versions /\ NoVersion \in Versions
  BY DEF Versions, FirstVersion, NoVersion, NoDev
<1>2. ASSUME NEW v \in Versions PROVE Base(v) \in Versions BY DEF Versions, NoDev, Base
<1>3. 0..MaxPart \subseteq Int /\ NoDev..MaxDev \subseteq Int BY VersionFilesAssumption DEF NoDev
<1>4. ASSUME NEW v \in FileVersions PROVE v \in Versions BY <1>3 DEF Versions, FileVersions
<1>5. ASSUME NEW v \in Versions PROVE Text(v) \in ShownVersions BY DEF ShownVersions, Text
<1> QED BY <1>1, <1>2, <1>4, <1>5

LEMMA InitFiles == ASSUME FilesInit PROVE FilesIInv
<1> DEFINE a == Agreeing(FirstVersion)
<1>1. files = a /\ passed = a /\ writing = Idle BY DEF FilesInit
<1>2. Text(FirstVersion) \in ShownVersions /\ Base(FirstVersion) \in Versions BY VersionTypes
<1>3. a.code = FirstVersion /\ a.init = FirstVersion /\ a.examples = Base(FirstVersion)
      /\ \A p \in PlaceNames : a.shown[p] = Text(FirstVersion)
  BY DEF Agreeing
<1>4. a \in VersionFilesOf BY <1>2, VersionTypes DEF Agreeing, VersionFilesOf
<1>5. writing.next = 0 /\ writing \in [old : Versions, new : Versions, next : 0..Len(Places) + 3]
  BY <1>1, VersionTypes, VersionFilesAssumption DEF Idle
<1> HIDE DEF a
<1> QED BY <1>1, <1>3, <1>4, <1>5 DEF FilesIInv, Agreed

LEMMA BeginWriteFits ==
  ASSUME FilesIInv, NEW new \in Versions, BeginWrite(new) PROVE FilesIInv'
<1> DEFINE old == files.code
<1>1. writing.next = 0 /\ writing' = [old |-> old, new |-> new, next |-> 1] /\ old # NoVersion
      /\ UNCHANGED <<files, left, passed>>
  BY DEF BeginWrite
<1>2. old \in Versions /\ 1 \in 0..Len(Places) + 3 /\ Len(Places) \in Nat
  BY VersionFilesAssumption DEF FilesIInv, VersionFilesOf
<1>3. writing' \in [old : Versions, new : Versions, next : 0..Len(Places) + 3] BY <1>1, <1>2
<1>4. Agreed(files, left, old) BY <1>1 DEF FilesIInv
<1>5. Renewed(1) = {} /\ ~(1 > 1) /\ ~(1 > 2) BY RenewedStepwise
<1>6. HalfWritten(files, left, old, new, 1) BY <1>4, <1>5 DEF Agreed, HalfWritten
<1>7. writing'.old = old /\ writing'.new = new /\ writing'.next = 1 BY <1>1
<1>8. HalfWritten(files', left', writing'.old, writing'.new, writing'.next) BY <1>1, <1>6, <1>7
<1> QED BY <1>1, <1>3, <1>7, <1>8 DEF FilesIInv, BeginsWith

(* A step of a write that is not broken off. *)
LEMMA WritesFits ==
  ASSUME FilesIInv, NEW x \in VersionFilesOf, Writes(x), writing.next \in 1..Len(Places) + 2,
         HalfWritten(x, left', writing.old, writing.new, writing.next + 1)
  PROVE  FilesIInv'
<1>1. PICK w \in [old : Versions, new : Versions, next : 0..Len(Places) + 3] : w = writing
  BY DEF FilesIInv
<1>2. files' = x /\ writing' = [w EXCEPT !.next = w.next + 1] /\ UNCHANGED passed BY <1>1 DEF Writes
<1>3. w.next \in 1..Len(Places) + 2 /\ Len(Places) \in Nat BY <1>1, VersionFilesAssumption
<1>4. w.next + 1 \in 0..Len(Places) + 3 /\ w.next + 1 # 0 BY <1>3
<1>5. writing' = [old |-> w.old, new |-> w.new, next |-> w.next + 1] BY <1>2
<1>6. writing' \in [old : Versions, new : Versions, next : 0..Len(Places) + 3] /\ writing'.next # 0
  BY <1>4, <1>5
<1>7. HalfWritten(files', left', writing'.old, writing'.new, writing'.next) BY <1>1, <1>2, <1>5
<1> QED BY <1>2, <1>6, <1>7 DEF FilesIInv, BeginsWith

LEMMA WriteCodeFits == ASSUME FilesIInv, WriteCode PROVE FilesIInv'
<1> DEFINE x == [files EXCEPT !.code = writing.new]
<1>1. writing.next = 1 /\ Writes(x) /\ UNCHANGED left BY DEF WriteCode
<1>2. x \in VersionFilesOf /\ x.code = writing.new /\ x.init = files.init /\ x.shown = files.shown
      /\ x.examples = files.examples
  BY DEF FilesIInv, VersionFilesOf
<1>3. HalfWritten(files, left, writing.old, writing.new, 1) BY <1>1 DEF FilesIInv
<1>4. Renewed(1) = {} /\ Renewed(2) = {} BY RenewedStepwise
<1>5. 2 > 1 /\ ~(2 > 2) /\ ~(1 > 1) /\ ~(1 > 2) OBVIOUS
<1> HIDE DEF x
<1>6. HalfWritten(x, left, writing.old, writing.new, 2) BY <1>2, <1>3, <1>4, <1>5 DEF HalfWritten
<1>7. 1 \in 1..Len(Places) + 2 /\ 1 + 1 = 2 BY VersionFilesAssumption
<1> QED BY <1>1, <1>2, <1>6, <1>7, WritesFits

(* What a write that ends before step n leaves out is left behind. *)
LEMMA EndsBeforeFits ==
  ASSUME FilesIInv, NEW n \in 1..Len(Places) + 3, writing.next = n, NEW x \in VersionFilesOf,
         NEW gone, EndsBefore(n, x, gone),
         \/ n > 1 /\ x.code = files.code
         \/ x.code = NoVersion,
         n > 2 => x.init = files.init,
         \A p \in PlaceNames \ gone : x.shown[p] = files.shown[p]
  PROVE  FilesIInv'
<1>1. writing' = Idle /\ files' = x /\ left' = left \cup ToWrite(n) \cup gone /\ UNCHANGED passed
  BY DEF EndsBefore
<1>2. writing'.next = 0 /\ writing' \in [old : Versions, new : Versions, next : 0..Len(Places) + 3]
  BY <1>1, VersionTypes, VersionFilesAssumption DEF Idle
<1>3. ASSUME x.code # NoVersion PROVE Agreed(x, left', x.code)
  <2>1. n > 1 /\ x.code = files.code BY <1>3
  <2>2. HalfWritten(files, left, writing.old, writing.new, n) BY <2>1 DEF FilesIInv
  <2>3. x.code = writing.new BY <2>1, <2>2 DEF HalfWritten
  <2>4. x.init = x.code \/ "init" \in left'
    <3>1. CASE n > 2 BY <1>1, <2>2, <2>3, <3>1 DEF HalfWritten
    <3>2. CASE n <= 2 BY <1>1, <3>2 DEF ToWrite
    <3> QED BY <3>1, <3>2, VersionFilesAssumption
  <2>5. "examples" \in left' BY <1>1 DEF ToWrite
  <2>6. ASSUME NEW p \in PlaceNames \ left' PROVE x.shown[p] = Text(x.code)
    <3>1. p \in Renewed(n) /\ p \notin left /\ p \notin gone BY <1>1, RenewedStepwise
    <3> QED BY <2>2, <2>3, <3>1 DEF HalfWritten
  <2> QED BY <2>4, <2>5, <2>6 DEF Agreed
<1> QED BY <1>1, <1>2, <1>3 DEF FilesIInv, BeginsWith

LEMMA WriteInitFits == ASSUME FilesIInv, WriteInit PROVE FilesIInv'
<1>1. writing.next = 2 /\ 2 \in 1..Len(Places) + 2 /\ 2 + 1 = 3 /\ 2 \in 1..Len(Places) + 3
  BY VersionFilesAssumption DEF WriteInit
<1>2. CASE Writes([files EXCEPT !.init = writing.new]) /\ left' = left \ {"init"}
  <2> DEFINE x == [files EXCEPT !.init = writing.new]
  <2>1. x \in VersionFilesOf /\ x.code = files.code /\ x.init = writing.new /\ x.shown = files.shown
        /\ x.examples = files.examples
    BY DEF FilesIInv, VersionFilesOf
  <2>2. HalfWritten(files, left, writing.old, writing.new, 2) BY <1>1 DEF FilesIInv
  <2>3. Renewed(2) = {} /\ Renewed(3) = {} BY RenewedStepwise
  <2>4. 2 > 1 /\ ~(2 > 2) /\ 3 > 1 /\ 3 > 2 OBVIOUS
  <2>5. PlaceNames \ left' = PlaceNames \ left /\ ("examples" \in left => "examples" \in left')
    BY <1>2, VersionFilesAssumption DEF PlaceNames
  <2> HIDE DEF x
  <2>6. HalfWritten(x, left', writing.old, writing.new, 3)
    BY <2>1, <2>2, <2>3, <2>4, <2>5 DEF HalfWritten
  <2> QED BY <1>1, <1>2, <2>1, <2>6, WritesFits DEF x
<1>3. CASE EndsBefore(2, files, {})
  <2>1. files \in VersionFilesOf /\ 2 > 1 BY DEF FilesIInv
  <2> QED BY <1>1, <1>3, <2>1, EndsBeforeFits
<1> QED BY <1>2, <1>3 DEF WriteInit

LEMMA TextReplaced ==
  ASSUME NEW v, NEW new PROVE [Text(v) EXCEPT !.version = new] = Text(new)
<1>1. PICK text : text = Text(v) OBVIOUS
<1>2. text \in [version : {v}, more : BOOLEAN] /\ text.more = FALSE BY <1>1 DEF Text
<1>3. [text EXCEPT !.version = new] = [version |-> new, more |-> text.more] BY <1>2
<1>4. [version |-> new, more |-> text.more] = Text(new) BY <1>2, Zenon DEF Text
<1> QED BY <1>1, <1>3, <1>4

(* The old version is found in a place that shows it, and is replaced. *)
LEMMA OldIsReplaced ==
  ASSUME NEW p \in PlaceNames, files.shown[p] = Text(writing.old)
  PROVE  Finds(p, writing.old) /\ NowShown(files.shown[p]) = Text(writing.new)
<1>1. PICK text : text = files.shown[p] /\ text = Text(writing.old) OBVIOUS
<1>2. text.version = writing.old BY <1>1 DEF Text
<1>3. [text EXCEPT !.version = writing.new] = Text(writing.new) BY <1>1, TextReplaced
<1>4. NowShown(text) = Text(writing.new) BY <1>2, <1>3 DEF NowShown
<1>5. Finds(p, writing.old) BY <1>1, <1>2 DEF Finds, BeginsWith
<1> QED BY <1>1, <1>4, <1>5

LEMMA NowShownTypes ==
  ASSUME FilesIInv, NEW text \in ShownVersions PROVE NowShown(text) \in ShownVersions
<1>1. PICK old, new \in Versions : old = writing.old /\ new = writing.new BY DEF FilesIInv
<1>2. [text EXCEPT !.version = new] \in ShownVersions BY DEF ShownVersions
<1>3. [text EXCEPT !.version.major = new.major, !.version.minor = new.minor,
                   !.version.patch = new.patch] \in ShownVersions
  BY DEF ShownVersions, Versions
<1>4. [version |-> new, more |-> TRUE] \in ShownVersions BY DEF ShownVersions
<1> QED BY <1>1, <1>2, <1>3, <1>4 DEF NowShown

LEMMA WriteShownFits == ASSUME FilesIInv, WriteShown PROVE FilesIInv'
<1> DEFINE n == writing.next
           p == Places[n - 2]
           x == IF Finds(p, writing.old) THEN [files EXCEPT !.shown[p] = NowShown(@)] ELSE files
<1>1. n \in 3..Len(Places) + 2 /\ Writes(x) /\ UNCHANGED left BY DEF WriteShown
<1>2. n \in 1..Len(Places) + 2 /\ n - 2 \in DOMAIN Places /\ p \in PlaceNames
  BY <1>1, VersionFilesAssumption DEF PlaceNames
<1>3. x \in VersionFilesOf /\ x.code = files.code /\ x.init = files.init /\ x.examples = files.examples
      /\ \A q \in PlaceNames : x.shown[q] = IF q = p /\ Finds(p, writing.old)
                                           THEN NowShown(files.shown[p]) ELSE files.shown[q]
  <2>1. PICK text \in ShownVersions : text = NowShown(files.shown[p])
    BY <1>2, NowShownTypes DEF FilesIInv, VersionFilesOf
  <2>2. PICK y : y = [files EXCEPT !.shown[p] = text] OBVIOUS
  <2>3. y \in VersionFilesOf /\ y.code = files.code /\ y.init = files.init /\ y.examples = files.examples
        /\ \A q \in PlaceNames : y.shown[q] = IF q = p THEN text ELSE files.shown[q]
    BY <1>2, <2>2 DEF FilesIInv, VersionFilesOf
  <2>4. x = IF Finds(p, writing.old) THEN y ELSE files BY <2>1, <2>2
  <2> QED BY <2>1, <2>3, <2>4 DEF FilesIInv
<1>4. HalfWritten(files, left, writing.old, writing.new, n) /\ n > 2 /\ n > 1 /\ n + 1 > 2 /\ n + 1 > 1
  BY <1>1, VersionFilesAssumption DEF FilesIInv
<1>5. p \notin Renewed(n) /\ Renewed(n + 1) = Renewed(n) \cup {p} BY <1>1, RenewedStepwise
<1>6. ASSUME NEW q \in PlaceNames \ left
      PROVE  x.shown[q] = IF q \in Renewed(n + 1) THEN Text(writing.new) ELSE Text(writing.old)
  <2>1. files.shown[q] = IF q \in Renewed(n) THEN Text(writing.new) ELSE Text(writing.old)
    BY <1>4 DEF HalfWritten
  <2>2. CASE q = p
    <3>1. files.shown[p] = Text(writing.old) BY <1>5, <2>1, <2>2
    <3>2. Finds(p, writing.old) /\ NowShown(files.shown[p]) = Text(writing.new)
      BY <1>2, <3>1, OldIsReplaced
    <3> QED BY <1>3, <1>5, <2>2, <3>2
  <2>3. CASE q # p BY <1>3, <1>5, <2>1, <2>3
  <2> QED BY <2>2, <2>3
<1> HIDE DEF x, n
<1>7. HalfWritten(x, left', writing.old, writing.new, n + 1)
  BY <1>1, <1>3, <1>4, <1>6 DEF HalfWritten
<1> QED BY <1>1, <1>2, <1>3, <1>7, WritesFits DEF n

LEMMA WriteExamplesFits == ASSUME FilesIInv, WriteExamples PROVE FilesIInv'
<1> DEFINE n == writing.next
           x == IF files.examples = Base(writing.old)
                THEN [files EXCEPT !.examples = Base(writing.new)] ELSE files
<1>1. n = Len(Places) + 3 /\ writing' = Idle /\ files' = x /\ UNCHANGED <<left, passed>>
  BY DEF WriteExamples
<1>2. n > 1 /\ n > 2 /\ n # 0 BY <1>1, VersionFilesAssumption
<1>3. HalfWritten(files, left, writing.old, writing.new, n) BY <1>2 DEF FilesIInv
<1>4. PICK v \in Versions : v = Base(writing.new) BY VersionTypes DEF FilesIInv
<1>5. x \in VersionFilesOf /\ x.code = files.code /\ x.init = files.init /\ x.shown = files.shown
      /\ (x.examples = v \/ "examples" \in left)
  BY <1>3, <1>4 DEF FilesIInv, VersionFilesOf, HalfWritten
<1>6. PlaceNames \subseteq Renewed(n) BY <1>1, RenewedStepwise
<1>7. files.code = writing.new /\ (files.init = writing.new \/ "init" \in left)
      /\ \A p \in PlaceNames \ left : files.shown[p] = Text(writing.new)
  BY <1>2, <1>3, <1>6 DEF HalfWritten
<1>8. writing'.next = 0 /\ writing' \in [old : Versions, new : Versions, next : 0..Len(Places) + 3]
  BY <1>1, VersionTypes, VersionFilesAssumption DEF Idle
<1> HIDE DEF x
<1>9. Agreed(files', left', files'.code) BY <1>1, <1>4, <1>5, <1>7 DEF Agreed
<1> QED BY <1>1, <1>5, <1>8, <1>9 DEF FilesIInv, BeginsWith

LEMMA EndedFits ==
  ASSUME FilesIInv,
         BreaksOff \/ EmptiedCode \/ EmptiedInit \/ \E gone \in SUBSET PlaceNames : EmptiedDocument(gone)
  PROVE  FilesIInv'
<1> DEFINE n == writing.next
<1>1. n # 0 => n \in 1..Len(Places) + 3 BY VersionFilesAssumption DEF FilesIInv
<1>2. CASE BreaksOff
  <2>1. n > 1 /\ EndsBefore(n, files, {}) BY <1>2 DEF BreaksOff
  <2>2. files \in VersionFilesOf BY DEF FilesIInv
  <2> QED BY <1>1, <2>1, <2>2, EndsBeforeFits
<1>3. CASE EmptiedCode
  <2> DEFINE x == [files EXCEPT !.code = NoVersion]
  <2>1. n = 1 /\ EndsBefore(1, x, {}) BY <1>3 DEF EmptiedCode
  <2>2. x \in VersionFilesOf /\ x.code = NoVersion /\ x.shown = files.shown
    BY VersionTypes DEF FilesIInv, VersionFilesOf
  <2> HIDE DEF x
  <2> QED BY <1>1, <2>1, <2>2, EndsBeforeFits
<1>4. CASE EmptiedInit
  <2> DEFINE x == [files EXCEPT !.init = NoVersion]
  <2>1. n = 2 /\ EndsBefore(2, x, {}) BY <1>4 DEF EmptiedInit
  <2>2. x \in VersionFilesOf /\ x.code = files.code /\ x.shown = files.shown
    BY VersionTypes DEF FilesIInv, VersionFilesOf
  <2> HIDE DEF x
  <2> QED BY <1>1, <2>1, <2>2, EndsBeforeFits
<1>5. ASSUME NEW gone \in SUBSET PlaceNames, EmptiedDocument(gone) PROVE FilesIInv'
  <2>1. PICK examples \in {files.examples, NoVersion} :
          EndsBefore(n, [files EXCEPT !.examples = examples,
                           !.shown = [p \in PlaceNames |-> IF p \in gone THEN Text(NoVersion)
                                                           ELSE @[p]]], gone)
    BY <1>5 DEF EmptiedDocument
  <2>2. n > 2 BY <1>5 DEF EmptiedDocument
  <2>3. PICK shown : shown = [p \in PlaceNames |-> IF p \in gone THEN Text(NoVersion)
                                                   ELSE files.shown[p]]
    OBVIOUS
  <2>4. shown \in [PlaceNames -> ShownVersions] /\ \A p \in PlaceNames \ gone : shown[p] = files.shown[p]
    BY <2>3, VersionTypes DEF FilesIInv, VersionFilesOf
  <2>5. PICK x : x = [files EXCEPT !.examples = examples, !.shown = shown] OBVIOUS
  <2>6. examples \in Versions BY VersionTypes DEF FilesIInv, VersionFilesOf
  <2>7. x \in VersionFilesOf /\ x.code = files.code /\ x.init = files.init /\ x.shown = shown
    BY <2>4, <2>5, <2>6 DEF FilesIInv, VersionFilesOf
  <2>8. EndsBefore(n, x, gone) BY <2>1, <2>3, <2>5
  <2> QED BY <1>1, <2>2, <2>4, <2>7, <2>8, EndsBeforeFits
<1> QED BY <1>2, <1>3, <1>4, <1>5

LEMMA EditByHandFits ==
  ASSUME FilesIInv, NEW x \in VersionFilesOf, NEW what, EditByHand(x, what),
         \/ x.code = NoVersion
         \/ /\ x.code = files.code /\ x.examples = files.examples
            /\ x.init = files.init \/ what = "init"
            /\ \A p \in PlaceNames : x.shown[p] = files.shown[p] \/ p = what
  PROVE  FilesIInv'
<1>1. writing.next = 0 /\ files' = x /\ left' = left \cup {what} /\ UNCHANGED <<writing, passed>>
  BY DEF EditByHand
<1>2. ASSUME x.code # NoVersion PROVE Agreed(x, left', x.code)
  <2>1. Agreed(files, left, files.code) BY <1>1, <1>2 DEF FilesIInv
  <2> QED BY <1>1, <1>2, <2>1 DEF Agreed
<1> QED BY <1>1, <1>2 DEF FilesIInv, BeginsWith

LEMMA CommitFits == ASSUME FilesIInv, Commit PROVE FilesIInv'
<1>1. passed' = files /\ UNCHANGED <<files, writing, left>> BY DEF Commit
<1>2. files.init = files.code /\ \A p \in PlaceNames : Finds(p, files.code)
  BY DEF Commit, Consistent
<1>3. \A p \in PlaceNames : files.shown[p] = Text(files.code)
                            \/ (p \in OpenPlaces /\ BeginsWith(files.shown[p], files.code))
  BY <1>2 DEF Finds
<1> QED BY <1>1, <1>2, <1>3 DEF FilesIInv, BeginsWith

LEMMA FilesNextKeeps == ASSUME FilesIInv, [FilesNext]_fileVars PROVE FilesIInv'
<1>1. ASSUME NEW m \in Messages, NEW development \in BOOLEAN,
             Bumped(files.code, CommitType(m), development) \in FileVersions,
             BeginWrite(Bumped(files.code, CommitType(m), development))
      PROVE  FilesIInv'
  BY <1>1, BeginWriteFits, VersionTypes
<1>2. CASE BeginWrite(Base(files.code))
  BY <1>2, BeginWriteFits, VersionTypes DEF FilesIInv, VersionFilesOf
<1>3. CASE WriteCode \/ WriteInit \/ WriteShown \/ WriteExamples \/ Commit
  BY <1>3, WriteCodeFits, WriteInitFits, WriteShownFits, WriteExamplesFits, CommitFits
<1>4. CASE BreaksOff \/ EmptiedCode \/ EmptiedInit \/ \E gone \in SUBSET PlaceNames : EmptiedDocument(gone)
  BY <1>4, EndedFits
<1>5. CASE \/ EditByHand([files EXCEPT !.code = NoVersion], "code")
           \/ EditByHand([files EXCEPT !.init = NoVersion], "init")
           \/ \E p \in PlaceNames : EditByHand([files EXCEPT !.shown[p] = Text(NoVersion)], p)
  <2>1. ASSUME NEW x, x = [files EXCEPT !.code = NoVersion], EditByHand(x, "code") PROVE FilesIInv'
    <3>1. x \in VersionFilesOf /\ x.code = NoVersion
      BY <2>1, VersionTypes DEF FilesIInv, VersionFilesOf
    <3> QED BY <2>1, <3>1, EditByHandFits
  <2>2. ASSUME NEW x, x = [files EXCEPT !.init = NoVersion], EditByHand(x, "init") PROVE FilesIInv'
    <3>1. x \in VersionFilesOf /\ x.code = files.code /\ x.examples = files.examples
          /\ x.shown = files.shown
      BY <2>2, VersionTypes DEF FilesIInv, VersionFilesOf
    <3> QED BY <2>2, <3>1, EditByHandFits
  <2>3. ASSUME NEW p \in PlaceNames, NEW x, x = [files EXCEPT !.shown[p] = Text(NoVersion)],
               EditByHand(x, p)
        PROVE  FilesIInv'
    <3>1. x \in VersionFilesOf /\ x.code = files.code /\ x.examples = files.examples
          /\ x.init = files.init /\ \A q \in PlaceNames : x.shown[q] = files.shown[q] \/ q = p
      BY <2>3, VersionTypes DEF FilesIInv, VersionFilesOf
    <3> QED BY <2>3, <3>1, EditByHandFits
  <2> QED BY <1>5, <2>1, <2>2, <2>3
<1>6. CASE UNCHANGED fileVars BY <1>6 DEF fileVars, FilesIInv, BeginsWith
<1> QED BY <1>1, <1>2, <1>3, <1>4, <1>5, <1>6 DEF FilesNext

----------------------------------------
(* VersionFiles, the hooks. *)

HookNames == {"none", "ours", "empty"} \cup Foreign
HookFiles == [hook : HookNames, runs : BOOLEAN, old : {"none", "ours"},
              backup : {"none", "empty"} \cup Foreign]
HookSteps == {"none", "back up", "open", "write", "chmod", "remove old", "restore"}

(* The inductive invariant: a script that writes its hook has moved a
   hook of another to the backup, and nobody else writes one meanwhile. *)
StillThere(x, others) == others \subseteq {x.hook, x.backup} /\ (x.hook \in Foreign => x.runs)
HooksIInv ==
  /\ hooks \in HookFiles
  /\ script \in HookSteps /\ written \subseteq Foreign
  /\ StillThere(hooks, written \ (replaced \cup overwritten))
  /\ script \in {"open", "chmod"} => hooks.hook \in {"none", "ours"}
  /\ script = "write" => hooks.hook = "empty"
  /\ hooks.backup = "empty" => torn
  /\ hooks.hook = "empty" => torn \/ script = "write"

LEMMA HooksThen == ASSUME HooksIInv PROVE HooksKept
  BY VersionFilesAssumption DEF HooksIInv, HooksKept, HookFiles, StillThere

LEMMA InitHooks == ASSUME HooksInit PROVE HooksIInv
  BY VersionFilesAssumption DEF HooksInit, HooksIInv, HookSteps, HookFiles, HookNames, StillThere

(* A step of a script: all that is kept stays, in its place or the backup. *)
LEMMA HookStepFits ==
  ASSUME HooksIInv, NEW step \in HookSteps, NEW x \in HookFiles, HookStep(step, x),
         StillThere(x, written \ (replaced \cup overwritten)),
         step \in {"open", "chmod"} => x.hook \in {"none", "ours"},
         step = "write" => x.hook = "empty",
         x.backup = "empty" => torn,
         x.hook = "empty" => torn \/ step = "write"
  PROVE  HooksIInv'
  BY DEF HooksIInv, HookStep

LEMMA HooksNextKeeps == ASSUME HooksIInv, [HooksNext]_hookVars PROVE HooksIInv'
<1> PICK k \in HookFiles : k = hooks BY DEF HooksIInv
<1> DEFINE h == k.hook
           b == k.backup
           others == written \ (replaced \cup overwritten)
<1> Foreign \cap {"none", "ours", "empty"} = {} BY VersionFilesAssumption
<1>1. /\ others \subseteq {h, b} /\ others \subseteq Foreign /\ written \subseteq Foreign
      /\ script \in HookSteps /\ h \in Foreign => k.runs
      /\ script \in {"open", "chmod"} => h \in {"none", "ours"}
      /\ script = "write" => h = "empty"
      /\ b = "empty" => torn
      /\ h = "empty" => torn \/ script = "write"
      /\ h \in HookNames /\ k.runs \in BOOLEAN /\ k.old \in {"none", "ours"}
      /\ b \in {"none", "empty"} \cup Foreign
  BY DEF HooksIInv, HookFiles, StillThere
<1>2. Without(h) \in HookNames /\ Without(k.old) \in {"none", "ours"}
      /\ (Without(h) = h \/ (Without(h) = "none" /\ h = "ours"))
  BY <1>1 DEF Without, HookNames
<1>3. CASE Install
  <2> DEFINE x == [k EXCEPT !.old = Without(k.old)]
  <2>1. HookStep("back up", x) /\ script = "none" BY <1>3 DEF Install
  <2>2. x \in HookFiles /\ x.hook = h /\ x.backup = b /\ x.runs = k.runs BY <1>2 DEF HookFiles
  <2> HIDE DEF x
  <2> QED BY <1>1, <2>1, <2>2, HookStepFits DEF HookSteps, StillThere
<1>4. CASE BackUp
  <2>0. script = "back up" BY <1>4 DEF BackUp
  <2>1. CASE ~Unmarked(h) /\ HookStep("open", k)
    BY <1>1, <2>0, <2>1, HookStepFits DEF HookSteps, Unmarked, StillThere
  <2>2. CASE HookStep("none", k) BY <1>1, <2>0, <2>2, HookStepFits DEF HookSteps, StillThere
  <2>3. CASE Unmarked(h) /\ b = "none" /\ HookStep("open", [k EXCEPT !.backup = h, !.hook = "none"])
    <3> DEFINE x == [k EXCEPT !.backup = h, !.hook = "none"]
    <3>1. h \in {"empty"} \cup Foreign BY <1>1, <2>3 DEF Unmarked, HookNames
    <3>2. x \in HookFiles /\ x.hook = "none" /\ x.backup = h BY <3>1 DEF HookFiles, HookNames
    <3>3. HookStep("open", x) BY <2>3
    <3> HIDE DEF x
    <3>4. StillThere(x, others) BY <1>1, <2>3, <3>2 DEF StillThere
    <3> QED BY <1>1, <2>0, <3>2, <3>3, <3>4, HookStepFits DEF HookSteps
  <2> QED BY <1>4, <2>1, <2>2, <2>3 DEF BackUp
<1>5. CASE OpenHook
  <2>1. PICK y \in BOOLEAN : y = (hooks.hook = "ours" /\ hooks.runs) OBVIOUS
  <2> DEFINE x == [k EXCEPT !.hook = "empty", !.runs = y]
  <2>2. HookStep("write", x) /\ script = "open" BY <1>5, <2>1 DEF OpenHook
  <2>3. x \in HookFiles /\ x.hook = "empty" /\ x.backup = b BY <2>1 DEF HookFiles, HookNames
  <2>4. others \subseteq {b} BY <1>1, <2>2
  <2> HIDE DEF x
  <2> QED BY <1>1, <2>2, <2>3, <2>4, HookStepFits DEF HookSteps, StillThere
<1>6. CASE WriteHook
  <2> DEFINE x == [k EXCEPT !.hook = "ours"]
  <2>1. HookStep("chmod", x) /\ script = "write" BY <1>6 DEF WriteHook
  <2>2. x \in HookFiles /\ x.hook = "ours" /\ x.backup = b BY DEF HookFiles, HookNames
  <2>3. others \subseteq {b} BY <1>1, <2>1
  <2> HIDE DEF x
  <2> QED BY <1>1, <2>1, <2>2, <2>3, HookStepFits DEF HookSteps, StillThere
<1>7. CASE MakeExecutable
  <2> DEFINE x == [k EXCEPT !.runs = TRUE]
  <2>1. HookStep("none", x) /\ script = "chmod" BY <1>7 DEF MakeExecutable
  <2>2. x \in HookFiles /\ x.hook = h /\ x.backup = b /\ x.runs BY DEF HookFiles
  <2> HIDE DEF x
  <2> QED BY <1>1, <2>1, <2>2, HookStepFits DEF HookSteps, StillThere
<1>8. CASE Uninstall
  <2> DEFINE x == [k EXCEPT !.hook = Without(h)]
  <2>1. HookStep("remove old", x) /\ script = "none" BY <1>8 DEF Uninstall
  <2>2. x \in HookFiles /\ x.hook = Without(h) /\ x.backup = b /\ x.runs = k.runs
    BY <1>2 DEF HookFiles
  <2> HIDE DEF x
  <2> QED BY <1>1, <1>2, <2>1, <2>2, HookStepFits DEF HookSteps, StillThere
<1>9. CASE RemoveOld
  <2> DEFINE x == [k EXCEPT !.old = Without(k.old)]
  <2>1. HookStep("restore", x) /\ script = "remove old" BY <1>9 DEF RemoveOld
  <2>2. x \in HookFiles /\ x.hook = h /\ x.backup = b /\ x.runs = k.runs BY <1>2 DEF HookFiles
  <2> HIDE DEF x
  <2> QED BY <1>1, <2>1, <2>2, HookStepFits DEF HookSteps, StillThere
<1>10. CASE Restore
  <2>1. CASE b = "none" BY <1>1, <1>10, <2>1 DEF Restore, HooksIInv, HookSteps
  <2>2. CASE b # "none"
    <3>1. PICK y \in BOOLEAN : y <=> b \in Foreign OBVIOUS
    <3>2. hooks' = [k EXCEPT !.hook = b, !.backup = "none", !.runs = y] /\ script = "restore"
          /\ script' = "none" /\ UNCHANGED <<replaced, written, torn>>
          /\ overwritten' = overwritten \cup ({h} \cap Foreign)
      BY <1>10, <2>2, <3>1 DEF Restore
    <3>3. hooks' \in HookFiles /\ hooks'.hook = b /\ hooks'.backup = "none" /\ hooks'.runs = y
      BY <1>1, <3>1, <3>2 DEF HookFiles, HookNames
    <3>4. written' \ (replaced' \cup overwritten') \subseteq {b} BY <1>1, <3>2
    <3> QED BY <1>1, <3>1, <3>2, <3>3, <3>4 DEF HooksIInv, StillThere, HookSteps
  <2> QED BY <2>1, <2>2
<1>11. CASE ScriptBreaksOff
  <2>1. hooks' = hooks /\ script' = "none" /\ torn' = (torn \/ script = "write")
        /\ UNCHANGED <<replaced, overwritten, written>>
    BY <1>11 DEF ScriptBreaksOff
  <2> QED BY <1>1, <2>1 DEF HooksIInv, HookSteps
<1>12. ASSUME NEW f \in Foreign, OthersHook(f) PROVE HooksIInv'
  <2>1. hooks' = [k EXCEPT !.hook = f, !.runs = TRUE] /\ script = "none"
        /\ UNCHANGED <<script, overwritten, torn>> /\ replaced' = replaced \cup ({h} \cap Foreign)
        /\ written' = written \cup {f}
    BY <1>12 DEF OthersHook
  <2>2. hooks' \in HookFiles /\ hooks'.hook = f /\ hooks'.runs /\ hooks'.backup = b
    BY <2>1 DEF HookFiles, HookNames
  <2>3. written' \ (replaced' \cup overwritten') \subseteq {f, b} BY <1>1, <2>1
  <2> QED BY <1>1, <2>1, <2>2, <2>3 DEF HooksIInv, StillThere
<1>13. CASE UNCHANGED hookVars BY <1>13 DEF hookVars, HooksIInv
<1> QED BY <1>3, <1>4, <1>5, <1>6, <1>7, <1>8, <1>9, <1>10, <1>11, <1>12, <1>13 DEF HooksNext

----------------------------------------
(* VersionFiles, trials of a published package. *)

Venvs == [made : {"no", "partly", "yes"}, deps : BOOLEAN, package : Nat,
          from : Sources \cup {"none"}]
Trials == [at : {"none", "making", "deps", "package", "run"}, source : Sources \cup {"none"},
           fresh : BOOLEAN, wanted : Nat]

(* The inductive invariant: an environment made for this trial has
   nothing in it that is older than what was there when the trial began,
   or from elsewhere. *)
TrialIInv ==
  /\ venv \in Venvs /\ trial \in Trials
  /\ newest \in [Sources -> Nat]
  /\ venv.made = "no" => venv.package = 0
  /\ trial.at # "none" =>
       /\ trial.source \in Sources /\ newest[trial.source] >= trial.wanted /\ venv.made # "no"
       /\ trial.fresh /\ venv.package > 0 =>
            venv.package >= trial.wanted /\ venv.from \in LooksIn(trial.source)
  /\ TriedNewest

LEMMA InitTrial == ASSUME TrialInit PROVE TrialIInv
  BY DEF TrialInit, TrialIInv, NoTrial, NoVenv, TriedNewest, Venvs, Trials

LEMMA TryFits ==
  ASSUME TrialIInv, NEW s \in Sources, NEW install \in BOOLEAN, Try(s, install) PROVE TrialIInv'
<1>1. PICK v \in Venvs : v = venv BY DEF TrialIInv
<1>2. PICK at \in {"making", "deps", "run"} :
        at = IF venv.made = "no" THEN "making" ELSE IF install THEN "deps" ELSE "run"
  OBVIOUS
<1>3. PICK n \in Nat : n = newest[s] BY DEF TrialIInv
<1>4. PICK y \in BOOLEAN : y = (v.made = "no") OBVIOUS
<1>5. trial' = [at |-> at, source |-> s, fresh |-> y, wanted |-> n]
      /\ venv' = [v EXCEPT !.made = IF v.made = "no" THEN "partly" ELSE v.made]
      /\ UNCHANGED <<newest, verified>>
  BY <1>1, <1>2, <1>3, <1>4 DEF Try
<1>6. trial' \in Trials /\ trial'.source = s /\ trial'.wanted = n /\ trial'.fresh = y
  BY <1>2, <1>5 DEF Trials
<1>7. venv' \in Venvs /\ venv'.made # "no" /\ venv'.package = v.package BY <1>5 DEF Venvs
<1>8. y => v.package = 0 BY <1>1, <1>4 DEF TrialIInv
<1>9. newest'[s] = n /\ newest' \in [Sources -> Nat] /\ TriedNewest'
  BY <1>3, <1>5 DEF TrialIInv, TriedNewest
<1> QED BY <1>6, <1>7, <1>8, <1>9 DEF TrialIInv

LEMMA InstallPackageFits == ASSUME TrialIInv, InstallPackage PROVE TrialIInv'
<1>1. PICK v \in Venvs, r \in Trials : v = venv /\ r = trial BY DEF TrialIInv
<1>2. r.source \in Sources /\ newest[r.source] > 0 /\ newest[r.source] >= r.wanted /\ v.made # "no"
      /\ newest \in [Sources -> Nat] /\ r.wanted \in Nat
  BY <1>1 DEF TrialIInv, InstallPackage, Trials
<1>3. PICK s \in LooksIn(r.source) :
        /\ newest[r.source] <= newest[s]
        /\ venv' = IF v.package > 0 THEN [v EXCEPT !.deps = TRUE]
                   ELSE [v EXCEPT !.package = newest[s], !.from = s, !.deps = TRUE]
  BY <1>1 DEF InstallPackage, LooksIn
<1>4. s \in Sources /\ newest[s] \in Nat /\ newest[s] >= r.wanted BY <1>2, <1>3 DEF LooksIn
<1>5. trial' = [r EXCEPT !.at = "run"] /\ r.at = "package" /\ UNCHANGED <<newest, verified>>
  BY <1>1 DEF InstallPackage
<1>6. venv' \in Venvs /\ venv'.made = v.made BY <1>3, <1>4 DEF Venvs
<1>7. trial' \in Trials /\ trial'.source = r.source /\ trial'.wanted = r.wanted
      /\ trial'.fresh = r.fresh
  BY <1>5 DEF Trials
<1>8. r.fresh => venv'.package >= r.wanted /\ venv'.from \in LooksIn(r.source)
  <2>1. CASE v.package > 0
    <3>1. venv'.package = v.package /\ venv'.from = v.from BY <1>3, <2>1 DEF Venvs
    <3> QED BY <1>1, <1>5, <2>1, <3>1 DEF TrialIInv
  <2>2. CASE ~(v.package > 0) BY <1>3, <1>4, <2>2 DEF Venvs
  <2> QED BY <2>1, <2>2
<1>9. newest'[r.source] >= r.wanted /\ newest' \in [Sources -> Nat] /\ TriedNewest'
  BY <1>2, <1>5 DEF TrialIInv, TriedNewest
<1> QED BY <1>2, <1>6, <1>7, <1>8, <1>9 DEF TrialIInv

LEMMA TrialNextKeeps == ASSUME TrialIInv, [TrialNext]_trialVars PROVE TrialIInv'
<1>1. ASSUME NEW s \in Sources, PublishRelease(s) PROVE TrialIInv'
  <2>1. newest' = [newest EXCEPT ![s] = newest[s] + 1] /\ UNCHANGED <<venv, trial, verified>>
    BY <1>1 DEF PublishRelease
  <2>2. newest' \in [Sources -> Nat] /\ \A u \in Sources : newest'[u] >= newest[u]
    BY <2>1 DEF TrialIInv
  <2>3. \A u \in Sources : newest'[u] \in Nat /\ newest[u] \in Nat BY <2>2 DEF TrialIInv
  <2>4. trial.wanted \in Nat BY DEF TrialIInv, Trials
  <2> QED BY <2>1, <2>2, <2>3, <2>4 DEF TrialIInv, TriedNewest
<1>2. ASSUME NEW s \in Sources, NEW install \in BOOLEAN, Try(s, install) PROVE TrialIInv'
  BY <1>2, TryFits
<1>3. ASSUME NEW install \in BOOLEAN, MakeVenv(install) PROVE TrialIInv'
  <2>1. PICK v \in Venvs, r \in Trials : v = venv /\ r = trial BY DEF TrialIInv
  <2>2. PICK at \in {"deps", "run"} : at = IF install THEN "deps" ELSE "run" OBVIOUS
  <2>3. venv' = [v EXCEPT !.made = "yes"] /\ trial' = [r EXCEPT !.at = at] /\ r.at = "making"
        /\ UNCHANGED <<newest, verified>>
    BY <1>3, <2>1, <2>2 DEF MakeVenv
  <2>4. venv' \in Venvs /\ venv'.made = "yes" /\ venv'.package = v.package /\ venv'.from = v.from
    BY <2>3 DEF Venvs
  <2>5. trial' \in Trials /\ trial'.source = r.source /\ trial'.wanted = r.wanted
        /\ trial'.fresh = r.fresh
    BY <2>3 DEF Trials
  <2> QED BY <2>1, <2>3, <2>4, <2>5 DEF TrialIInv, TriedNewest
<1>4. CASE InstallDeps
  <2>1. PICK v \in Venvs, r \in Trials : v = venv /\ r = trial BY DEF TrialIInv
  <2>2. PICK d \in BOOLEAN : d = (trial.source = "testpypi" \/ venv.deps) OBVIOUS
  <2>3. venv' = [v EXCEPT !.deps = d] /\ trial' = [r EXCEPT !.at = "package"] /\ r.at = "deps"
        /\ UNCHANGED <<newest, verified>>
    BY <1>4, <2>1, <2>2 DEF InstallDeps
  <2>4. venv' \in Venvs /\ venv'.made = v.made /\ venv'.package = v.package /\ venv'.from = v.from
    BY <2>3 DEF Venvs
  <2>5. trial' \in Trials /\ trial'.source = r.source /\ trial'.wanted = r.wanted
        /\ trial'.fresh = r.fresh
    BY <2>3 DEF Trials
  <2> QED BY <2>1, <2>3, <2>4, <2>5 DEF TrialIInv, TriedNewest
<1>5. CASE InstallPackage BY <1>5, InstallPackageFits
<1>6. CASE RunVerify
  <2>1. trial.at = "run" /\ venv.package > 0 /\ trial' = NoTrial /\ UNCHANGED <<venv, newest>>
        /\ verified' = [package |-> venv.package, from |-> venv.from, wanted |-> trial.wanted,
                        source |-> trial.source, fresh |-> trial.fresh]
    BY <1>6 DEF RunVerify
  <2>2. trial.fresh => venv.package >= trial.wanted /\ venv.from \in LooksIn(trial.source)
    BY <2>1 DEF TrialIInv
  <2>3. TriedNewest' BY <2>1, <2>2 DEF TriedNewest, LooksIn
  <2> QED BY <2>1, <2>3 DEF NoTrial, Trials, TrialIInv
<1>7. CASE TrialFails BY <1>7 DEF TrialFails, NoTrial, Trials, TrialIInv, TriedNewest
<1>8. CASE DeleteVenv BY <1>8 DEF DeleteVenv, NoVenv, Venvs, TrialIInv, TriedNewest
<1>9. CASE UNCHANGED trialVars BY <1>9 DEF trialVars, TrialIInv, TriedNewest
<1> QED BY <1>1, <1>2, <1>3, <1>4, <1>5, <1>6, <1>7, <1>8, <1>9 DEF TrialNext

LEMMA ScriptsThen == ASSUME FilesIInv, HooksIInv, TrialIInv PROVE ScriptsSound
  BY FilesThen, HooksThen DEF TrialIInv, ScriptsSound
----------------------------------------
(* Registries, engines of state machines. *)

Engines == [from : Factories \cup {"none", "router", "instance"}, number : {0, 1}]
Getting == [at : {"idle", "locking", "none", "got"}, engine : Engines]

(* The inductive invariant: the engine there is is the one that was built,
   and from then on nothing is registered beside it. *)
MachinesIInv ==
  /\ engine \in Engines
  /\ built = engine.number /\ (engine.number = 0 => engine = NoEngine)
  /\ router \in {"none", "good", "bad"} /\ factory \in Factories \cup {"none"}
  /\ getter \in [Getters -> Getting]
  /\ \A t \in Getters : getter[t].at = "got" => getter[t].engine = engine /\ engine # NoEngine
  /\ engine.from = "router" => router = "good" /\ factory = "none"
  /\ engine.from = "instance" => router = "none"

LEMMA MachinesThen == ASSUME MachinesIInv PROVE OneEngine
  BY DEF MachinesIInv, OneEngine, Engines

LEMMA InitMachines == ASSUME MachinesInit PROVE MachinesIInv
  BY DEF MachinesInit, MachinesIInv, NoEngine, Engines, Getting

(* The engine is built while there is none. *)
LEMMA BuiltFits ==
  ASSUME MachinesIInv, engine = NoEngine, NEW what \in Factories \cup {"router", "instance"},
         BuiltFrom(what), UNCHANGED <<router, factory>>,
         what = "router" => router = "good" /\ factory = "none",
         what = "instance" => router = "none",
         getter' = getter \/ \E t \in Getters : At(t, "got", engine')
  PROVE  MachinesIInv'
<1>1. engine.number = 0 /\ built = 0 BY DEF MachinesIInv, NoEngine
<1>2. engine' = [from |-> what, number |-> 1] /\ built' = 1 BY <1>1 DEF BuiltFrom
<1>3. engine' \in Engines
      /\ engine'.from = what /\ engine'.number = 1
  BY <1>2 DEF Engines
<1>4. engine' # NoEngine BY <1>3 DEF NoEngine
<1>5. \A t \in Getters : getter[t].at # "got" BY DEF MachinesIInv
<1>6. PICK e \in Engines : e = engine' BY <1>3
<1>7. /\ getter' \in [Getters -> Getting]
      /\ \A t \in Getters : getter'[t].at = "got" => getter'[t].engine = e
  <2>1. CASE getter' = getter BY <1>5, <2>1 DEF MachinesIInv
  <2>2. ASSUME NEW t \in Getters, At(t, "got", engine')
        PROVE  /\ getter' \in [Getters -> Getting]
               /\ \A u \in Getters : getter'[u].at = "got" => getter'[u].engine = e
    <3>1. getter' = [getter EXCEPT ![t] = [at |-> "got", engine |-> e]] BY <1>6, <2>2 DEF At
    <3>2. [at |-> "got", engine |-> e] \in Getting BY DEF Getting
    <3> QED BY <1>5, <3>1, <3>2 DEF MachinesIInv
  <2> QED BY <2>1, <2>2
<1>8. router' = router /\ factory' = factory OBVIOUS
<1> QED BY <1>2, <1>3, <1>4, <1>6, <1>7, <1>8 DEF MachinesIInv

LEMMA MachinesNextKeeps == ASSUME MachinesIInv, [MachinesNext]_machineVars PROVE MachinesIInv'
<1> Factories \cap {"none", "router", "instance"} = {} BY RegistriesAssumption
<1>1. engine = NoEngine => engine.from = "none" BY DEF NoEngine
<1>2. ASSUME NEW q \in {"good", "bad"}, RegisterRouter(q) PROVE MachinesIInv'
  BY <1>1, <1>2 DEF RegisterRouter, MachinesIInv
<1>3. CASE RegisterInstance BY <1>3, BuiltFits DEF RegisterInstance
<1>4. ASSUME NEW f \in Factories, RegisterEngineFactory(f) PROVE MachinesIInv'
  BY <1>1, <1>4 DEF RegisterEngineFactory, MachinesIInv
<1>5. ASSUME NEW t \in Getters, NEW at \in {"locking", "got", "none"}, At(t, at, engine),
             at = "got" => engine # NoEngine, UNCHANGED <<router, factory, engine, built>>
      PROVE  MachinesIInv'
  <2>1. PICK e \in Engines : e = engine BY DEF MachinesIInv
  <2>2. getter' = [getter EXCEPT ![t] = [at |-> at, engine |-> e]] BY <1>5, <2>1 DEF At
  <2>3. [at |-> at, engine |-> e] \in Getting BY DEF Getting
  <2>4. getter' \in [Getters -> Getting] BY <2>2, <2>3 DEF MachinesIInv
  <2>5. \A u \in Getters : getter'[u].at = "got" => getter'[u].engine = engine /\ engine # NoEngine
    BY <1>5, <2>1, <2>2 DEF MachinesIInv
  <2> QED BY <1>5, <2>4, <2>5 DEF MachinesIInv
<1>6. ASSUME NEW t \in Getters, LookForEngine(t) PROVE MachinesIInv' BY <1>5, <1>6 DEF LookForEngine
<1>7. ASSUME NEW t \in Getters, BuildEngine(t) PROVE MachinesIInv'
  <2>0. UNCHANGED <<router, factory>> /\ factory \in Factories \cup {"none"}
    BY <1>7 DEF BuildEngine, MachinesIInv
  <2>1. CASE engine # NoEngine /\ At(t, "got", engine) /\ UNCHANGED <<engine, built>>
    BY <1>5, <2>0, <2>1
  <2>2. CASE engine = NoEngine /\ factory # "none" /\ BuiltFrom(factory) /\ At(t, "got", engine')
    <3>1. factory \in Factories /\ factory # "router" /\ factory # "instance" BY <2>0, <2>2
    <3> QED BY <2>0, <2>2, <3>1, BuiltFits
  <2>3. CASE engine = NoEngine /\ factory = "none" /\ router = "good" /\ BuiltFrom("router")
             /\ At(t, "got", engine')
    BY <2>0, <2>3, BuiltFits
  <2>4. CASE engine = NoEngine /\ At(t, "none", NoEngine) /\ UNCHANGED <<engine, built>>
    BY <1>5, <2>0, <2>4
  <2> QED BY <1>7, <2>1, <2>2, <2>3, <2>4 DEF BuildEngine
<1>8. CASE UNCHANGED machineVars BY <1>8 DEF machineVars, MachinesIInv
<1> QED BY <1>2, <1>3, <1>4, <1>6, <1>7, <1>8 DEF MachinesNext

----------------------------------------
(* Registries, factories of components. *)

MakerSteps == {"idle", "asking", "found", "refused", "made", "raised"}
Wants == [at : MakerSteps, name : FactoryNames,
          factory : {Own, Missing} \cup {Placed(n) : n \in Nat}]

(* What stands on the shelf: never nothing, and the framework's own names
   unless they can be taken away. *)
OnShelf ==
  /\ DOMAIN shelf \subseteq FactoryNames
  /\ \A n \in DOMAIN shelf : shelf[n] \in {Own} \cup {Placed(i) : i \in Nat}
  /\ "take" \notin make.does => make.own \subseteq DOMAIN shelf

(* The inductive invariant: what a name means is what stands on the shelf,
   and who asks has seen it. *)
FactoriesIInv ==
  /\ make \in Makes /\ placed \in Nat /\ OnShelf
  /\ meant = [n \in FactoryNames |-> FactoryAt(shelf, n)]
  /\ maker \in [Makers -> Wants] /\ DOMAIN seen = Makers
  /\ \A t \in Makers : maker[t].at = "asking" => meant[maker[t].name] \in seen[t]
  /\ \A t \in Makers : maker[t].at \notin {"idle", "asking"} =>
       /\ maker[t].factory \in seen[t]
       /\ maker[t].at = "refused" => maker[t].factory = Missing
       /\ maker[t].factory = Missing => "take" \in make.does \/ maker[t].name \notin make.own
  /\ tokensFollow \in Makers \cup {"none"}
  /\ tokensFollow # "none" =>
       /\ make = CacheBackends /\ maker[tokensFollow].at \in {"made", "raised"}
       /\ maker[tokensFollow].name = "redis" /\ maker[tokensFollow].factory = Own
  /\ make = CacheBackends /\ (\E t \in Makers : maker[t].at = "made" /\ maker[t].name = "redis"
                                                 /\ maker[t].factory = Own) => tokensFollow # "none"

LEMMA FactoriesThen == ASSUME FactoriesIInv PROVE FactoriesKept
  BY DEF FactoriesIInv, FactoriesKept

LEMMA KindsDiffer ==
  /\ Own # Missing
  /\ \A n \in Nat : Placed(n) # Missing /\ Placed(n) # Own
<1>1. Own[1] = "own" /\ Missing[1] = "missing" /\ "own" # "missing" BY DEF Own, Missing
<1>2. \A n \in Nat : Placed(n)[1] = "placed" BY DEF Placed
<1> QED BY <1>1, <1>2

LEMMA OnlyCaches ==
  ASSUME make \in Makes, make.make = "cache" PROVE make = CacheBackends
  BY DEF Makes, CacheBackends, DatabaseFactories, MongoFactories, ObjectStores, MessageQueues,
     ServiceDiscoveries, SearchEngines, ModelConfigStores, LogSinks, ModelProviders

LEMMA InitFactories == ASSUME FactoriesInit PROVE FactoriesIInv
<1>1. make \in Makes /\ placed = 0 /\ shelf = [n \in make.own |-> Own] /\ tokensFollow = "none"
      /\ meant = [n \in make.own \cup {"custom"} |-> FactoryAt(shelf, n)]
      /\ maker = [t \in Makers |-> [at |-> "idle", name |-> "custom", factory |-> Missing]]
      /\ seen = [t \in Makers |-> {}]
  BY DEF FactoriesInit
<1>2. OnShelf BY <1>1 DEF OnShelf, FactoryNames
<1>3. [at |-> "idle", name |-> "custom", factory |-> Missing] \in Wants
  BY DEF Wants, MakerSteps, FactoryNames
<1>4. \A t \in Makers : maker[t].at = "idle" BY <1>1
<1>5. meant = [n \in FactoryNames |-> FactoryAt(shelf, n)] BY <1>1 DEF FactoryNames
<1>6. maker \in [Makers -> Wants] BY <1>1, <1>3
<1> QED BY <1>1, <1>2, <1>4, <1>5, <1>6 DEF FactoriesIInv

(* A name is given to, or taken from, a factory. *)
LEMMA MeantFits ==
  ASSUME FactoriesIInv, NEW name \in FactoryNames, NEW f, Meant(name, f), OnShelf',
         \A n \in FactoryNames : FactoryAt(shelf', n) = IF n = name THEN f ELSE FactoryAt(shelf, n),
         placed' \in Nat, UNCHANGED <<make, maker, tokensFollow>>
  PROVE  FactoriesIInv'
<1>1. meant' = [n \in FactoryNames |-> FactoryAt(shelf', n)] BY DEF Meant, FactoriesIInv
<1>2. meant'[name] = f /\ \A n \in FactoryNames \ {name} : meant'[n] = meant[n]
  BY DEF Meant, FactoriesIInv
<1>3. DOMAIN seen' = Makers /\ (\A t \in Makers : seen[t] \subseteq seen'[t])
      /\ \A t \in Makers : maker[t].at = "asking" /\ maker[t].name = name => f \in seen'[t]
  BY DEF Meant, FactoriesIInv
<1>4. \A t \in Makers : maker[t].name \in FactoryNames BY DEF FactoriesIInv, Wants
<1>5. \A t \in Makers : maker'[t].at = "asking" => meant'[maker'[t].name] \in seen'[t]
  BY <1>2, <1>3, <1>4 DEF FactoriesIInv
<1>6. FactoryNames' = FactoryNames BY DEF FactoryNames
<1>7. Wants' = Wants BY <1>6 DEF Wants
<1> QED BY <1>1, <1>3, <1>5, <1>6, <1>7 DEF FactoriesIInv

LEMMA RegisterFactoryFits ==
  ASSUME FactoriesIInv, NEW name \in FactoryNames, RegisterFactory(name) PROVE FactoriesIInv'
<1>1. placed \in Nat /\ placed' = placed + 1 /\ UNCHANGED <<make, maker, tokensFollow>>
      /\ Meant(name, Placed(placed + 1))
      /\ shelf' = [n \in DOMAIN shelf \cup {name} |->
                     IF n = name THEN Placed(placed + 1) ELSE shelf[n]]
  BY DEF RegisterFactory, FactoriesIInv
<1>2. \A n \in FactoryNames : FactoryAt(shelf', n) = IF n = name THEN Placed(placed + 1)
                                                     ELSE FactoryAt(shelf, n)
  BY <1>1 DEF FactoryAt
<1>3. OnShelf' BY <1>1 DEF FactoriesIInv, OnShelf, FactoryNames
<1> QED BY <1>1, <1>2, <1>3, MeantFits

LEMMA UnregisterFactoryFits ==
  ASSUME FactoriesIInv, NEW name \in FactoryNames, UnregisterFactory(name) PROVE FactoriesIInv'
<1>1. placed \in Nat /\ placed' = placed + 1 /\ UNCHANGED <<make, maker, tokensFollow>>
      /\ Meant(name, Missing) /\ "take" \in make.does
      /\ shelf' = [n \in DOMAIN shelf \ {name} |-> shelf[n]]
  BY DEF UnregisterFactory, FactoriesIInv
<1>2. \A n \in FactoryNames : FactoryAt(shelf', n) = IF n = name THEN Missing
                                                     ELSE FactoryAt(shelf, n)
  BY <1>1 DEF FactoryAt
<1>3. OnShelf' BY <1>1 DEF FactoriesIInv, OnShelf, FactoryNames
<1> QED BY <1>1, <1>2, <1>3, MeantFits

LEMMA AsksForFits ==
  ASSUME FactoriesIInv, NEW t \in Makers, NEW name \in FactoryNames, AsksFor(t, name)
  PROVE  FactoriesIInv'
<1>1. maker' = [maker EXCEPT ![t] = [at |-> "asking", name |-> name, factory |-> Missing]]
      /\ seen' = [seen EXCEPT ![t] = {meant[name]}] /\ maker[t].at = "idle"
      /\ UNCHANGED <<make, shelf, placed, meant, tokensFollow>>
  BY DEF AsksFor
<1>2. [at |-> "asking", name |-> name, factory |-> Missing] \in Wants BY DEF Wants, MakerSteps
<1>3. maker' \in [Makers -> Wants] /\ DOMAIN seen' = Makers BY <1>1, <1>2 DEF FactoriesIInv
<1>4. maker'[t].at = "asking" /\ maker'[t].name = name /\ seen'[t] = {meant[name]}
  BY <1>1 DEF FactoriesIInv
<1>5. \A u \in Makers \ {t} : maker'[u] = maker[u] /\ seen'[u] = seen[u] BY <1>1 DEF FactoriesIInv
<1>6. tokensFollow # t BY <1>1, RegistriesAssumption DEF FactoriesIInv
<1>7. FactoryNames' = FactoryNames /\ Wants' = Wants /\ OnShelf'
  BY <1>1 DEF FactoryNames, Wants, OnShelf, FactoriesIInv
<1> QED BY <1>1, <1>3, <1>4, <1>5, <1>6, <1>7 DEF FactoriesIInv

(* A maker goes on with what it has, or with what it finds. *)
LEMMA LooksUpFits ==
  ASSUME FactoriesIInv, NEW t \in Makers, LooksUp(t) PROVE FactoriesIInv'
<1>1. PICK f : f = FactoryAt(shelf, maker[t].name) OBVIOUS
<1>2. PICK at \in {"found", "refused"} :
        /\ at = IF f # Missing \/ "fallback" \in make.does THEN "found" ELSE "refused"
        /\ at = "refused" => f = Missing
  OBVIOUS
<1>3. PICK m \in Wants : m = maker[t] BY DEF FactoriesIInv
<1>4. maker' = [maker EXCEPT ![t] = [at |-> at, name |-> m.name, factory |-> f]]
      /\ m.at = "asking" /\ UNCHANGED <<make, shelf, placed, meant, seen, tokensFollow>>
  BY <1>1, <1>2, <1>3 DEF LooksUp, FactoriesIInv, Wants
<1>5. f = meant[m.name] /\ f \in seen[t] /\ m.name \in FactoryNames
  BY <1>1, <1>3, <1>4 DEF FactoriesIInv, Wants
<1>6. f \in {Own, Missing} \cup {Placed(n) : n \in Nat}
  BY <1>1, <1>3, <1>5 DEF FactoriesIInv, OnShelf, FactoryAt
<1>7. f = Missing => "take" \in make.does \/ m.name \notin make.own
  <2>1. CASE m.name \notin DOMAIN shelf BY <2>1 DEF FactoriesIInv, OnShelf
  <2>2. CASE m.name \in DOMAIN shelf
    BY <1>1, <1>3, <2>2, KindsDiffer DEF FactoriesIInv, OnShelf, FactoryAt
  <2> QED BY <2>1, <2>2
<1>8. [at |-> at, name |-> m.name, factory |-> f] \in Wants BY <1>5, <1>6 DEF Wants, MakerSteps
<1>9. maker' \in [Makers -> Wants] /\ maker'[t].at = at /\ maker'[t].name = m.name
      /\ maker'[t].factory = f /\ \A u \in Makers \ {t} : maker'[u] = maker[u]
  BY <1>4, <1>8 DEF FactoriesIInv
<1>10. tokensFollow # t BY <1>3, <1>4, RegistriesAssumption DEF FactoriesIInv
<1>11. FactoryNames' = FactoryNames /\ Wants' = Wants /\ OnShelf'
  BY <1>4 DEF FactoryNames, Wants, OnShelf, FactoriesIInv
<1> QED BY <1>2, <1>4, <1>5, <1>7, <1>9, <1>10, <1>11 DEF FactoriesIInv

LEMMA MakesComponentFits ==
  ASSUME FactoriesIInv, NEW t \in Makers, NEW end \in {"made", "raised"}, MakesComponent(t, end)
  PROVE  FactoriesIInv'
<1>1. PICK m \in Wants : m = maker[t] BY DEF FactoriesIInv
<1>2. maker' = [maker EXCEPT ![t] = [at |-> end, name |-> m.name, factory |-> m.factory]]
      /\ m.at = "found" /\ UNCHANGED <<make, shelf, placed, meant, seen>>
  <2>1. maker' = [maker EXCEPT ![t].at = end] /\ maker[t].at = "found"
        /\ UNCHANGED <<make, shelf, placed, meant, seen>>
    BY DEF MakesComponent
  <2>2. [m EXCEPT !.at = end] = [at |-> end, name |-> m.name, factory |-> m.factory] BY DEF Wants
  <2>3. [maker EXCEPT ![t].at = end] = [maker EXCEPT ![t] = [m EXCEPT !.at = end]] BY <1>1
  <2> QED BY <1>1, <2>1, <2>2, <2>3
<1>3. [at |-> end, name |-> m.name, factory |-> m.factory] \in Wants BY DEF Wants, MakerSteps
<1>4. maker' \in [Makers -> Wants] /\ maker'[t].at = end /\ maker'[t].name = m.name
      /\ maker'[t].factory = m.factory /\ \A u \in Makers \ {t} : maker'[u] = maker[u]
  BY <1>2, <1>3 DEF FactoriesIInv
<1>5. tokensFollow # t BY <1>1, <1>2, RegistriesAssumption DEF FactoriesIInv
<1>6. FactoryNames' = FactoryNames /\ Wants' = Wants /\ OnShelf'
  BY <1>2 DEF FactoryNames, Wants, OnShelf, FactoriesIInv
<1>7. CASE make.make = "cache" /\ m.name = "redis" /\ m.factory = Own /\ tokensFollow' = t
  <2>1. make = CacheBackends /\ t # "none"
    BY <1>7, OnlyCaches, RegistriesAssumption DEF FactoriesIInv
  <2> QED BY <1>1, <1>2, <1>4, <1>5, <1>6, <1>7, <2>1 DEF FactoriesIInv
<1>8. CASE /\ end = "raised" \/ make.make # "cache" \/ m.name # "redis" \/ m.factory # Own
           /\ UNCHANGED tokensFollow
  <2>1. CacheBackends.make = "cache" BY DEF CacheBackends
  <2> QED BY <1>1, <1>2, <1>4, <1>5, <1>6, <1>8, <2>1 DEF FactoriesIInv
<1> QED BY <1>1, <1>7, <1>8 DEF MakesComponent

LEMMA FactoriesNextKeeps == ASSUME FactoriesIInv, [FactoriesNext]_factoryVars PROVE FactoriesIInv'
<1>1. ASSUME NEW name \in FactoryNames, RegisterFactory(name) \/ UnregisterFactory(name)
      PROVE  FactoriesIInv'
  BY <1>1, RegisterFactoryFits, UnregisterFactoryFits
<1>2. ASSUME NEW t \in Makers, NEW name \in FactoryNames, AsksFor(t, name) PROVE FactoriesIInv'
  BY <1>2, AsksForFits
<1>3. ASSUME NEW t \in Makers, LooksUp(t) PROVE FactoriesIInv' BY <1>3, LooksUpFits
<1>4. ASSUME NEW t \in Makers, NEW end \in {"made", "raised"}, MakesComponent(t, end)
      PROVE  FactoriesIInv'
  BY <1>4, MakesComponentFits
<1>5. CASE UNCHANGED factoryVars
  BY <1>5 DEF factoryVars, FactoriesIInv, OnShelf, FactoryNames, Wants
<1> QED BY <1>1, <1>2, <1>3, <1>4, <1>5 DEF FactoriesNext
----------------------------------------
(* Registries, the expansion of what is required. *)

(* Induction, said of a set of numbers: those that are not in it would
   have their predecessors outside, too, and those up to any of them would
   fit into a smaller set. *)
LEMMA AllNumbers ==
  ASSUME NEW T \in SUBSET Nat, 0 \in T, \A n \in T : n + 1 \in T PROVE T = Nat
<1> SUFFICES ASSUME NEW i \in Nat, i \notin T PROVE FALSE OBVIOUS
<1> DEFINE S == {j \in 0..i : j \notin T}
           f == [j \in S |-> j - 1]
<1>1. S \in SUBSET (0..i) /\ i \in S OBVIOUS
<1>2. \A j \in S : j - 1 \in S /\ j - 1 # i
  <2> SUFFICES ASSUME NEW j \in S PROVE j - 1 \in S /\ j - 1 # i OBVIOUS
  <2>1. j \in 0..i /\ j # 0 /\ j \notin T OBVIOUS
  <2>2. j - 1 \in 0..i /\ j - 1 # i /\ j - 1 + 1 = j BY <2>1
  <2> QED BY <2>1, <2>2
<1>3. f \in [S -> S \ {i}] BY <1>2
<1>4. \A j, k \in S : f[j] = f[k] => j = k OBVIOUS
<1> HIDE DEF S, f
<1>5. IsFiniteSet(0..i) BY FS_Interval
<1>6. IsFiniteSet(S) BY <1>1, <1>5, FS_Subset
<1>7. /\ IsFiniteSet(S \ {i}) /\ Cardinality(S \ {i}) = Cardinality(S) - 1
      /\ Cardinality(S) \in Nat
  BY <1>1, <1>6, FS_RemoveElement, FS_CardinalityType
<1>8. Cardinality(S \ {i}) < Cardinality(S) BY <1>7
<1> QED BY <1>3, <1>4, <1>6, <1>7, <1>8, FS_PigeonHole

(* What is reached from roots in each number of steps (Reachable). *)
Requires(S) == UNION {known[m] : m \in S \cap DOMAIN known}
IsReach(f, roots, k) ==
  f = [n \in 0..k |-> IF n = 0 THEN roots
                      ELSE f[n - 1] \cup UNION {known[m] : m \in f[n - 1] \cap DOMAIN known}]

LEMMA ReachExists ==
  ASSUME NEW roots PROVE \A k \in Nat : \E f : IsReach(f, roots, k)
<1> DEFINE T == {k \in Nat : \E f : IsReach(f, roots, k)}
<1>1. 0 \in T
  <2>1. IsReach([n \in 0..0 |-> roots], roots, 0) BY DEF IsReach
  <2> QED BY <2>1
<1>2. ASSUME NEW k \in T PROVE k + 1 \in T
  <2>1. k \in Nat OBVIOUS
  <2>2. PICK f : IsReach(f, roots, k) OBVIOUS
  <2> DEFINE g == [n \in 0..k + 1 |-> IF n <= k THEN f[n] ELSE f[k] \cup Requires(f[k])]
  <2>3. \A n \in 0..k : g[n] = f[n] BY <2>1
  <2>4. g[k + 1] = g[k] \cup Requires(g[k]) BY <2>1, <2>3
  <2>5. ASSUME NEW n \in 0..k + 1
        PROVE  g[n] = IF n = 0 THEN roots ELSE g[n - 1] \cup Requires(g[n - 1])
    <3>1. CASE n = k + 1
      <4>1. n # 0 /\ n - 1 = k BY <2>1, <3>1
      <4> QED BY <2>4, <3>1, <4>1
    <3>2. CASE n = 0
      <4>1. f[0] = roots BY <2>1, <2>2 DEF IsReach
      <4> QED BY <2>1, <2>3, <3>2, <4>1
    <3>3. CASE n \in 1..k
      <4>1. n \in 0..k /\ n - 1 \in 0..k /\ n # 0 BY <2>1, <3>3
      <4>2. f[n] = f[n - 1] \cup Requires(f[n - 1]) BY <2>2, <4>1 DEF IsReach, Requires
      <4> QED BY <2>3, <4>1, <4>2
    <3> QED BY <2>1, <3>1, <3>2, <3>3
  <2>6. g = [n \in 0..k + 1 |-> g[n]] OBVIOUS
  <2> HIDE DEF g
  <2>7. IsReach(g, roots, k + 1) BY <2>5, <2>6 DEF IsReach, Requires
  <2> QED BY <2>1, <2>7
<1> HIDE DEF T
<1>3. T = Nat BY <1>1, <1>2, AllNumbers DEF T
<1> QED BY <1>3 DEF T

LEMMA ReachableIs ==
  ASSUME NEW roots, IsFiniteSet(DOMAIN known)
  PROVE  \E f : IsReach(f, roots, Cardinality(DOMAIN known))
                /\ Reachable(roots) = f[Cardinality(DOMAIN known)]
<1>1. Cardinality(DOMAIN known) \in Nat BY FS_CardinalityType
<1>2. \E f : IsReach(f, roots, Cardinality(DOMAIN known)) BY <1>1, ReachExists
<1> DEFINE after == CHOOSE f : IsReach(f, roots, Cardinality(DOMAIN known))
<1>3. IsReach(after, roots, Cardinality(DOMAIN known)) BY <1>2
<1>4. Reachable(roots) = after[Cardinality(DOMAIN known)] BY DEF Reachable, IsReach
<1> QED BY <1>3, <1>4

LEMMA ReachStep ==
  ASSUME NEW roots, NEW N \in Nat, NEW f, IsReach(f, roots, N)
  PROVE  /\ f[0] = roots
         /\ \A n \in 1..N : /\ f[n - 1] \subseteq f[n]
                            /\ f[n] = f[n - 1] \cup UNION {known[m] : m \in f[n - 1] \cap DOMAIN known}
<1>1. f[0] = roots BY DEF IsReach
<1>2. ASSUME NEW n \in 1..N
      PROVE  f[n] = f[n - 1] \cup UNION {known[m] : m \in f[n - 1] \cap DOMAIN known}
  <2>1. n \in 0..N /\ n # 0 OBVIOUS
  <2> QED BY <2>1 DEF IsReach
<1> QED BY <1>1, <1>2

(* What Reachable(roots) has: the roots, whatever a path from them leads
   to in as many steps as there are names, and nothing that a set closed
   under what is required lacks. *)
LEMMA RootsReached ==
  ASSUME NEW roots, IsFiniteSet(DOMAIN known) PROVE roots \subseteq Reachable(roots)
<1>1. PICK N \in Nat : N = Cardinality(DOMAIN known) BY FS_CardinalityType
<1>2. PICK f : IsReach(f, roots, N) /\ Reachable(roots) = f[N] BY <1>1, ReachableIs
<1>3. f[0] = roots /\ \A n \in 1..N : f[n - 1] \subseteq f[n]
  <2>1. IsReach(f, roots, N) BY <1>2
  <2> QED BY <2>1, ReachStep
<1> DEFINE T == {n \in Nat : n <= N => roots \subseteq f[n]}
<1>4. 0 \in T BY <1>3
<1>5. ASSUME NEW n \in T PROVE n + 1 \in T
  <2>1. CASE n + 1 <= N
    <3>1. n + 1 \in 1..N /\ n + 1 - 1 = n /\ n <= N BY <2>1, <1>1
    <3> QED BY <1>3, <3>1
  <2> QED BY <2>1
<1>6. T \in SUBSET Nat OBVIOUS
<1> HIDE DEF T
<1>7. N \in T BY <1>1, <1>4, <1>5, <1>6, AllNumbers
<1> QED BY <1>1, <1>2, <1>7 DEF T

LEMMA ReachedInside ==
  ASSUME NEW roots, NEW X, IsFiniteSet(DOMAIN known), roots \subseteq X,
         \A m \in X \cap DOMAIN known : known[m] \subseteq X
  PROVE  Reachable(roots) \subseteq X
<1>1. PICK N \in Nat : N = Cardinality(DOMAIN known) BY FS_CardinalityType
<1>2. PICK f : IsReach(f, roots, N) /\ Reachable(roots) = f[N] BY <1>1, ReachableIs
<1>3. f[0] = roots /\ \A n \in 1..N : f[n] = f[n - 1] \cup UNION {known[m] : m \in f[n - 1] \cap DOMAIN known}
  <2>1. IsReach(f, roots, N) BY <1>2
  <2> QED BY <2>1, ReachStep
<1> DEFINE T == {n \in Nat : n <= N => f[n] \subseteq X}
<1>4. 0 \in T BY <1>3
<1>5. ASSUME NEW n \in T PROVE n + 1 \in T
  <2>1. CASE n + 1 <= N
    <3>1. n + 1 \in 1..N /\ n + 1 - 1 = n /\ n <= N BY <2>1, <1>1
    <3>2. f[n] \subseteq X BY <3>1
    <3>3. f[n + 1] = f[n] \cup UNION {known[m] : m \in f[n] \cap DOMAIN known} BY <1>3, <3>1
    <3>4. UNION {known[m] : m \in f[n] \cap DOMAIN known} \subseteq X BY <3>2
    <3> QED BY <3>2, <3>3, <3>4
  <2> QED BY <2>1
<1>6. T \in SUBSET Nat OBVIOUS
<1> HIDE DEF T
<1>7. N \in T BY <1>1, <1>4, <1>5, <1>6, AllNumbers
<1> QED BY <1>1, <1>2, <1>7 DEF T

LEMMA PathReached ==
  ASSUME NEW roots, IsFiniteSet(DOMAIN known), NEW L \in Nat, NEW d,
         L <= Cardinality(DOMAIN known), L > 0, d[1] \in roots,
         \A i \in 1..L - 1 : d[i] \in DOMAIN known /\ d[i + 1] \in known[d[i]]
  PROVE  d[L] \in Reachable(roots)
<1>1. PICK N \in Nat : N = Cardinality(DOMAIN known) BY FS_CardinalityType
<1>2. PICK f : IsReach(f, roots, N) /\ Reachable(roots) = f[N] BY <1>1, ReachableIs
<1>3. f[0] = roots /\ \A n \in 1..N : f[n] = f[n - 1] \cup UNION {known[m] : m \in f[n - 1] \cap DOMAIN known}
  <2>1. IsReach(f, roots, N) BY <1>2
  <2> QED BY <2>1, ReachStep
<1> DEFINE T == {n \in Nat : n <= N => IF n < L THEN d[n + 1] \in f[n] ELSE d[L] \in f[n]}
<1>4. 0 \in T BY <1>3
<1>5. ASSUME NEW n \in T PROVE n + 1 \in T
  <2>1. CASE n + 1 <= N
    <3>1. n + 1 \in 1..N /\ n + 1 - 1 = n /\ n <= N /\ n \in Nat BY <2>1, <1>1
    <3>2. f[n + 1] = f[n] \cup UNION {known[m] : m \in f[n] \cap DOMAIN known} BY <1>3, <3>1
    <3>3. CASE n + 1 < L
      <4>1. n + 1 \in 1..L - 1 /\ d[n + 1] \in f[n] BY <3>1, <3>3
      <4>2. d[n + 1] \in DOMAIN known /\ d[n + 1 + 1] \in known[d[n + 1]] BY <4>1
      <4>3. d[n + 1 + 1] \in f[n + 1] BY <3>2, <4>1, <4>2
      <4> QED BY <3>3, <4>3
    <3>4. CASE n + 1 = L
      <4>1. d[L] \in f[n] BY <3>1, <3>4
      <4> QED BY <3>2, <3>4, <4>1
    <3>5. CASE n >= L
      <4>1. d[L] \in f[n] /\ ~(n + 1 < L) BY <3>1, <3>5
      <4> QED BY <3>2, <4>1
    <3> QED BY <3>1, <3>3, <3>4, <3>5
  <2> QED BY <2>1
<1>6. T \in SUBSET Nat OBVIOUS
<1> HIDE DEF T
<1>7. N \in T BY <1>1, <1>4, <1>5, <1>6, AllNumbers
<1>8. ~(N < L) BY <1>1
<1> QED BY <1>1, <1>2, <1>7, <1>8 DEF T

(* The names there are, and the shape of a walk. *)
NamesOfPlan(p) == p.asked \cup (DOMAIN p.known) \cup UNION {p.known[n] : n \in DOMAIN p.known}
CapabilityNames ==
  (UNION {NamesOfPlan(p) : p \in Plans})
    \cup {c.name : c \in Changes} \cup (UNION {c.requires : c \in Changes})
Frames == [name : CapabilityNames, requires : SUBSET CapabilityNames, left : SUBSET CapabilityNames]
ChainLinks == [name : CapabilityNames, requires : SUBSET CapabilityNames]
Walks == [roots : SUBSET CapabilityNames, stack : Seq(Frames), chain : Seq(ChainLinks),
          circular : SUBSET Seq(CapabilityNames), unknown : SUBSET CapabilityNames,
          at : {"running", "error", "ok"}]

NamesIn(s) == {s[i].name : i \in DOMAIN s}
ReportedBy(unknown, circular) == unknown \cup UNION {ToSet(c) : c \in circular}

(* What a name in the chain requires comes before it, or is reported. *)
ChainFits(chain, reported) ==
  \A i \in DOMAIN chain :
    /\ \A j \in 1..i - 1 : chain[j].name # chain[i].name
    /\ \A n \in chain[i].requires : n \in reported \/ \E j \in 1..i - 1 : chain[j].name = n

(* A name that is being visited leads to the next, and the rest of what it
   requires is still left, in the chain or reported; `owed` is what the
   last one has just been taken from. *)
StackFits(stack, chain, reported, owed) ==
  /\ \A i, j \in DOMAIN stack : stack[i].name = stack[j].name => i = j
  /\ \A i \in DOMAIN stack :
       /\ stack[i].name \notin NamesIn(chain) /\ stack[i].left \subseteq stack[i].requires
       /\ i < Len(stack) => stack[i + 1].name \in stack[i].requires
       /\ i = Len(stack) => owed \subseteq stack[i].requires
       /\ \A n \in stack[i].requires :
            \/ n \in stack[i].left \cup NamesIn(chain) \cup reported
            \/ IF i = Len(stack) THEN n \in owed ELSE n = stack[i + 1].name

(* A cycle of names, each of which requires the next. *)
IsCycle(c) ==
  /\ c # <<>> /\ \A i, j \in DOMAIN c : c[i] = c[j] => i = j
  /\ \A i \in DOMAIN c :
     /\ c[i] \in DOMAIN known
     /\ i < Len(c) => c[i + 1] \in known[c[i]]
  /\ c[1] \in known[c[Len(c)]]

(* As long as nothing is registered meanwhile, what was seen is what is. *)
SeenAsKnown(stack, chain, unknown, circular) ==
  /\ \A i \in DOMAIN chain : chain[i].name \in DOMAIN known /\ chain[i].requires = known[chain[i].name]
  /\ \A i \in DOMAIN stack : stack[i].name \in DOMAIN known /\ stack[i].requires = known[stack[i].name]
  /\ unknown \cap DOMAIN known = {}
  /\ \A c \in circular : IsCycle(c) /\ ToSet(c) \subseteq NamesIn(chain) \cup NamesIn(stack)

(* The inductive invariant of a walk, while its last name still owes some. *)
WalkFits(w, owed) ==
  /\ w \in Walks
  /\ ChainFits(w.chain, ReportedBy(w.unknown, w.circular))
  /\ StackFits(w.stack, w.chain, ReportedBy(w.unknown, w.circular), owed)
  /\ changes = 0 => SeenAsKnown(w.stack, w.chain, w.unknown, w.circular)

WalkIInv ==
  /\ changes \in Nat /\ IsFiniteSet(DOMAIN known)
  /\ DOMAIN known \subseteq CapabilityNames /\ \A n \in DOMAIN known : known[n] \subseteq CapabilityNames
  /\ WalkFits(walk, {})
  /\ walk.at # "running" => walk.stack = <<>>

LEMMA InitWalk == ASSUME DependenciesInit PROVE WalkIInv
<1>1. PICK p \in Plans :
        /\ known = p.known /\ changes = 0
        /\ walk = [roots |-> p.asked, stack |-> <<>>, chain |-> <<>>, circular |-> {},
                   unknown |-> {}, at |-> "running"]
  BY DEF DependenciesInit
<1>2. p.asked \subseteq CapabilityNames /\ DOMAIN p.known \subseteq CapabilityNames
      /\ \A n \in DOMAIN p.known : p.known[n] \subseteq CapabilityNames
  <2>1. NamesOfPlan(p) \subseteq CapabilityNames BY DEF CapabilityNames
  <2> QED BY <2>1 DEF NamesOfPlan
<1>3. walk \in Walks BY <1>1, <1>2 DEF Walks
<1>4. walk.stack = <<>> /\ walk.chain = <<>> /\ walk.circular = {} /\ walk.unknown = {}
      /\ walk.at = "running" /\ DOMAIN walk.stack = {} /\ DOMAIN walk.chain = {}
  BY <1>1
<1>5. ChainFits(walk.chain, ReportedBy(walk.unknown, walk.circular))
      /\ StackFits(walk.stack, walk.chain, ReportedBy(walk.unknown, walk.circular), {})
  BY <1>4 DEF ChainFits, StackFits
<1>6. SeenAsKnown(walk.stack, walk.chain, walk.unknown, walk.circular) BY <1>4 DEF SeenAsKnown
<1>7. IsFiniteSet(DOMAIN known) BY <1>1, RegistriesAssumption
<1> QED BY <1>1, <1>2, <1>3, <1>4, <1>5, <1>6, <1>7 DEF WalkIInv, WalkFits

LEMMA SeqShape ==
  ASSUME NEW S, NEW s \in Seq(S)
  PROVE  /\ Len(s) \in Nat /\ DOMAIN s = 1..Len(s) /\ \A i \in DOMAIN s : s[i] \in S
         /\ (s = <<>>) = (Len(s) = 0)
  BY ElementOfSeq, LenProperties, EmptySeq

(* What is on the stack and in the chain. *)
LEMMA WalkShape ==
  ASSUME NEW w \in Walks
  PROVE  /\ w.stack \in Seq(Frames) /\ w.chain \in Seq(ChainLinks)
         /\ Len(w.stack) \in Nat /\ DOMAIN w.stack = 1..Len(w.stack)
         /\ Len(w.chain) \in Nat /\ DOMAIN w.chain = 1..Len(w.chain)
         /\ \A i \in DOMAIN w.stack : w.stack[i] \in Frames
         /\ (w.stack = <<>>) = (Len(w.stack) = 0)
         /\ w.roots \subseteq CapabilityNames /\ w.unknown \subseteq CapabilityNames
         /\ w.circular \subseteq Seq(CapabilityNames) /\ w.at \in {"running", "error", "ok"}
<1>1. w.stack \in Seq(Frames) /\ w.chain \in Seq(ChainLinks)
      /\ w.roots \subseteq CapabilityNames /\ w.unknown \subseteq CapabilityNames
      /\ w.circular \subseteq Seq(CapabilityNames) /\ w.at \in {"running", "error", "ok"}
  BY DEF Walks
<1> QED BY <1>1, SeqShape

(* A name of the stack is somewhere on it, and from there on it is a
   cycle, once its last name requires the first. *)
PlaceOf(w, name) == CHOOSE i \in DOMAIN w.stack : w.stack[i].name = name
CycleOf(w, name) == SubSeq(Visiting(w), PlaceOf(w, name), Len(w.stack))

LEMMA CycleFound ==
  ASSUME NEW w \in Walks, NEW owed, StackFits(w.stack, w.chain, ReportedBy(w.unknown, w.circular), owed),
         NEW name \in NamesIn(w.stack), name \in owed
  PROVE  /\ CycleOf(w, name) \in Seq(CapabilityNames) /\ name \in ToSet(CycleOf(w, name))
         /\ ToSet(CycleOf(w, name)) \subseteq NamesIn(w.stack)
         /\ (\A i \in DOMAIN w.stack : w.stack[i].name \in DOMAIN known
                                       /\ w.stack[i].requires = known[w.stack[i].name])
              => IsCycle(CycleOf(w, name))
<1> DEFINE at == PlaceOf(w, name)
<1>1. at \in DOMAIN w.stack /\ w.stack[at].name = name BY DEF NamesIn, PlaceOf
<1>2. PICK k \in DOMAIN w.stack : k = at BY <1>1
<1>3. PICK n \in Nat : n = Len(w.stack) /\ DOMAIN w.stack = 1..n BY WalkShape
<1>4. PICK v : v = Visiting(w) /\ \A i \in 1..n : v[i] = w.stack[i].name /\ v[i] \in CapabilityNames
  <2>1. \A i \in 1..n : w.stack[i].name \in CapabilityNames BY <1>3, WalkShape DEF Frames
  <2>2. \A i \in 1..n : Visiting(w)[i] = w.stack[i].name BY <1>3 DEF Visiting
  <2> QED BY <2>1, <2>2
<1>5. k \in 1..n /\ v[k] = name BY <1>1, <1>2, <1>3, <1>4
<1>6. PICK s : s = SubSeq(v, k, n) OBVIOUS
<1>7. /\ s \in Seq(CapabilityNames) /\ Len(s) = n - k + 1
      /\ \A i \in 1..n - k + 1 : s[i] = v[k + i - 1]
  <2>1. \A i \in k..n : v[i] \in CapabilityNames BY <1>4, <1>5
  <2>2. k \in Int /\ n \in Int /\ k..n # {} /\ k <= n + 1 BY <1>5
  <2> HIDE <1>6
  <2> QED BY <1>6, <2>1, <2>2, SubSeqProperties
<1>8. DOMAIN s = 1..n - k + 1 /\ n - k + 1 \in Nat /\ n - k + 1 > 0 BY <1>3, <1>5, <1>7, SeqShape
<1>9. CycleOf(w, name) = s BY <1>2, <1>3, <1>4, <1>6 DEF CycleOf
<1>10. s[1] = name /\ 1 \in DOMAIN s /\ s # <<>>
  <2>1. 1 \in 1..n - k + 1 /\ k + 1 - 1 = k /\ n - k + 1 # 0 BY <1>5, <1>8
  <2>2. s[1] = v[k] BY <1>7, <2>1
  <2>3. s # <<>> BY <1>7, <2>1, SeqShape
  <2> QED BY <1>5, <1>8, <2>1, <2>2, <2>3
<1>11. \A i \in 1..n - k + 1 : k + i - 1 \in 1..n /\ s[i] = w.stack[k + i - 1].name
  <2>1. \A i \in 1..n - k + 1 : k + i - 1 \in 1..n BY <1>3, <1>5
  <2> QED BY <1>4, <1>7, <2>1
<1>12. name \in ToSet(s) /\ ToSet(s) \subseteq NamesIn(w.stack)
  <2>1. name \in ToSet(s) BY <1>10 DEF ToSet
  <2>2. \A i \in DOMAIN s : k + i - 1 \in DOMAIN w.stack /\ s[i] = w.stack[k + i - 1].name
    BY <1>3, <1>8, <1>11
  <2>3. ToSet(s) \subseteq NamesIn(w.stack) BY <2>2 DEF ToSet, NamesIn
  <2> QED BY <2>1, <2>3
<1>13. ASSUME \A i \in DOMAIN w.stack : w.stack[i].name \in DOMAIN known
                                        /\ w.stack[i].requires = known[w.stack[i].name]
       PROVE  IsCycle(s)
  <2>1. \A i, j \in DOMAIN s : s[i] = s[j] => i = j
    <3> SUFFICES ASSUME NEW i \in DOMAIN s, NEW j \in DOMAIN s, s[i] = s[j] PROVE i = j OBVIOUS
    <3>1. k + i - 1 \in 1..n /\ k + j - 1 \in 1..n
          /\ w.stack[k + i - 1].name = w.stack[k + j - 1].name
      BY <1>8, <1>11
    <3>2. k + i - 1 = k + j - 1 BY <1>3, <3>1 DEF StackFits
    <3> QED BY <1>5, <1>8, <3>2
  <2>2. \A i \in DOMAIN s : s[i] \in DOMAIN known /\ known[s[i]] = w.stack[k + i - 1].requires
    BY <1>3, <1>8, <1>11, <1>13
  <2>3. ASSUME NEW i \in DOMAIN s, i < Len(s) PROVE s[i + 1] \in known[s[i]]
    <3>1. i \in 1..n - k + 1 /\ i + 1 \in 1..n - k + 1 /\ k + i - 1 < n
          /\ k + i - 1 + 1 = k + (i + 1) - 1
      <4>1. i \in 1..n - k + 1 /\ i < n - k + 1 /\ k \in 1..n BY <1>5, <1>7, <1>8, <2>3
      <4> QED BY <4>1
    <3>2. w.stack[k + i - 1 + 1].name \in w.stack[k + i - 1].requires
      BY <1>3, <1>11, <3>1 DEF StackFits
    <3> QED BY <1>11, <2>2, <3>1, <3>2
  <2>4. s[1] \in known[s[Len(s)]]
    <3>1. n - k + 1 \in DOMAIN s /\ k + (n - k + 1) - 1 = n /\ n \in DOMAIN w.stack
      BY <1>3, <1>5, <1>8
    <3>2. owed \subseteq w.stack[n].requires BY <1>3, <3>1 DEF StackFits
    <3> QED BY <1>7, <1>10, <2>2, <3>1, <3>2
  <2> QED BY <1>10, <2>1, <2>2, <2>3, <2>4 DEF IsCycle
<1> QED BY <1>7, <1>9, <1>12, <1>13

LEMMA MoreReported ==
  ASSUME NEW chain, NEW r, NEW s, r \subseteq s, ChainFits(chain, r) PROVE ChainFits(chain, s)
  BY DEF ChainFits

LEMMA NothingOwed ==
  ASSUME NEW stack, NEW chain, NEW r, NEW s, NEW name, r \subseteq s,
         name \in s \cup NamesIn(chain), StackFits(stack, chain, r, {name})
  PROVE  StackFits(stack, chain, s, {})
  BY DEF StackFits

(* A name is gone into. *)
LEMMA PushFits ==
  ASSUME WalkIInv, NEW w, NEW name \in DOMAIN known, WalkFits(w, {name}),
         name \notin NamesIn(w.chain), name \notin NamesIn(w.stack)
  PROVE  WalkFits([w EXCEPT !.stack = Append(@, [name |-> name, requires |-> known[name],
                                                 left |-> known[name]])], {})
<1> DEFINE frame == [name |-> name, requires |-> known[name], left |-> known[name]]
           e == [w EXCEPT !.stack = Append(@, frame)]
<1>1. w \in Walks BY DEF WalkFits
<1>2. frame \in Frames /\ frame.name = name /\ frame.requires = known[name]
      /\ frame.left = known[name]
  BY DEF WalkIInv, Frames
<1> HIDE DEF frame
<1>3. PICK s : s = Append(w.stack, frame) OBVIOUS
<1>4. PICK n \in Nat : n = Len(w.stack) /\ DOMAIN w.stack = 1..n /\ w.stack \in Seq(Frames)
  BY <1>1, WalkShape
<1>5. s \in Seq(Frames) /\ Len(s) = n + 1 /\ DOMAIN s = 1..n + 1 /\ s[n + 1] = frame
      /\ \A i \in 1..n : s[i] = w.stack[i]
  BY <1>2, <1>3, <1>4, AppendProperties
<1>6. e \in Walks /\ e.stack = s /\ e.chain = w.chain /\ e.unknown = w.unknown
      /\ e.circular = w.circular
  BY <1>1, <1>3, <1>5 DEF Walks
<1> HIDE DEF e
<1> DEFINE r == ReportedBy(w.unknown, w.circular)
<1>7. StackFits(w.stack, w.chain, r, {name}) /\ ChainFits(w.chain, r) BY DEF WalkFits
<1> HIDE DEF r
<1>8. StackFits(s, w.chain, r, {})
  <2>1. \A i, j \in DOMAIN s : s[i].name = s[j].name => i = j
    <3>1. \A i \in 1..n : s[i].name # name BY <1>4, <1>5 DEF NamesIn
    <3>2. \A i, j \in 1..n : s[i].name = s[j].name => i = j BY <1>4, <1>5, <1>7 DEF StackFits
    <3>3. DOMAIN s = 1..n \cup {n + 1} BY <1>5
    <3> QED BY <1>2, <1>5, <3>1, <3>2, <3>3
  <2>2. ASSUME NEW i \in 1..n
        PROVE  /\ s[i].name \notin NamesIn(w.chain) /\ s[i].left \subseteq s[i].requires
               /\ s[i + 1].name \in s[i].requires
               /\ \A m \in s[i].requires : m \in s[i].left \cup NamesIn(w.chain) \cup r
                                           \/ m = s[i + 1].name
    <3>1. i \in DOMAIN w.stack /\ s[i] = w.stack[i] BY <1>4, <1>5
    <3>2. CASE i = n
      <4>1. s[i + 1].name = name BY <1>2, <1>5, <3>2
      <4> QED BY <1>4, <1>7, <3>1, <3>2, <4>1 DEF StackFits
    <3>3. CASE i < n
      <4>1. s[i + 1] = w.stack[i + 1] /\ i # n BY <1>5, <3>3
      <4> QED BY <1>4, <1>7, <3>1, <3>3, <4>1 DEF StackFits
    <3> QED BY <3>2, <3>3
  <2>3. \A i \in DOMAIN s : i = n + 1 \/ (i \in 1..n /\ i # n + 1) BY <1>5
  <2>4. \A i \in DOMAIN s :
       /\ s[i].name \notin NamesIn(w.chain) /\ s[i].left \subseteq s[i].requires
       /\ i < Len(s) => s[i + 1].name \in s[i].requires
       /\ i = Len(s) => {} \subseteq s[i].requires
       /\ \A m \in s[i].requires :
            \/ m \in s[i].left \cup NamesIn(w.chain) \cup r
            \/ IF i = Len(s) THEN m \in {} ELSE m = s[i + 1].name
    <3> SUFFICES ASSUME NEW i \in DOMAIN s
                 PROVE  /\ s[i].name \notin NamesIn(w.chain) /\ s[i].left \subseteq s[i].requires
                        /\ i < Len(s) => s[i + 1].name \in s[i].requires
                        /\ \A m \in s[i].requires :
                             \/ m \in s[i].left \cup NamesIn(w.chain) \cup r
                             \/ IF i = Len(s) THEN m \in {} ELSE m = s[i + 1].name
      OBVIOUS
    <3>1. CASE i = n + 1
      <4>1. ~(i < Len(s)) /\ s[i] = frame BY <1>5, <3>1
      <4> QED BY <1>2, <4>1
    <3>2. CASE i \in 1..n /\ i # n + 1 BY <1>5, <2>2, <3>2
    <3> QED BY <2>3, <3>1, <3>2
  <2> QED BY <2>1, <2>4 DEF StackFits
<1>9. ASSUME changes = 0 PROVE SeenAsKnown(s, w.chain, w.unknown, w.circular)
  <2>1. SeenAsKnown(w.stack, w.chain, w.unknown, w.circular) BY <1>9 DEF WalkFits
  <2>2. NamesIn(w.stack) \subseteq NamesIn(s) BY <1>4, <1>5 DEF NamesIn
  <2>3. \A i \in DOMAIN s : s[i].name \in DOMAIN known /\ s[i].requires = known[s[i].name]
    <3>1. \A i \in 1..n : s[i].name \in DOMAIN known /\ s[i].requires = known[s[i].name]
      BY <1>4, <1>5, <2>1 DEF SeenAsKnown
    <3>2. DOMAIN s = 1..n \cup {n + 1} BY <1>5
    <3> QED BY <1>2, <1>5, <3>1, <3>2
  <2> QED BY <2>1, <2>2, <2>3 DEF SeenAsKnown
<1>10. WalkFits(e, {}) BY <1>6, <1>7, <1>8, <1>9 DEF WalkFits, r
<1> QED BY <1>10 DEF e, frame

LEMMA EnterFits ==
  ASSUME WalkIInv, NEW w, NEW name \in CapabilityNames, WalkFits(w, {name})
  PROVE  WalkFits(Enter(w, name), {}) /\ Enter(w, name).at = w.at
<1>1. w \in Walks /\ Chained(w) = NamesIn(w.chain) BY DEF WalkFits, Chained, NamesIn
<1>2. ToSet(Visiting(w)) = NamesIn(w.stack) BY <1>1, WalkShape DEF ToSet, Visiting, NamesIn
<1> DEFINE r == ReportedBy(w.unknown, w.circular)
<1>3. StackFits(w.stack, w.chain, r, {name}) /\ ChainFits(w.chain, r) BY DEF WalkFits
<1>4. CASE name \in Chained(w)
  <2>1. StackFits(w.stack, w.chain, r, {}) BY <1>1, <1>3, <1>4, NothingOwed
  <2> QED BY <1>4, <2>1 DEF Enter, WalkFits
<1>5. CASE name \notin Chained(w) /\ name \notin DOMAIN known
  <2> DEFINE e == [w EXCEPT !.unknown = @ \cup {name}]
  <2>1. e \in Walks /\ e.stack = w.stack /\ e.chain = w.chain /\ e.circular = w.circular
        /\ e.unknown = w.unknown \cup {name} /\ e.at = w.at
    BY <1>1 DEF Walks
  <2> HIDE DEF e
  <2>2. r \subseteq ReportedBy(e.unknown, e.circular) /\ name \in ReportedBy(e.unknown, e.circular)
    BY <2>1 DEF ReportedBy
  <2>3. ChainFits(e.chain, ReportedBy(e.unknown, e.circular)) BY <1>3, <2>1, <2>2, MoreReported
  <2>4. StackFits(e.stack, e.chain, ReportedBy(e.unknown, e.circular), {})
    BY <1>3, <2>1, <2>2, NothingOwed
  <2>5. changes = 0 => SeenAsKnown(e.stack, e.chain, e.unknown, e.circular)
    BY <1>5, <2>1 DEF WalkFits, SeenAsKnown
  <2>6. WalkFits(e, {}) BY <2>1, <2>3, <2>4, <2>5 DEF WalkFits
  <2> QED BY <1>5, <2>1, <2>6 DEF Enter, e
<1>6. CASE name \notin Chained(w) /\ name \in DOMAIN known /\ name \in NamesIn(w.stack)
  <2> DEFINE c == CycleOf(w, name)
             e == [w EXCEPT !.circular = @ \cup {c}]
  <2>1. /\ c \in Seq(CapabilityNames) /\ name \in ToSet(c) /\ ToSet(c) \subseteq NamesIn(w.stack)
        /\ (\A i \in DOMAIN w.stack : w.stack[i].name \in DOMAIN known
                                      /\ w.stack[i].requires = known[w.stack[i].name])
             => IsCycle(c)
    BY <1>1, <1>3, <1>6, CycleFound, name \in {name}
  <2> HIDE DEF c
  <2>2. e \in Walks /\ e.stack = w.stack /\ e.chain = w.chain /\ e.circular = w.circular \cup {c}
        /\ e.unknown = w.unknown /\ e.at = w.at
    BY <1>1, <2>1 DEF Walks
  <2> HIDE DEF e
  <2>3. r \subseteq ReportedBy(e.unknown, e.circular) /\ name \in ReportedBy(e.unknown, e.circular)
    BY <2>1, <2>2 DEF ReportedBy
  <2>4. ChainFits(e.chain, ReportedBy(e.unknown, e.circular)) BY <1>3, <2>2, <2>3, MoreReported
  <2>5. StackFits(e.stack, e.chain, ReportedBy(e.unknown, e.circular), {})
    BY <1>3, <2>2, <2>3, NothingOwed
  <2>6. changes = 0 => SeenAsKnown(e.stack, e.chain, e.unknown, e.circular)
    BY <2>1, <2>2 DEF WalkFits, SeenAsKnown
  <2>7. WalkFits(e, {}) BY <2>2, <2>4, <2>5, <2>6 DEF WalkFits
  <2>8. Enter(w, name) = e BY <1>2, <1>6 DEF Enter, e, c, CycleOf, PlaceOf
  <2> QED BY <2>2, <2>7, <2>8
<1>7. CASE name \notin Chained(w) /\ name \in DOMAIN known /\ name \notin NamesIn(w.stack)
  <2> DEFINE e == [w EXCEPT !.stack = Append(@, [name |-> name, requires |-> known[name],
                                                 left |-> known[name]])]
  <2>1. Enter(w, name) = e BY <1>2, <1>7 DEF Enter
  <2>2. WalkFits(e, {}) BY <1>1, <1>7, PushFits
  <2>3. e.at = w.at BY <1>1 DEF Walks
  <2> QED BY <2>1, <2>2, <2>3
<1> QED BY <1>4, <1>5, <1>6, <1>7

(* Each step of an expansion. *)
LEMMA AskedFits ==
  ASSUME WalkIInv, NEW name \in walk.roots, AskedName(name)
  PROVE  WalkFits(walk', {}) /\ walk'.at = walk.at
<1> DEFINE w == [walk EXCEPT !.roots = @ \ {name}]
<1>1. WalkFits(walk, {}) /\ walk \in Walks /\ walk.stack = <<>> BY DEF WalkIInv, WalkFits, AskedName
<1>2. name \in CapabilityNames BY <1>1, WalkShape
<1>3. w \in Walks /\ w.stack = walk.stack /\ w.chain = walk.chain /\ w.unknown = walk.unknown
      /\ w.circular = walk.circular /\ w.at = walk.at
  BY <1>1 DEF Walks
<1>4. walk' = Enter(w, name) BY DEF AskedName
<1> HIDE DEF w
<1>5. DOMAIN w.stack = {} BY <1>1, <1>3
<1>6. StackFits(w.stack, w.chain, ReportedBy(w.unknown, w.circular), {name}) BY <1>5 DEF StackFits
<1>7. WalkFits(w, {name}) BY <1>1, <1>3, <1>6 DEF WalkFits
<1>8. WalkFits(Enter(w, name), {}) /\ Enter(w, name).at = w.at BY <1>2, <1>7, EnterFits
<1> QED BY <1>3, <1>4, <1>8

LEMMA RequiredFits ==
  ASSUME WalkIInv, NEW name \in walk.stack[Len(walk.stack)].left, Required(name)
  PROVE  WalkFits(walk', {}) /\ walk'.at = walk.at
<1> DEFINE w == [walk EXCEPT !.stack[Len(walk.stack)].left = @ \ {name}]
<1>1. WalkFits(walk, {}) /\ walk \in Walks BY DEF WalkIInv, WalkFits
<1>2. PICK n \in Nat : n = Len(walk.stack) /\ DOMAIN walk.stack = 1..n /\ walk.stack \in Seq(Frames)
                       /\ \A i \in 1..n : walk.stack[i] \in Frames
  BY <1>1, WalkShape
<1>3. PICK s : s = walk.stack OBVIOUS
<1>4. s \in Seq(Frames) /\ Len(s) = n /\ DOMAIN s = 1..n /\ \A i \in 1..n : s[i] \in Frames
  BY <1>2, <1>3
<1>5. n > 0 /\ n \in 1..n /\ name \in s[n].left /\ s[n] \in Frames BY <1>2, <1>3, <1>4 DEF Required
<1>6. name \in CapabilityNames BY <1>5 DEF Frames
<1> DEFINE f == [s[n] EXCEPT !.left = @ \ {name}]
           t == [s EXCEPT ![n] = f]
<1>7. f \in Frames /\ f.name = s[n].name /\ f.requires = s[n].requires /\ f.left = s[n].left \ {name}
  BY <1>5 DEF Frames
<1> HIDE DEF f
<1>8. t \in Seq(Frames) /\ Len(t) = n /\ DOMAIN t = 1..n /\ t[n] = f
      /\ \A i \in 1..n : i # n => t[i] = s[i]
  BY <1>4, <1>5, <1>7, ExceptSeq
<1> HIDE DEF t
<1>9. w = [walk EXCEPT !.stack = t] BY <1>1, <1>2, <1>3 DEF t, f, Walks
<1>10. w \in Walks /\ w.stack = t /\ w.chain = walk.chain /\ w.unknown = walk.unknown
       /\ w.circular = walk.circular /\ w.at = walk.at
  BY <1>1, <1>8, <1>9 DEF Walks
<1>11. walk' = Enter(w, name) BY DEF Required
<1> HIDE DEF w
<1> DEFINE r == ReportedBy(walk.unknown, walk.circular)
<1>12. StackFits(s, walk.chain, r, {}) /\ ChainFits(walk.chain, r)
       /\ (changes = 0 => SeenAsKnown(s, walk.chain, walk.unknown, walk.circular))
  BY <1>1, <1>3 DEF WalkFits
<1> HIDE DEF r
<1>13. \A i \in 1..n : t[i].name = s[i].name /\ t[i].requires = s[i].requires
                       /\ t[i].left = IF i = n THEN s[i].left \ {name} ELSE s[i].left
  BY <1>7, <1>8
<1>14. StackFits(t, walk.chain, r, {name})
  <2>1. \A i, j \in 1..n : t[i].name = t[j].name => i = j BY <1>4, <1>8, <1>12, <1>13 DEF StackFits
  <2> SUFFICES ASSUME NEW i \in 1..n
               PROVE  /\ t[i].name \notin NamesIn(walk.chain) /\ t[i].left \subseteq t[i].requires
                      /\ i < n => t[i + 1].name \in t[i].requires
                      /\ i = n => {name} \subseteq t[i].requires
                      /\ \A x \in t[i].requires :
                           \/ x \in t[i].left \cup NamesIn(walk.chain) \cup r
                           \/ IF i = n THEN x \in {name} ELSE x = t[i + 1].name
    BY <1>8, <2>1 DEF StackFits
  <2>2. /\ s[i].name \notin NamesIn(walk.chain) /\ s[i].left \subseteq s[i].requires
        /\ i < n => s[i + 1].name \in s[i].requires
        /\ \A x \in s[i].requires :
             \/ x \in s[i].left \cup NamesIn(walk.chain) \cup r
             \/ i # n /\ x = s[i + 1].name
    BY <1>4, <1>12 DEF StackFits
  <2>3. CASE i = n
    <3>1. t[i].name = s[i].name /\ t[i].requires = s[i].requires /\ t[i].left = s[i].left \ {name}
      BY <1>13, <2>3
    <3>2. name \in s[i].left BY <1>5, <2>3
    <3> QED BY <2>2, <2>3, <3>1, <3>2
  <2>4. CASE i # n
    <3>1. i + 1 \in 1..n BY <2>4
    <3>2. t[i + 1].name = s[i + 1].name BY <1>13, <3>1
    <3>3. t[i].name = s[i].name /\ t[i].requires = s[i].requires /\ t[i].left = s[i].left
      BY <1>13, <2>4
    <3> QED BY <2>2, <2>4, <3>2, <3>3
  <2> QED BY <2>3, <2>4
<1>15. changes = 0 => SeenAsKnown(t, walk.chain, walk.unknown, walk.circular)
  <2>1. NamesIn(t) = NamesIn(s)
    <3>1. DOMAIN t = 1..n /\ DOMAIN s = 1..n /\ \A i \in 1..n : t[i].name = s[i].name
      BY <1>4, <1>8, <1>13
    <3> QED BY <3>1 DEF NamesIn
  <2> QED BY <1>4, <1>8, <1>12, <1>13, <2>1 DEF SeenAsKnown
<1>16. WalkFits(w, {name}) BY <1>10, <1>12, <1>14, <1>15 DEF WalkFits, r
<1>17. WalkFits(Enter(w, name), {}) /\ Enter(w, name).at = w.at BY <1>6, <1>16, EnterFits
<1> QED BY <1>10, <1>11, <1>17

LEMMA LeaveFits ==
  ASSUME WalkIInv, LeaveName PROVE WalkFits(walk', {}) /\ walk'.at = walk.at
<1>1. WalkFits(walk, {}) /\ walk \in Walks BY DEF WalkIInv, WalkFits
<1>2. PICK n \in Nat : n = Len(walk.stack) /\ DOMAIN walk.stack = 1..n /\ walk.stack \in Seq(Frames)
                       /\ \A i \in 1..n : walk.stack[i] \in Frames
  BY <1>1, WalkShape
<1>3. PICK s : s = walk.stack OBVIOUS
<1>4. s \in Seq(Frames) /\ Len(s) = n /\ DOMAIN s = 1..n /\ \A i \in 1..n : s[i] \in Frames
  BY <1>2, <1>3
<1>5. n > 0 /\ n \in 1..n /\ n - 1 \in 0..n /\ s[n].left = {} /\ s[n] \in Frames
  BY <1>2, <1>3, <1>4 DEF LeaveName
<1>6. PICK m \in Nat : m = Len(walk.chain) /\ DOMAIN walk.chain = 1..m /\ walk.chain \in Seq(ChainLinks)
  BY <1>1, WalkShape
<1>7. PICK c : c = walk.chain OBVIOUS
<1>8. PICK item \in ChainLinks : item = [name |-> s[n].name, requires |-> s[n].requires]
                            /\ item.name = s[n].name /\ item.requires = s[n].requires
  <2>1. s[n].name \in CapabilityNames /\ s[n].requires \in SUBSET CapabilityNames BY <1>5 DEF Frames
  <2>2. [name |-> s[n].name, requires |-> s[n].requires] \in ChainLinks BY <2>1 DEF ChainLinks
  <2> QED BY <2>2
<1>9. PICK d : d = Append(c, item) OBVIOUS
<1>10. d \in Seq(ChainLinks) /\ Len(d) = m + 1 /\ DOMAIN d = 1..m + 1 /\ d[m + 1] = item
       /\ \A i \in 1..m : d[i] = c[i]
  BY <1>6, <1>7, <1>8, <1>9, AppendProperties
<1>11. PICK t : t = SubSeq(s, 1, n - 1) OBVIOUS
<1>12. t \in Seq(Frames) /\ Len(t) = n - 1 /\ DOMAIN t = 1..n - 1
       /\ \A i \in 1..n - 1 : t[i] = s[i]
  <2>1. \A i \in 1..n - 1 : s[i] \in Frames BY <1>4
  <2>2. t \in Seq(Frames) /\ Len(t) = n - 1 /\ \A i \in 1..n - 1 : t[i] = s[i]
    BY <1>5, <1>11, <2>1, SubSeqProperties
  <2> QED BY <2>2, SeqShape
<1>13. walk' = [walk EXCEPT !.stack = t, !.chain = d]
  BY <1>2, <1>3, <1>7, <1>8, <1>9, <1>11 DEF LeaveName
<1>14. walk' \in Walks /\ walk'.stack = t /\ walk'.chain = d /\ walk'.unknown = walk.unknown
       /\ walk'.circular = walk.circular /\ walk'.at = walk.at
  BY <1>1, <1>10, <1>12, <1>13 DEF Walks
<1> DEFINE r == ReportedBy(walk.unknown, walk.circular)
<1>15. StackFits(s, c, r, {}) /\ ChainFits(c, r) /\ DOMAIN c = 1..m
       /\ (changes = 0 => SeenAsKnown(s, c, walk.unknown, walk.circular))
  BY <1>1, <1>3, <1>6, <1>7 DEF WalkFits
<1> HIDE DEF r
<1>16. NamesIn(d) = NamesIn(c) \cup {s[n].name}
  <2>1. DOMAIN d = 1..m \cup {m + 1} BY <1>10
  <2>2. \A x : x \in NamesIn(d) <=> \E i \in 1..m + 1 : x = d[i].name BY <1>10 DEF NamesIn
  <2>3. \A x : x \in NamesIn(c) <=> \E i \in 1..m : x = c[i].name BY <1>15 DEF NamesIn
  <2>4. m + 1 \in 1..m + 1 /\ d[m + 1].name = s[n].name BY <1>8, <1>10
  <2>5. \A i \in 1..m : i \in 1..m + 1 /\ d[i].name = c[i].name BY <1>10
  <2>6. \A i \in 1..m + 1 : i \in 1..m \/ i = m + 1 OBVIOUS
  <2> QED BY <2>2, <2>3, <2>4, <2>5, <2>6
<1>17. s[n].name \notin NamesIn(c)
       /\ \A x \in s[n].requires : x \in NamesIn(c) \/ x \in r
  BY <1>4, <1>5, <1>15 DEF StackFits
<1>18. ChainFits(d, r)
  <2> SUFFICES ASSUME NEW i \in 1..m + 1
               PROVE  /\ \A j \in 1..i - 1 : d[j].name # d[i].name
                      /\ \A x \in d[i].requires : x \in r \/ \E j \in 1..i - 1 : d[j].name = x
    BY <1>10 DEF ChainFits
  <2>1. CASE i = m + 1
    <3>1. \A j \in 1..i - 1 : j \in 1..m /\ d[j] = c[j] BY <1>10, <2>1
    <3>2. \A j \in 1..m : j \in 1..i - 1 /\ d[j] = c[j] BY <1>10, <2>1
    <3>3. d[i].name = s[n].name /\ d[i].requires = s[n].requires BY <1>8, <1>10, <2>1
    <3>4. \A x : x \in NamesIn(c) <=> \E j \in 1..m : c[j].name = x BY <1>15 DEF NamesIn
    <3> QED BY <1>17, <3>1, <3>2, <3>3, <3>4
  <2>2. CASE i \in 1..m
    <3>1. \A j \in 1..i - 1 : d[j] = c[j] BY <1>10, <2>2
    <3>2. d[i] = c[i] BY <1>10, <2>2
    <3>3. /\ \A j \in 1..i - 1 : c[j].name # c[i].name
          /\ \A x \in c[i].requires : x \in r \/ \E j \in 1..i - 1 : c[j].name = x
      BY <1>15, <2>2 DEF ChainFits
    <3> QED BY <3>1, <3>2, <3>3
  <2> QED BY <2>1, <2>2
<1>19. StackFits(t, d, r, {})
  <2>1. \A i, j \in 1..n - 1 : t[i].name = t[j].name => i = j
    <3>1. \A i \in 1..n - 1 : i \in DOMAIN s /\ t[i] = s[i] BY <1>4, <1>12
    <3> QED BY <1>15, <3>1 DEF StackFits
  <2> SUFFICES ASSUME NEW i \in 1..n - 1
               PROVE  /\ t[i].name \notin NamesIn(d) /\ t[i].left \subseteq t[i].requires
                      /\ i < n - 1 => t[i + 1].name \in t[i].requires
                      /\ \A x \in t[i].requires :
                           \/ x \in t[i].left \cup NamesIn(d) \cup r
                           \/ i < n - 1 /\ x = t[i + 1].name
    BY <1>12, <2>1 DEF StackFits
  <2>2. t[i] = s[i] /\ i \in 1..n /\ i < n /\ i # n /\ i + 1 \in 1..n BY <1>12
  <2>3. s[i].name # s[n].name BY <1>4, <1>5, <1>15, <2>2 DEF StackFits
  <2>4. /\ s[i].name \notin NamesIn(c) /\ s[i].left \subseteq s[i].requires
        /\ s[i + 1].name \in s[i].requires
        /\ \A x \in s[i].requires :
           \/ x \in s[i].left \cup NamesIn(c) \cup r
           \/ x = s[i + 1].name
    BY <1>4, <1>15, <2>2 DEF StackFits
  <2>5. CASE i < n - 1
    <3>1. t[i + 1] = s[i + 1] BY <1>12, <2>5
    <3> QED BY <1>16, <2>2, <2>3, <2>4, <2>5, <3>1
  <2>6. CASE i = n - 1
    <3>1. i + 1 = n /\ ~(i < n - 1) BY <2>6
    <3> QED BY <1>16, <2>2, <2>3, <2>4, <3>1
  <2> QED BY <2>2, <2>5, <2>6
<1>20. changes = 0 => SeenAsKnown(t, d, walk.unknown, walk.circular)
  <2> SUFFICES ASSUME changes = 0 PROVE SeenAsKnown(t, d, walk.unknown, walk.circular) OBVIOUS
  <2>1. SeenAsKnown(s, c, walk.unknown, walk.circular) BY <1>15
  <2>2. \A i \in 1..m + 1 : d[i].name \in DOMAIN known /\ d[i].requires = known[d[i].name]
    <3>1. \A i \in 1..m : c[i].name \in DOMAIN known /\ c[i].requires = known[c[i].name]
      BY <1>15, <2>1 DEF SeenAsKnown
    <3>2. item.name \in DOMAIN known /\ item.requires = known[item.name]
      BY <1>4, <1>5, <1>8, <2>1 DEF SeenAsKnown
    <3>3. \A i \in 1..m + 1 : i \in 1..m \/ i = m + 1 OBVIOUS
    <3> QED BY <1>10, <3>1, <3>2, <3>3
  <2>3. \A i \in 1..n - 1 : t[i].name \in DOMAIN known /\ t[i].requires = known[t[i].name]
    BY <1>4, <1>12, <2>1 DEF SeenAsKnown
  <2>4. NamesIn(s) \subseteq NamesIn(t) \cup {s[n].name}
    <3>1. \A i \in 1..n : i \in 1..n - 1 \/ i = n OBVIOUS
    <3> QED BY <1>4, <1>12, <3>1 DEF NamesIn
  <2>5. NamesIn(c) \cup NamesIn(s) \subseteq NamesIn(d) \cup NamesIn(t) BY <1>16, <2>4
  <2> QED BY <1>10, <1>12, <2>1, <2>2, <2>3, <2>5 DEF SeenAsKnown
<1> QED BY <1>14, <1>18, <1>19, <1>20 DEF WalkFits, r, LeaveName

LEMMA EndsFits ==
  ASSUME WalkIInv, ExpansionEnds PROVE WalkFits(walk', {}) /\ walk'.stack = <<>>
<1>1. WalkFits(walk, {}) /\ walk \in Walks /\ walk.stack = <<>>
  BY DEF WalkIInv, WalkFits, ExpansionEnds
<1>2. PICK a \in {"error", "ok"} : walk' = [walk EXCEPT !.at = a] BY DEF ExpansionEnds
<1>3. walk' \in Walks /\ walk'.stack = walk.stack /\ walk'.chain = walk.chain
      /\ walk'.unknown = walk.unknown /\ walk'.circular = walk.circular
  BY <1>1, <1>2 DEF Walks
<1> QED BY <1>1, <1>3 DEF WalkFits

LEMMA ChangesNamed ==
  \A change \in Changes : change.name \in CapabilityNames /\ change.requires \subseteq CapabilityNames
<1> TAKE change \in Changes
<1>1. change.name \in CapabilityNames BY DEF CapabilityNames
<1>2. ASSUME NEW n \in change.requires PROVE n \in CapabilityNames BY <1>2 DEF CapabilityNames
<1> QED BY <1>1, <1>2

(* What is registered stays of the names there are, and finite; the walk
   does not move, and what it has seen need no longer be what is. *)
LEMMA RegisteringKeeps ==
  ASSUME WalkIInv, changes < MaxChanges, changes' = changes + 1, UNCHANGED <<kind, walk>>,
         IsFiniteSet(DOMAIN known'), DOMAIN known' \subseteq CapabilityNames,
         \A n \in DOMAIN known' : known'[n] \subseteq CapabilityNames
  PROVE  WalkIInv'
<1>1. changes' \in Nat /\ changes' # 0 BY DEF WalkIInv
<1>2. walk' = walk OBVIOUS
<1>3. /\ walk \in Walks
      /\ ChainFits(walk.chain, ReportedBy(walk.unknown, walk.circular))
      /\ StackFits(walk.stack, walk.chain, ReportedBy(walk.unknown, walk.circular), {})
      /\ walk.at # "running" => walk.stack = <<>>
  BY DEF WalkIInv, WalkFits
<1>4. ChainFits(walk.chain, ReportedBy(walk.unknown, walk.circular))'
      /\ StackFits(walk.stack, walk.chain, ReportedBy(walk.unknown, walk.circular), {})'
  BY <1>2, <1>3 DEF ChainFits, StackFits, ReportedBy, NamesIn
<1>5. WalkFits(walk, {})' BY <1>1, <1>2, <1>3, <1>4 DEF WalkFits
<1> QED BY <1>1, <1>2, <1>3, <1>5 DEF WalkIInv

LEMMA ExpandingKeeps ==
  ASSUME WalkIInv, UNCHANGED <<known, kind, changes>>, WalkFits(walk', {}),
         walk'.at # "running" => walk'.stack = <<>>
  PROVE  WalkIInv'
<1>1. WalkFits(walk, {})'
  BY DEF WalkFits, SeenAsKnown, IsCycle, ChainFits, StackFits, ReportedBy, NamesIn
<1> QED BY <1>1 DEF WalkIInv

LEMMA WalkNextKeeps == ASSUME WalkIInv, [DependenciesNext]_walkVars PROVE WalkIInv'
<1>1. ASSUME UNCHANGED walkVars PROVE WalkIInv' BY <1>1, ExpandingKeeps DEF walkVars, WalkIInv
<1>2. ASSUME NEW name \in walk.roots, AskedName(name), walk.at = "running" PROVE WalkIInv'
  BY <1>2, AskedFits, ExpandingKeeps DEF AskedName
<1>3. ASSUME NEW name \in walk.stack[Len(walk.stack)].left, Required(name), walk.at = "running"
      PROVE  WalkIInv'
  BY <1>3, RequiredFits, ExpandingKeeps DEF Required
<1>4. ASSUME LeaveName, walk.at = "running" PROVE WalkIInv'
  BY <1>4, LeaveFits, ExpandingKeeps DEF LeaveName
<1>5. ASSUME ExpansionEnds PROVE WalkIInv' BY <1>5, EndsFits, ExpandingKeeps DEF ExpansionEnds
<1>6. ASSUME NEW c \in Changes, changes < MaxChanges, changes' = changes + 1, UNCHANGED <<kind, walk>>,
             known' = [n \in DOMAIN known \cup {c.name} |-> IF n = c.name THEN c.requires ELSE known[n]]
      PROVE  WalkIInv'
  <2>1. c.name \in CapabilityNames /\ c.requires \subseteq CapabilityNames BY <1>6, ChangesNamed
  <2>2. IsFiniteSet(DOMAIN known) /\ DOMAIN known \subseteq CapabilityNames
        /\ \A n \in DOMAIN known : known[n] \subseteq CapabilityNames
    BY DEF WalkIInv
  <2>3. IsFiniteSet(DOMAIN known \cup {c.name}) BY <2>2, FS_AddElement
  <2>4. DOMAIN known' = DOMAIN known \cup {c.name}
        /\ \A n \in DOMAIN known' : known'[n] = IF n = c.name THEN c.requires ELSE known[n]
    BY <1>6
  <2> HIDE <1>6
  <2> QED BY <1>6, <2>1, <2>2, <2>3, <2>4, RegisteringKeeps
<1>7. ASSUME NEW name \in DOMAIN known, UnregisterExtension(name) PROVE WalkIInv'
  <2>1. IsFiniteSet(DOMAIN known) /\ DOMAIN known \subseteq CapabilityNames
        /\ \A n \in DOMAIN known : known[n] \subseteq CapabilityNames
    BY DEF WalkIInv
  <2>2. IsFiniteSet(DOMAIN known \ {name}) BY <2>1, FS_Subset
  <2>3. /\ DOMAIN known' = DOMAIN known \ {name}
        /\ \A n \in DOMAIN known' : known'[n] = known[n]
        /\ changes < MaxChanges /\ changes' = changes + 1 /\ UNCHANGED <<kind, walk>>
    BY <1>7 DEF UnregisterExtension
  <2>4. IsFiniteSet(DOMAIN known') /\ DOMAIN known' \subseteq CapabilityNames BY <2>1, <2>2, <2>3
  <2>5. \A n \in DOMAIN known' : known'[n] \subseteq CapabilityNames BY <2>1, <2>3
  <2> QED BY <2>3, <2>4, <2>5, RegisteringKeeps
<1>8. ASSUME NEW c \in Changes, RegisterCapability(c) PROVE WalkIInv'
  BY <1>6, <1>8 DEF RegisterCapability
<1>9. ASSUME NEW c \in Changes, NEW o \in BOOLEAN, RegisterExtension(c, o) PROVE WalkIInv'
  BY <1>6, <1>9 DEF RegisterExtension
<1> QED BY <1>1, <1>2, <1>3, <1>4, <1>5, <1>7, <1>8, <1>9 DEF DependenciesNext

(* What the walk has found, when it is over and nothing was registered
   meanwhile, against the sets that Reachable is. *)
LEMMA NeededIs ==
  ASSUME WalkIInv, walk.at # "running", changes = 0
  PROVE  Reachable(Chained(walk) \cup walk.unknown) = Chained(walk) \cup walk.unknown
<1> DEFINE X == Chained(walk) \cup walk.unknown
<1>1. WalkFits(walk, {}) /\ walk.stack = <<>> /\ IsFiniteSet(DOMAIN known) BY DEF WalkIInv
<1>2. SeenAsKnown(walk.stack, walk.chain, walk.unknown, walk.circular)
      /\ ChainFits(walk.chain, ReportedBy(walk.unknown, walk.circular)) /\ walk \in Walks
  BY <1>1 DEF WalkFits
<1>3. NamesIn(walk.stack) = {} /\ NamesIn(walk.chain) = Chained(walk) BY <1>1 DEF NamesIn, Chained
<1>4. ReportedBy(walk.unknown, walk.circular) \subseteq X BY <1>2, <1>3 DEF ReportedBy, SeenAsKnown
<1>5. \A m \in X \cap DOMAIN known : known[m] \subseteq X
  <2> SUFFICES ASSUME NEW m \in X \cap DOMAIN known PROVE known[m] \subseteq X OBVIOUS
  <2>1. m \notin walk.unknown BY <1>2 DEF SeenAsKnown
  <2>2. PICK i \in DOMAIN walk.chain : walk.chain[i].name = m BY <2>1 DEF Chained
  <2>3. known[m] = walk.chain[i].requires BY <1>2, <2>2 DEF SeenAsKnown
  <2>4. DOMAIN walk.chain = 1..Len(walk.chain) /\ Len(walk.chain) \in Nat BY <1>2, WalkShape
  <2>5. \A j \in 1..i - 1 : j \in DOMAIN walk.chain BY <2>4
  <2>6. ASSUME NEW n \in walk.chain[i].requires PROVE n \in X
    <3>1. n \in ReportedBy(walk.unknown, walk.circular) \/ \E j \in 1..i - 1 : walk.chain[j].name = n
      BY <1>2 DEF ChainFits
    <3> QED BY <1>4, <2>5, <3>1 DEF Chained
  <2> QED BY <2>3, <2>6
<1> QED BY <1>1, <1>5, RootsReached, ReachedInside

(* A cycle that was found is one. *)
LEMMA CycleIsCyclic ==
  ASSUME IsFiniteSet(DOMAIN known), NEW c \in Seq(CapabilityNames), IsCycle(c)
  PROVE  1 \in DOMAIN c /\ Cyclic(c[1])
<1>1. PICK L \in Nat : L = Len(c) /\ DOMAIN c = 1..L /\ L > 0
  <2>1. Len(c) \in Nat /\ DOMAIN c = 1..Len(c) /\ Len(c) # 0 BY SeqShape DEF IsCycle
  <2>2. \A n \in Nat : n # 0 => n > 0 OBVIOUS
  <2> QED BY <2>1, <2>2, Zenon
<1>2. PICK N \in Nat : N = Cardinality(DOMAIN known) BY FS_CardinalityType
<1>3. L <= N
  <2>1. IsFiniteSet(1..L) /\ Cardinality(1..L) = L BY FS_Interval
  <2> DEFINE f == [i \in 1..L |-> c[i]]
  <2>2. f \in [1..L -> DOMAIN known] /\ \A i, j \in 1..L : f[i] = f[j] => i = j BY <1>1 DEF IsCycle
  <2> HIDE DEF f
  <2>3. N < L => \E i, j \in 1..L : i # j /\ f[i] = f[j] BY <1>2, <2>1, <2>2, FS_PigeonHole
  <2> QED BY <1>1, <1>2, <2>2, <2>3
<1> DEFINE d == [i \in 1..L |-> IF i = L THEN c[1] ELSE c[i + 1]]
<1>4. c[1] \in DOMAIN known /\ c[1] \in known[c[L]] BY <1>1 DEF IsCycle
<1>5. d[1] \in known[c[1]]
  <2>1. CASE L = 1 BY <1>1, <1>4, <2>1
  <2>2. CASE L > 1
    <3>1. 1 \in 1..L /\ 1 # L /\ 1 < L /\ 1 + 1 = 2 BY <2>2
    <3> QED BY <1>1, <3>1 DEF IsCycle
  <2> QED BY <1>1, <2>1, <2>2
<1>6. \A i \in 1..L - 1 : d[i] \in DOMAIN known /\ d[i + 1] \in known[d[i]]
  <2> SUFFICES ASSUME NEW i \in 1..L - 1 PROVE d[i] \in DOMAIN known /\ d[i + 1] \in known[d[i]]
    OBVIOUS
  <2>1. i \in 1..L /\ i # L /\ i + 1 \in 1..L /\ d[i] = c[i + 1] BY <1>1
  <2>2. CASE i + 1 = L
    <3>1. d[i + 1] = c[1] BY <2>1, <2>2
    <3> QED BY <1>1, <1>4, <2>1, <2>2, <3>1 DEF IsCycle
  <2>3. CASE i + 1 < L
    <3>1. d[i + 1] = c[i + 1 + 1] /\ i + 1 # L BY <2>1, <2>3
    <3> QED BY <1>1, <2>1, <2>3, <3>1 DEF IsCycle
  <2> QED BY <1>1, <2>1, <2>2, <2>3
<1>7. d[L] = c[1] BY <1>1
<1> HIDE DEF d
<1>8. d[L] \in Reachable(known[c[1]]) BY <1>1, <1>2, <1>3, <1>5, <1>6, PathReached
<1> QED BY <1>1, <1>4, <1>7, <1>8 DEF Cyclic

(* Without one, nothing in the chain leads back to itself. *)
LEMMA NothingCyclic ==
  ASSUME WalkIInv, walk.at # "running", changes = 0, walk.circular = {}
  PROVE  \A name \in Chained(walk) \cup walk.unknown : ~Cyclic(name)
<1>1. WalkFits(walk, {}) /\ walk.stack = <<>> /\ IsFiniteSet(DOMAIN known) BY DEF WalkIInv
<1>2. SeenAsKnown(walk.stack, walk.chain, walk.unknown, walk.circular)
      /\ ChainFits(walk.chain, ReportedBy(walk.unknown, walk.circular)) /\ walk \in Walks
  BY <1>1 DEF WalkFits
<1>3. ReportedBy(walk.unknown, walk.circular) = walk.unknown BY DEF ReportedBy
<1>4. PICK m \in Nat : DOMAIN walk.chain = 1..m BY <1>2, WalkShape
<1> SUFFICES ASSUME NEW name \in Chained(walk) \cup walk.unknown, Cyclic(name) PROVE FALSE OBVIOUS
<1>5. name \in DOMAIN known /\ name \notin walk.unknown /\ name \in Reachable(known[name])
  BY <1>2 DEF Cyclic, SeenAsKnown
<1>6. PICK i \in 1..m : walk.chain[i].name = name BY <1>4, <1>5 DEF Chained
<1> DEFINE X == {walk.chain[j].name : j \in 1..i - 1} \cup walk.unknown
<1>7. \A k \in 1..i : known[walk.chain[k].name] \subseteq X
  <2> SUFFICES ASSUME NEW k \in 1..i PROVE known[walk.chain[k].name] \subseteq X OBVIOUS
  <2>1. k \in DOMAIN walk.chain /\ \A j \in 1..k - 1 : j \in 1..i - 1 BY <1>4
  <2>2. known[walk.chain[k].name] = walk.chain[k].requires BY <1>2, <2>1 DEF SeenAsKnown
  <2>3. \A n \in walk.chain[k].requires : n \in walk.unknown \/ \E j \in 1..k - 1 : walk.chain[j].name = n
    BY <1>2, <1>3, <2>1 DEF ChainFits
  <2> QED BY <2>1, <2>2, <2>3
<1>8. \A n \in X \cap DOMAIN known : known[n] \subseteq X
  <2> SUFFICES ASSUME NEW n \in X \cap DOMAIN known PROVE known[n] \subseteq X OBVIOUS
  <2>1. n \notin walk.unknown BY <1>2 DEF SeenAsKnown
  <2>2. PICK j \in 1..i - 1 : walk.chain[j].name = n BY <2>1
  <2>3. j \in 1..i BY <2>2
  <2> QED BY <1>7, <2>2, <2>3
<1>9. known[name] \subseteq X BY <1>6, <1>7
<1>10. name \notin X BY <1>2, <1>4, <1>5, <1>6 DEF ChainFits
<1> HIDE DEF X
<1>11. Reachable(known[name]) \subseteq X BY <1>1, <1>8, <1>9, ReachedInside
<1> QED BY <1>5, <1>10, <1>11

LEMMA WalkThen == ASSUME WalkIInv PROVE ChainSound
<1>1. WalkFits(walk, {}) /\ IsFiniteSet(DOMAIN known) BY DEF WalkIInv
<1>2. ChainFits(walk.chain, ReportedBy(walk.unknown, walk.circular)) /\ walk \in Walks
  BY <1>1 DEF WalkFits
<1>3. \A i \in DOMAIN walk.chain :
       /\ \A j \in 1..i - 1 : walk.chain[j].name # walk.chain[i].name
       /\ \A name \in walk.chain[i].requires :
            \/ \E j \in 1..i - 1 : walk.chain[j].name = name
            \/ name \in walk.unknown
            \/ \E cycle \in walk.circular : name \in ToSet(cycle)
  BY <1>2 DEF ChainFits, ReportedBy
<1>4. ASSUME walk.at # "running", changes = 0
      PROVE  LET needed == Reachable(Chained(walk) \cup walk.unknown)
             IN  /\ Chained(walk) = needed \cap DOMAIN known /\ walk.unknown = needed \ DOMAIN known
                 /\ (walk.circular # {}) = (\E name \in needed : Cyclic(name))
  <2> DEFINE needed == Reachable(Chained(walk) \cup walk.unknown)
  <2>1. needed = Chained(walk) \cup walk.unknown BY <1>4, NeededIs
  <2>2. SeenAsKnown(walk.stack, walk.chain, walk.unknown, walk.circular) /\ walk.stack = <<>>
    BY <1>1, <1>4 DEF WalkFits, WalkIInv
  <2>3. Chained(walk) \subseteq DOMAIN known /\ walk.unknown \cap DOMAIN known = {}
    BY <2>2 DEF SeenAsKnown, Chained
  <2>4. ASSUME walk.circular # {} PROVE \E name \in needed : Cyclic(name)
    <3>1. PICK c \in walk.circular : TRUE BY <2>4
    <3>2. c \in Seq(CapabilityNames) /\ IsCycle(c) /\ ToSet(c) \subseteq NamesIn(walk.chain) \cup NamesIn(walk.stack)
      BY <1>2, <2>2, <3>1, WalkShape DEF SeenAsKnown
    <3>3. 1 \in DOMAIN c /\ Cyclic(c[1]) BY <1>1, <3>2, CycleIsCyclic
    <3>4. c[1] \in NamesIn(walk.chain) BY <2>2, <3>2, <3>3 DEF ToSet, NamesIn
    <3> HIDE DEF needed
    <3> QED BY <2>1, <3>3, <3>4 DEF NamesIn, Chained
  <2>5. ASSUME walk.circular = {} PROVE ~\E name \in needed : Cyclic(name)
    <3> HIDE DEF needed
    <3> QED BY <1>4, <2>1, <2>5, NothingCyclic
  <2> HIDE DEF needed
  <2>6. /\ Chained(walk) = needed \cap DOMAIN known /\ walk.unknown = needed \ DOMAIN known
        /\ (walk.circular # {}) = (\E name \in needed : Cyclic(name))
    BY <2>1, <2>3, <2>4, <2>5
  <2> QED BY <2>6 DEF needed
<1> QED BY <1>3, <1>4 DEF ChainSound

----------------------------------------
(* A set of numbers up to some number has a greatest, and a least. *)
LEMMA GreatestIs ==
  ASSUME NEW N \in Nat, NEW S \in SUBSET (0..N), S # {} PROVE \E m \in S : \A k \in S : k <= m
<1> DEFINE T == {n \in Nat : \A R \in SUBSET (0..n) : R # {} => \E m \in R : \A k \in R : k <= m}
<1>1. 0 \in T
  <2> SUFFICES ASSUME NEW R \in SUBSET (0..0), R # {} PROVE \E m \in R : \A k \in R : k <= m OBVIOUS
  <2>1. \A k \in R : k = 0
    <3>1. \A k \in 0..0 : k = 0 OBVIOUS
    <3> QED BY <3>1
  <2>2. PICK r \in R : TRUE OBVIOUS
  <2>3. r = 0 /\ \A k \in R : k <= r BY <2>1
  <2> QED BY <2>3
<1>2. ASSUME NEW n \in T PROVE n + 1 \in T
  <2>1. n \in Nat /\ \A R \in SUBSET (0..n) : R # {} => \E m \in R : \A k \in R : k <= m OBVIOUS
  <2> SUFFICES ASSUME NEW R \in SUBSET (0..n + 1), R # {} PROVE \E m \in R : \A k \in R : k <= m
    BY <2>1
  <2>2. CASE n + 1 \in R BY <2>1, <2>2
  <2>3. CASE n + 1 \notin R
    <3>1. R \in SUBSET (0..n) BY <2>1, <2>3
    <3> QED BY <2>1, <3>1
  <2> QED BY <2>2, <2>3
<1> HIDE DEF T
<1>3. T = Nat
  <2>1. T \in SUBSET Nat BY DEF T
  <2> QED BY <1>1, <1>2, <2>1, AllNumbers
<1> QED BY <1>3 DEF T

LEMMA LeastIs ==
  ASSUME NEW N \in Nat, NEW S \in SUBSET (0..N), S # {} PROVE \E m \in S : \A k \in S : m <= k
<1> DEFINE R == {N - k : k \in S}
<1>1. R \in SUBSET (0..N) /\ R # {}
  <2>1. \A k \in S : N - k \in 0..N OBVIOUS
  <2> QED BY <2>1
<1>2. PICK m \in R : \A k \in R : k <= m BY <1>1, GreatestIs
<1>3. N - m \in S /\ m \in 0..N BY <1>1, <1>2
<1>4. \A k \in S : N - k <= m BY <1>2
<1> QED BY <1>3, <1>4


----------------------------------------
(* Connections, what is watched of connections to MySQL.  What runs was
   begun at the time that is noted for it, and what is taken out of the
   pool as well. *)

WatchIInv ==
  /\ link \in [Links -> [at : {"pool", "held", "executing"}, since : Nat, began : Nat]]
  /\ timing \in [Links -> Nat] /\ taken \in [Links -> Nat] /\ clock \in Nat
  /\ \A k \in Links : /\ link[k].at = "executing" => timing[k] = link[k].began
                      /\ link[k].at # "pool" => taken[k] = link[k].since
  /\ noted = truly

LEMMA InitWatch == ASSUME WatchInit PROVE WatchIInv
  BY ConnectionsAssumption DEF WatchInit, WatchIInv, Free, Never

LEMMA WatchThen == ASSUME WatchIInv PROVE WatchTrue
  BY DEF WatchIInv, WatchTrue

LEMMA WatchNextKeeps == ASSUME WatchIInv, [WatchNext]_watchVars PROVE WatchIInv'
<1> USE DEF WatchIInv
<1>1. Never \in Nat BY ConnectionsAssumption DEF Never
<1>2. CASE TimePasses BY <1>2 DEF TimePasses
<1>3. ASSUME NEW k \in Links, CheckOut(k) PROVE WatchIInv' BY <1>3 DEF CheckOut
<1>4. ASSUME NEW k \in Links, BeforeExecute(k) PROVE WatchIInv' BY <1>4 DEF BeforeExecute
<1>5. ASSUME NEW k \in Links, AfterExecute(k) PROVE WatchIInv'
  <2>1. noted' = truly' BY <1>5 DEF AfterExecute
  <2>2. /\ link' = [link EXCEPT ![k].at = "held"] /\ timing' = [timing EXCEPT ![k] = Never]
        /\ UNCHANGED <<clock, taken>> /\ link[k].at = "executing"
    BY <1>5 DEF AfterExecute
  <2> QED BY <1>1, <2>1, <2>2
<1>6. ASSUME NEW k \in Links, StatementFails(k) PROVE WatchIInv' BY <1>6 DEF StatementFails
<1>7. ASSUME NEW k \in Links, Invalidated(k) PROVE WatchIInv' BY <1>7 DEF Invalidated, Free
<1>8. ASSUME NEW k \in Links, NEW commits \in BOOLEAN, CheckIn(k, commits) PROVE WatchIInv'
  <2>1. /\ link[k].at = "held" /\ link' = [link EXCEPT ![k] = Free]
        /\ taken' = [taken EXCEPT ![k] = Never] /\ UNCHANGED <<clock, timing>>
    BY <1>8 DEF CheckIn
  <2>2. clock - taken[k] = clock - link[k].since BY <2>1
  <2>3. noted' = truly' BY <1>8, <2>2 DEF CheckIn
  <2> QED BY <1>1, <2>1, <2>3 DEF Free
<1>9. CASE UNCHANGED watchVars BY <1>9 DEF watchVars
<1> QED BY <1>2, <1>3, <1>4, <1>5, <1>6, <1>7, <1>8, <1>9 DEF WatchNext

----------------------------------------
(* Connections, the publisher of RocketMQ.  The broker has a message of a
   call once at most, never before the call is done with its thread, and
   at the level that the call has looked up. *)

Sendings == [at : {"new", "building", "sending", "older", "sent", "raised"},
             op : {"none", "publish", "delay"}, seconds : Nat, level : Nat, awaited : BOOLEAN]
Fits(level, op, seconds) ==
  IF op = "publish" THEN level = NoLevel
  ELSE /\ level \in DOMAIN DelayLevelSeconds /\ DelayLevelSeconds[level] >= seconds
       /\ level = 1 \/ DelayLevelSeconds[level - 1] < seconds
Deliveries == [of : RocketSenders, level : Nat]

RocketIInv ==
  /\ sender \in [RocketSenders -> Sendings] /\ delivered \in Seq(Deliveries) /\ published \in Nat
  /\ published <= Len(delivered)
  /\ \A m, n \in DOMAIN delivered : delivered[m].of = delivered[n].of => m = n
  /\ \A n \in DOMAIN delivered :
       LET s == delivered[n].of
       IN  sender[s].at \in {"sent", "raised"} /\ Fits(delivered[n].level, sender[s].op, sender[s].seconds)
  /\ \A s \in RocketSenders :
       /\ sender[s].at = "sent" => \E n \in DOMAIN delivered : delivered[n].of = s
       /\ sender[s].at \in {"sending", "older"} => Fits(sender[s].level, sender[s].op, sender[s].seconds)
       /\ sender[s].at \in {"new", "building"} => sender[s].level = NoLevel
       /\ sender[s].at = "building" => sender[s].op # "none"

LEMMA InitRocket == ASSUME PublisherInit PROVE RocketIInv
  BY DEF PublisherInit, RocketIInv, NoSending, Sendings, NoLevel

LEMMA RocketThen == ASSUME RocketIInv PROVE SentAsAsked
<1> DEFINE of(s) == {n \in DOMAIN delivered : delivered[n].of = s}
<1>1. ASSUME NEW s \in RocketSenders PROVE Cardinality(of(s)) <= 1
  <2>1. CASE of(s) = {} BY <2>1, FS_EmptySet
  <2>2. CASE of(s) # {}
    <3>1. PICK n \in of(s) : TRUE BY <2>2
    <3>2. of(s) = {n} BY <3>1 DEF RocketIInv
    <3> QED BY <3>2, FS_Singleton
  <2> QED BY <2>1, <2>2
<1>2. \A s \in RocketSenders :
  /\ sender[s].at = "sent" => of(s) # {}
  /\ InThread(s) => of(s) = {}
  BY DEF RocketIInv, InThread
<1>3. \A s \in RocketSenders : \A n \in of(s) : Fits(delivered[n].level, sender[s].op, sender[s].seconds)
  BY DEF RocketIInv
<1>4. published <= Len(delivered) BY DEF RocketIInv
<1> QED BY <1>1, <1>2, <1>3, <1>4 DEF SentAsAsked, Fits

LEMMA LevelsFit ==
  ASSUME NEW seconds \in Nat, seconds <= LongestDelay
  PROVE  DelayLevelFor(seconds) \in Nat /\ Fits(DelayLevelFor(seconds), "delay", seconds)
<1>1. /\ DOMAIN DelayLevelSeconds = 1..18 /\ LongestDelay = DelayLevelSeconds[18]
      /\ \A n \in 1..18 : DelayLevelSeconds[n] \in Nat
  BY DEF DelayLevelSeconds, LongestDelay
<1> DEFINE S == {n \in 1..18 : seconds <= DelayLevelSeconds[n]}
           fits(n) == /\ seconds <= DelayLevelSeconds[n]
                      /\ \A lower \in 1..(n - 1) : DelayLevelSeconds[lower] < seconds
<1>2. S \in SUBSET (0..18) /\ 18 \in S BY <1>1
<1> HIDE DEF S
<1>3. PICK m \in S : \A n \in S : m <= n BY <1>2, LeastIs
<1>4. m \in DOMAIN DelayLevelSeconds /\ fits(m)
  <2>1. m \in 1..18 /\ seconds <= DelayLevelSeconds[m] BY DEF S
  <2>2. ASSUME NEW lower \in 1..(m - 1) PROVE DelayLevelSeconds[lower] < seconds
    <3>1. lower \in 1..18 /\ lower < m BY <2>1
    <3>2. lower \notin S BY <1>3, <2>1, <3>1
    <3> QED BY <1>1, <3>1, <3>2 DEF S
  <2> QED BY <1>1, <2>1, <2>2
<1> DEFINE level == DelayLevelFor(seconds)
<1>5. level \in DOMAIN DelayLevelSeconds /\ fits(level) BY <1>4 DEF DelayLevelFor
<1> HIDE DEF level
<1>6. level \in 1..18 BY <1>1, <1>5
<1>7. level # 1 => level - 1 \in 1..(level - 1) BY <1>6
<1> HIDE DEF fits
<1>8. seconds <= DelayLevelSeconds[level]
      /\ \A lower \in 1..(level - 1) : DelayLevelSeconds[lower] < seconds
  BY <1>5 DEF fits
<1>9. DelayLevelSeconds[level] >= seconds BY <1>1, <1>6, <1>8
<1>10. Fits(level, "delay", seconds) BY <1>5, <1>7, <1>8, <1>9 DEF Fits
<1> QED BY <1>6, <1>10 DEF level

(* A step of one call that sends nothing. *)
LEMMA SenderSteps ==
  ASSUME RocketIInv, NEW s \in RocketSenders, NEW r \in Sendings,
         sender[s].at \notin {"sent", "raised"},
         sender' = [sender EXCEPT ![s] = r], r.at # "sent",
         r.at \in {"sending", "older"} => Fits(r.level, r.op, r.seconds),
         r.at # "new", r.at = "building" => r.level = NoLevel /\ r.op # "none",
         UNCHANGED <<delivered, published>>
  PROVE  RocketIInv'
<1>1. /\ sender' \in [RocketSenders -> Sendings] /\ sender'[s] = r
      /\ \A u \in RocketSenders : u # s => sender'[u] = sender[u]
  BY DEF RocketIInv
<1>2. \A n \in DOMAIN delivered : delivered[n].of \in RocketSenders /\ delivered[n].of # s
  <2> SUFFICES ASSUME NEW n \in DOMAIN delivered
               PROVE  delivered[n].of \in RocketSenders /\ delivered[n].of # s
    OBVIOUS
  <2>1. delivered[n] \in Deliveries BY DEF RocketIInv
  <2>2. sender[delivered[n].of].at \in {"sent", "raised"} BY DEF RocketIInv
  <2> QED BY <2>1, <2>2 DEF Deliveries
<1> QED BY <1>1, <1>2 DEF RocketIInv

(* A message is delivered. *)
LEMMA DeliverySteps ==
  ASSUME RocketIInv, NEW s \in RocketSenders, NEW r \in Sendings,
         sender[s].at \in {"sending", "older"},
         sender' = [sender EXCEPT ![s] = r], r.at \in {"sent", "raised"},
         r.op = sender[s].op, r.seconds = sender[s].seconds,
         delivered' = Append(delivered, [of |-> s, level |-> sender[s].level]),
         published' \in {published, published + 1}
  PROVE  RocketIInv'
<1> DEFINE d == [of |-> s, level |-> sender[s].level]
           N == Len(delivered)
<1>1. /\ sender \in [RocketSenders -> Sendings] /\ delivered \in Seq(Deliveries)
      /\ published \in Nat /\ published <= Len(delivered)
  BY DEF RocketIInv
<1>2. /\ sender' \in [RocketSenders -> Sendings] /\ sender'[s] = r
      /\ \A u \in RocketSenders : u # s => sender'[u] = sender[u]
  BY <1>1
<1>3. d \in Deliveries BY <1>1 DEF Deliveries, Sendings
<1>4. \A n \in 1..N :
  /\ delivered[n].of \in RocketSenders /\ delivered[n].of # s
  /\ delivered[n] \in Deliveries
  <2> SUFFICES ASSUME NEW n \in 1..N
               PROVE  delivered[n] \in Deliveries /\ delivered[n].of \in RocketSenders
                      /\ delivered[n].of # s
    OBVIOUS
  <2>1. n \in DOMAIN delivered BY <1>1
  <2>2. delivered[n] \in Deliveries BY <1>1, <2>1
  <2>3. sender[delivered[n].of].at \in {"sent", "raised"} BY <2>1 DEF RocketIInv
  <2> QED BY <2>2, <2>3 DEF Deliveries
<1> HIDE DEF d, N
<1>5. /\ delivered' \in Seq(Deliveries) /\ Len(delivered') = N + 1 /\ N \in Nat
      /\ \A n \in 1..N : delivered'[n] = delivered[n]
      /\ delivered'[N + 1] = d
  BY <1>1, <1>3, AppendProperties DEF N, d
<1>6. DOMAIN delivered' = 1..N + 1 /\ DOMAIN delivered = 1..N BY <1>1, <1>5 DEF N
<1>7. d.of = s /\ d.level = sender[s].level BY DEF d
<1>8. published' \in Nat /\ published' <= Len(delivered') BY <1>1, <1>5 DEF N
<1>9. \A m, n \in DOMAIN delivered' : delivered'[m].of = delivered'[n].of => m = n
  <2> SUFFICES ASSUME NEW m \in 1..N + 1, NEW n \in 1..N + 1, delivered'[m].of = delivered'[n].of
               PROVE  m = n
    BY <1>6
  <2>1. CASE m \in 1..N /\ n \in 1..N BY <1>5, <1>6, <2>1 DEF RocketIInv
  <2>2. CASE m = N + 1 /\ n \in 1..N BY <1>4, <1>5, <1>7, <2>2
  <2>3. CASE n = N + 1 /\ m \in 1..N BY <1>4, <1>5, <1>7, <2>3
  <2> QED BY <1>5, <2>1, <2>2, <2>3
<1>10. \A n \in DOMAIN delivered' :
         /\ sender'[delivered'[n].of].at \in {"sent", "raised"}
         /\ Fits(delivered'[n].level, sender'[delivered'[n].of].op, sender'[delivered'[n].of].seconds)
  <2> SUFFICES ASSUME NEW n \in 1..N + 1
               PROVE  /\ sender'[delivered'[n].of].at \in {"sent", "raised"}
                      /\ Fits(delivered'[n].level, sender'[delivered'[n].of].op,
                              sender'[delivered'[n].of].seconds)
    BY <1>6
  <2>1. CASE n \in 1..N
    <3>1. delivered'[n] = delivered[n] /\ sender'[delivered[n].of] = sender[delivered[n].of]
      BY <1>2, <1>4, <1>5, <2>1
    <3> QED BY <1>6, <2>1, <3>1 DEF RocketIInv
  <2>2. CASE n = N + 1
    <3>1. delivered'[n] = d /\ sender'[s] = r BY <1>2, <1>5, <2>2
    <3>2. Fits(sender[s].level, sender[s].op, sender[s].seconds) BY DEF RocketIInv
    <3> QED BY <1>7, <3>1, <3>2
  <2> QED BY <1>5, <2>1, <2>2
<1>11. \A u \in RocketSenders :
         /\ sender'[u].at = "sent" => \E n \in DOMAIN delivered' : delivered'[n].of = u
         /\ sender'[u].at \in {"sending", "older"} =>
              Fits(sender'[u].level, sender'[u].op, sender'[u].seconds)
         /\ sender'[u].at \in {"new", "building"} => sender'[u].level = NoLevel
         /\ sender'[u].at = "building" => sender'[u].op # "none"
  <2> SUFFICES ASSUME NEW u \in RocketSenders
               PROVE  /\ sender'[u].at = "sent" => \E n \in DOMAIN delivered' : delivered'[n].of = u
                      /\ sender'[u].at \in {"sending", "older"} =>
                           Fits(sender'[u].level, sender'[u].op, sender'[u].seconds)
                      /\ sender'[u].at \in {"new", "building"} => sender'[u].level = NoLevel
                      /\ sender'[u].at = "building" => sender'[u].op # "none"
    BY Zenon
  <2>1. CASE u = s
    <3>1. N + 1 \in DOMAIN delivered' /\ delivered'[N + 1].of = s BY <1>5, <1>6, <1>7
    <3> QED BY <1>2, <2>1, <3>1
  <2>2. CASE u # s
    <3>1. sender'[u] = sender[u] BY <1>2, <2>2
    <3>2. sender[u].at = "sent" => \E n \in DOMAIN delivered' : delivered'[n].of = u
      BY <1>5, <1>6 DEF RocketIInv
    <3> QED BY <3>1, <3>2 DEF RocketIInv
  <2> QED BY <2>1, <2>2
<1> QED BY <1>2, <1>5, <1>8, <1>9, <1>10, <1>11 DEF RocketIInv

LEMMA SenderAt ==
  ASSUME RocketIInv, NEW s \in RocketSenders,
         NEW at \in {"new", "building", "sending", "older", "sent", "raised"}
  PROVE  \E r \in Sendings :
    /\ [sender EXCEPT ![s].at = at] = [sender EXCEPT ![s] = r]
    /\ r.at = at /\ r.op = sender[s].op /\ r.seconds = sender[s].seconds
    /\ r.level = sender[s].level
<1>1. PICK old \in Sendings : old = sender[s] BY DEF RocketIInv
<1> DEFINE r == [old EXCEPT !.at = at]
<1>2. r \in Sendings /\ r.at = at /\ r.op = old.op /\ r.seconds = old.seconds /\ r.level = old.level
  BY DEF Sendings
<1>3. [sender EXCEPT ![s].at = at] = [sender EXCEPT ![s] = r] BY <1>1 DEF RocketIInv
<1> HIDE DEF r
<1> QED BY <1>1, <1>2, <1>3

LEMMA PublishFits == ASSUME RocketIInv, NEW s \in RocketSenders, Publish(s) PROVE RocketIInv'
<1>1. PICK old \in Sendings : old = sender[s] BY DEF RocketIInv
<1> DEFINE r == [old EXCEPT !.at = "building", !.op = "publish"]
<1>2. sender' = [sender EXCEPT ![s] = r] BY <1>1 DEF Publish, RocketIInv
<1>3. r \in Sendings /\ r.at = "building" /\ r.level = old.level /\ r.op # "none" /\ old.at = "new"
  BY <1>1 DEF Sendings, Publish
<1>4. UNCHANGED <<delivered, published>> BY DEF Publish
<1> HIDE DEF r
<1>5. old.level = NoLevel BY <1>1, <1>3 DEF RocketIInv
<1> QED BY <1>1, <1>2, <1>3, <1>4, <1>5, SenderSteps

LEMMA SendDelayFits ==
  ASSUME RocketIInv, NEW s \in RocketSenders, NEW seconds \in RocketDelays, SendDelay(s, seconds)
  PROVE  RocketIInv'
<1>1. PICK old \in Sendings : old = sender[s] BY DEF RocketIInv
<1> DEFINE r == [old EXCEPT !.at = "building", !.op = "delay", !.seconds = seconds]
<1>2. sender' = [sender EXCEPT ![s] = r] BY <1>1 DEF SendDelay, RocketIInv
<1>3. r \in Sendings /\ r.at = "building" /\ r.level = old.level /\ r.op # "none" /\ old.at = "new"
  BY <1>1, ConnectionsAssumption DEF Sendings, SendDelay
<1>4. UNCHANGED <<delivered, published>> BY DEF SendDelay
<1> HIDE DEF r
<1>5. old.level = NoLevel BY <1>1, <1>3 DEF RocketIInv
<1> QED BY <1>1, <1>2, <1>3, <1>4, <1>5, SenderSteps

LEMMA BuildMessageFits == ASSUME RocketIInv, NEW s \in RocketSenders, BuildMessage(s) PROVE RocketIInv'
<1>1. PICK old \in Sendings : old = sender[s] BY DEF RocketIInv
<1>2. old.at = "building" /\ old.level = NoLevel /\ UNCHANGED <<delivered, published>>
  BY <1>1 DEF BuildMessage, RocketIInv
<1>3. old.op \in {"publish", "delay"} BY <1>1, <1>2 DEF RocketIInv, Sendings
<1>4. CASE old.op = "publish"
  <2>1. sender' = [sender EXCEPT ![s].at = "sending"] BY <1>1, <1>4 DEF BuildMessage
  <2>2. PICK r \in Sendings :
    /\ [sender EXCEPT ![s].at = "sending"] = [sender EXCEPT ![s] = r]
    /\ r.at = "sending" /\ r.op = sender[s].op /\ r.level = sender[s].level
    BY SenderAt
  <2>3. sender' = [sender EXCEPT ![s] = r] /\ r.at = "sending" /\ r.op = old.op /\ r.level = old.level
    BY <1>1, <2>1, <2>2
  <2>4. Fits(r.level, r.op, r.seconds) BY <1>2, <1>4, <2>3 DEF Fits
  <2> QED BY <1>1, <1>2, <2>3, <2>4, SenderSteps
<1>5. CASE old.op = "delay" /\ old.seconds > LongestDelay
  <2>1. sender' = [sender EXCEPT ![s].at = "raised"] BY <1>1, <1>5 DEF BuildMessage
  <2>2. PICK r \in Sendings : sender' = [sender EXCEPT ![s] = r] /\ r.at = "raised"
    BY <2>1, SenderAt
  <2> QED BY <1>1, <1>2, <2>2, SenderSteps
<1>6. CASE old.op = "delay" /\ ~(old.seconds > LongestDelay)
  <2> DEFINE level == DelayLevelFor(old.seconds)
             r == [old EXCEPT !.at = "sending", !.level = level]
  <2>1. LongestDelay \in Nat /\ old.seconds \in Nat BY DEF LongestDelay, DelayLevelSeconds, Sendings
  <2>2. level \in Nat /\ Fits(level, "delay", old.seconds) BY <1>6, <2>1, LevelsFit
  <2>3. sender' = [sender EXCEPT ![s].at = "sending", ![s].level = level]
    BY <1>1, <1>6 DEF BuildMessage
  <2> HIDE DEF level
  <2>4. sender' = [sender EXCEPT ![s] = r] BY <1>1, <2>3 DEF RocketIInv
  <2>5. r \in Sendings /\ r.at = "sending" /\ r.level = level /\ r.op = old.op /\ r.seconds = old.seconds
    BY <2>2 DEF Sendings
  <2> HIDE DEF r
  <2> QED BY <1>1, <1>2, <1>6, <2>2, <2>4, <2>5, SenderSteps
<1> QED BY <1>3, <1>4, <1>5, <1>6

LEMMA AcceptedFits ==
  ASSUME RocketIInv, NEW s \in RocketSenders, sender[s].at \in {"sending", "older"}, Accepted(s)
  PROVE  RocketIInv'
<1>1. PICK r \in Sendings :
  /\ [sender EXCEPT ![s].at = "sent"] = [sender EXCEPT ![s] = r]
  /\ r.at = "sent" /\ r.op = sender[s].op /\ r.seconds = sender[s].seconds
  BY SenderAt
<1> QED BY <1>1, DeliverySteps DEF Accepted

LEMMA SendRaisesFits == ASSUME RocketIInv, NEW s \in RocketSenders, SendRaises(s) PROVE RocketIInv'
<1>1. PICK r \in Sendings :
  /\ [sender EXCEPT ![s].at = "raised"] = [sender EXCEPT ![s] = r]
  /\ r.at = "raised" /\ r.op = sender[s].op /\ r.seconds = sender[s].seconds
  BY SenderAt
<1>2. sender' = [sender EXCEPT ![s] = r] /\ published' = published /\ sender[s].at \in {"sending", "older"}
  BY <1>1 DEF SendRaises
<1>3. CASE UNCHANGED delivered BY <1>1, <1>2, <1>3, SenderSteps
<1>4. CASE delivered' = Append(delivered, [of |-> s, level |-> sender[s].level])
  BY <1>1, <1>2, <1>4, DeliverySteps
<1> QED BY <1>3, <1>4 DEF SendRaises

LEMMA SendSyncFits == ASSUME RocketIInv, NEW s \in RocketSenders, SendSync(s) PROVE RocketIInv'
<1>1. CASE Accepted(s) BY <1>1, AcceptedFits DEF SendSync
<1>2. CASE sender' = [sender EXCEPT ![s].at = "older"] /\ UNCHANGED <<delivered, published>>
  <2>1. PICK r \in Sendings :
    /\ sender' = [sender EXCEPT ![s] = r] /\ r.at = "older"
    /\ r.op = sender[s].op /\ r.seconds = sender[s].seconds
    /\ r.level = sender[s].level
    BY <1>2, SenderAt
  <2>2. sender[s].at = "sending" BY DEF SendSync
  <2>3. Fits(r.level, r.op, r.seconds) BY <2>1, <2>2 DEF RocketIInv
  <2> QED BY <1>2, <2>1, <2>2, <2>3, SenderSteps
<1> QED BY <1>1, <1>2 DEF SendSync

LEMMA SenderCancelledFits ==
  ASSUME RocketIInv, NEW s \in RocketSenders, SenderCancelled(s) PROVE RocketIInv'
<1>1. PICK old \in Sendings : old = sender[s] BY DEF RocketIInv
<1> DEFINE r == [old EXCEPT !.awaited = FALSE]
<1>2. sender' = [sender EXCEPT ![s] = r] BY <1>1 DEF SenderCancelled, RocketIInv
<1>3. /\ r \in Sendings /\ r.at = old.at /\ r.op = old.op /\ r.seconds = old.seconds
      /\ r.level = old.level
  BY DEF Sendings
<1>4. old.at \in {"building", "sending", "older"} /\ UNCHANGED <<delivered, published>>
  BY <1>1 DEF SenderCancelled, InThread
<1> HIDE DEF r
<1>5. /\ old.at \in {"sending", "older"} => Fits(old.level, old.op, old.seconds)
      /\ old.at = "building" => old.level = NoLevel /\ old.op # "none"
  BY <1>1 DEF RocketIInv
<1> QED BY <1>1, <1>2, <1>3, <1>4, <1>5, SenderSteps

LEMMA RocketNextKeeps == ASSUME RocketIInv, [RocketNext]_rocketVars PROVE RocketIInv'
<1>1. CASE ClosePublisher BY <1>1 DEF ClosePublisher, RocketIInv
<1>2. ASSUME NEW s \in RocketSenders, SendOlder(s) PROVE RocketIInv'
  BY <1>2, AcceptedFits DEF SendOlder
<1>3. CASE UNCHANGED rocketVars BY <1>3 DEF rocketVars, RocketIInv
<1> QED BY <1>1, <1>2, <1>3, PublishFits, SendDelayFits, BuildMessageFits, SendSyncFits,
           SendRaisesFits, SenderCancelledFits DEF RocketNext

----------------------------------------
(* Connections, tenants.  What an ORM session has loaded is of the tenant
   of its context, or there is a reason; what the session sees of it is
   what its row has, or the tenant was assigned. *)
Assignable == Tenants \cup {Unset}
Objects == [model : TenantModels, tenant : Assignable]
RowStates == [model : TenantModels, tenant : Assignable \cup {NoTenant}, live : BOOLEAN,
              given : BOOLEAN]
OrmStates == [kind : {"none", "orm", "replica", "text"}, fresh : Seq(Objects),
              loaded : SUBSET Nat, besides : SUBSET Nat,
              seen : [1..MaxRows -> Assignable \cup {NoTenant}],
              dirty : SUBSET Nat, given : SUBSET Nat, doomed : SUBSET Nat, moved : BOOLEAN]

TenantsTyped ==
  /\ strict \in BOOLEAN /\ context \in [OrmSessions -> Assignable]
  /\ rows \in Seq(RowStates) /\ Len(rows) <= MaxRows /\ orm \in [OrmSessions -> OrmStates]

ObjectFits(o, n, tenant, row) ==
  /\ row.tenant = tenant \/ o.moved \/ n \in o.besides \/ row.given
  /\ o.seen[n] = row.tenant \/ n \in o.given \/ row.given
OrmFits(o, tenant, list) ==
  /\ o.dirty \subseteq o.loaded /\ o.doomed \subseteq o.loaded /\ o.given \subseteq o.loaded
  /\ o.loaded \subseteq DOMAIN list
  /\ \A n \in o.given : o.seen[n] \in Assignable
  /\ o.kind = "orm" => \A n \in o.loaded : list[n].live => ObjectFits(o, n, tenant, list[n])

SessionsFit == \A x \in OrmSessions : OrmFits(orm[x], CurrentTenant(x), rows)

TenantsIInv == TenantsTyped /\ SessionsFit /\ TenantIsolated

LEMMA TenantsThen == ASSUME TenantsIInv PROVE TenantIsolated
  BY DEF TenantsIInv

LEMMA TenantNames == NoTenant \notin Assignable /\ Unset \in Assignable /\ Unset # NoTenant
  BY ConnectionsAssumption DEF NoTenant, Assignable

LEMMA SessionMade ==
  ASSUME NEW sort \in {"none", "orm", "replica", "text"}, NEW tenant, NEW list
  PROVE  /\ [NoSession EXCEPT !.kind = sort] \in OrmStates
         /\ OrmFits([NoSession EXCEPT !.kind = sort], tenant, list)
  BY EmptySeq DEF NoSession, OrmStates, OrmFits

LEMMA NoSessionFits ==
  ASSUME NEW tenant, NEW list PROVE NoSession \in OrmStates /\ OrmFits(NoSession, tenant, list)
  BY EmptySeq DEF NoSession, OrmStates, OrmFits

LEMMA InitTenants == ASSUME TenantsInit PROVE TenantsIInv
<1>1. TenantsTyped
  BY NoSessionFits, EmptySeq, ConnectionsAssumption DEF TenantsInit, TenantsTyped, Assignable
<1>2. SessionsFit BY NoSessionFits DEF TenantsInit, SessionsFit
<1>3. TenantIsolated BY DEF TenantsInit, TenantIsolated
<1> QED BY <1>1, <1>2, <1>3 DEF TenantsIInv

LEMMA RowsTyped ==
  ASSUME TenantsTyped
  PROVE  /\ Len(rows) \in Nat /\ DOMAIN rows = 1..Len(rows) /\ DOMAIN rows \subseteq 1..MaxRows
         /\ \A n \in DOMAIN rows : rows[n] \in RowStates
<1>1. Len(rows) \in Nat /\ DOMAIN rows = 1..Len(rows) BY LenProperties DEF TenantsTyped
<1>2. \A n \in DOMAIN rows : rows[n] \in RowStates BY <1>1, ElementOfSeq DEF TenantsTyped
<1> QED BY <1>1, <1>2, ConnectionsAssumption DEF TenantsTyped

(* A session goes on, rows stay as they are, are given a tenant or end, or
   more are added: what other sessions have loaded fits as it did. *)
LEMMA RowsGo ==
  ASSUME TenantsIInv, NEW x \in OrmSessions, NEW r \in OrmStates,
         orm' = [orm EXCEPT ![x] = r], OrmFits(r, CurrentTenant(x), rows'),
         UNCHANGED <<strict, context>>, rows' \in Seq(RowStates), Len(rows') <= MaxRows,
         DOMAIN rows \subseteq DOMAIN rows',
         \A n \in DOMAIN rows : rows'[n].live => rows[n].live /\ (rows'[n] = rows[n] \/ rows'[n].given)
  PROVE  TenantsTyped' /\ SessionsFit'
<1>1. TenantsTyped /\ SessionsFit BY DEF TenantsIInv
<1>2. /\ orm' \in [OrmSessions -> OrmStates] /\ orm'[x] = r
      /\ \A y \in OrmSessions : y # x => orm'[y] = orm[y]
  BY <1>1 DEF TenantsTyped
<1>3. TenantsTyped' BY <1>1, <1>2 DEF TenantsTyped
<1>4. ASSUME NEW y \in OrmSessions PROVE OrmFits(orm[y], CurrentTenant(y), rows)'
  <2>1. CurrentTenant(y)' = CurrentTenant(y) BY DEF CurrentTenant
  <2>2. CASE y = x BY <1>2, <2>1, <2>2
  <2>3. CASE y # x
    <3>1. OrmFits(orm'[y], CurrentTenant(y), rows) BY <1>1, <1>2, <2>3 DEF SessionsFit
    <3>2. OrmFits(orm'[y], CurrentTenant(y), rows') BY <3>1 DEF OrmFits, ObjectFits
    <3> QED BY <2>1, <3>2
  <2> QED BY <2>2, <2>3
<1> QED BY <1>3, <1>4, Zenon DEF SessionsFit

(* Where a session goes on and rows stay. *)
LEMMA SessionGoes ==
  ASSUME TenantsIInv, NEW x \in OrmSessions, NEW r \in OrmStates,
         orm' = [orm EXCEPT ![x] = r], OrmFits(r, CurrentTenant(x), rows),
         UNCHANGED <<strict, context, rows>>, crossed' = {}
  PROVE  TenantsIInv'
<1>1. rows \in Seq(RowStates) /\ Len(rows) <= MaxRows /\ TenantIsolated BY DEF TenantsIInv, TenantsTyped
<1>2. TenantsTyped' /\ SessionsFit' BY <1>1, RowsGo
<1>3. TenantIsolated' BY <1>1 DEF TenantIsolated
<1> QED BY <1>2, <1>3 DEF TenantsIInv

(* What is the current tenant of a session: no tenant only where there is
   none. *)
LEMMA CurrentIs ==
  ASSUME TenantsTyped, NEW x \in OrmSessions
  PROVE  /\ CurrentTenant(x) \in Assignable \cup {NoTenant}
         /\ ~Denied(x) /\ strict => CurrentTenant(x) # NoTenant
  BY TenantNames DEF TenantsTyped, CurrentTenant, Denied

LEMMA SetContextKeeps ==
  ASSUME TenantsIInv, NEW x \in OrmSessions, NEW t \in Tenants \cup {Unset}, SetContext(x, t)
  PROVE  TenantsIInv'
<1>1. TenantsTyped /\ SessionsFit /\ TenantIsolated BY DEF TenantsIInv
<1>2. PICK o \in OrmStates : o = orm[x] BY <1>1 DEF TenantsTyped
<1>3. OrmFits(o, CurrentTenant(x), rows) BY <1>1, <1>2 DEF SessionsFit
<1>4. PICK b \in BOOLEAN : b <=> o.kind # "none" OBVIOUS
<1> DEFINE r == [o EXCEPT !.moved = b]
<1>5. /\ r \in OrmStates /\ r.kind = o.kind /\ r.loaded = o.loaded /\ r.dirty = o.dirty
      /\ r.doomed = o.doomed /\ r.given = o.given /\ r.seen = o.seen /\ r.besides = o.besides
  BY DEF OrmStates
<1>6. r.moved <=> b BY DEF OrmStates
<1>7. orm' = [orm EXCEPT ![x] = r]
  <2>1. orm' = [orm EXCEPT ![x].moved = o.kind # "none"] BY <1>2 DEF SetContext
  <2>2. CASE o.kind = "none" BY <1>2, <1>4, <2>1, <2>2
  <2>3. CASE o.kind # "none" BY <1>2, <1>4, <2>1, <2>3
  <2> QED BY <2>2, <2>3
<1> HIDE DEF r
<1>8. UNCHANGED <<strict, rows>> /\ crossed' = {} /\ context' = [context EXCEPT ![x] = t]
      /\ t \in Assignable
  BY DEF SetContext, Assignable
<1>9. /\ orm' \in [OrmSessions -> OrmStates] /\ orm'[x] = r
      /\ \A y \in OrmSessions : y # x => orm'[y] = orm[y]
  BY <1>1, <1>5, <1>7 DEF TenantsTyped
<1>10. TenantsTyped' BY <1>1, <1>8, <1>9 DEF TenantsTyped
<1>11. ASSUME NEW y \in OrmSessions PROVE OrmFits(orm[y], CurrentTenant(y), rows)'
  <2>1. CASE y = x
    <3>1. OrmFits(r, CurrentTenant(y)', rows) BY <1>3, <1>4, <1>5, <1>6 DEF OrmFits, ObjectFits
    <3> QED BY <1>8, <1>9, <2>1, <3>1
  <2>2. CASE y # x
    <3>1. CurrentTenant(y)' = CurrentTenant(y) BY <1>1, <1>8, <2>2 DEF CurrentTenant, TenantsTyped
    <3>2. OrmFits(orm'[y], CurrentTenant(y), rows) BY <1>1, <1>9, <2>2 DEF SessionsFit
    <3> QED BY <1>8, <3>1, <3>2
  <2> QED BY <2>1, <2>2
<1>12. TenantIsolated' BY <1>1, <1>8 DEF TenantIsolated
<1> QED BY <1>10, <1>11, <1>12, Zenon DEF TenantsIInv, SessionsFit

LEMMA OpenOrmKeeps ==
  ASSUME TenantsIInv, NEW x \in OrmSessions, NEW sort \in {"orm", "replica", "text"},
         OpenOrm(x, sort)
  PROVE  TenantsIInv'
<1> DEFINE r == [NoSession EXCEPT !.kind = sort]
<1>1. r \in OrmStates /\ OrmFits(r, CurrentTenant(x), rows) BY SessionMade
<1>2. orm' = [orm EXCEPT ![x] = r] /\ UNCHANGED <<strict, context, rows>> /\ crossed' = {}
  BY DEF OpenOrm
<1> HIDE DEF r
<1> QED BY <1>1, <1>2, SessionGoes

LEMMA CloseOrmKeeps ==
  ASSUME TenantsIInv, NEW x \in OrmSessions, CloseOrm(x) PROVE TenantsIInv'
<1>1. NoSession \in OrmStates /\ OrmFits(NoSession, CurrentTenant(x), rows) BY NoSessionFits
<1>2. orm' = [orm EXCEPT ![x] = NoSession] /\ UNCHANGED <<strict, context, rows>> /\ crossed' = {}
  BY DEF CloseOrm
<1> QED BY <1>1, <1>2, SessionGoes

LEMMA AddObjectKeeps ==
  ASSUME TenantsIInv, NEW x \in OrmSessions, NEW m \in TenantModels,
         NEW t \in NewTenants, AddObject(x, m, t)
  PROVE  TenantsIInv'
<1>1. PICK o \in OrmStates : o = orm[x] BY DEF TenantsIInv, TenantsTyped
<1>2. OrmFits(o, CurrentTenant(x), rows) BY <1>1 DEF TenantsIInv, SessionsFit
<1>3. PICK f \in Seq(Objects) : f = <<[model |-> m, tenant |-> t]>>
  <2>1. [model |-> m, tenant |-> t] \in Objects BY ConnectionsAssumption DEF Objects, Assignable
  <2>2. \A q \in Objects : <<q>> \in Seq(Objects) OBVIOUS
  <2> QED BY <2>1, <2>2
<1> DEFINE r == [o EXCEPT !.fresh = f]
<1>4. /\ r \in OrmStates /\ r.kind = o.kind /\ r.loaded = o.loaded /\ r.dirty = o.dirty
      /\ r.doomed = o.doomed /\ r.given = o.given /\ r.seen = o.seen /\ r.besides = o.besides
  BY DEF OrmStates
<1>5. r.moved <=> o.moved BY DEF OrmStates
<1>6. orm' = [orm EXCEPT ![x] = r] /\ UNCHANGED <<strict, context, rows>> /\ crossed' = {}
  BY <1>1, <1>3 DEF AddObject
<1> HIDE DEF r
<1>7. OrmFits(r, CurrentTenant(x), rows) BY <1>2, <1>4, <1>5 DEF OrmFits, ObjectFits
<1> QED BY <1>4, <1>6, <1>7, SessionGoes

LEMMA ChangeObjectKeeps ==
  ASSUME TenantsIInv, NEW x \in OrmSessions, NEW n \in orm[x].loaded, NEW t \in SetTenants,
         ChangeObject(x, n, t)
  PROVE  TenantsIInv'
<1>1. PICK o \in OrmStates : o = orm[x] BY DEF TenantsIInv, TenantsTyped
<1>2. OrmFits(o, CurrentTenant(x), rows) /\ TenantsTyped BY <1>1 DEF TenantsIInv, SessionsFit
<1>3. n \in o.loaded /\ o.loaded \in SUBSET Nat /\ o.dirty \in SUBSET Nat /\ o.given \in SUBSET Nat
      /\ o.seen \in [1..MaxRows -> Assignable \cup {NoTenant}] /\ n \in 1..MaxRows
  BY <1>1, <1>2, RowsTyped DEF OrmStates, OrmFits
<1>4. PICK d \in SUBSET Nat, g \in SUBSET Nat, s \in [1..MaxRows -> Assignable \cup {NoTenant}] :
        /\ d = o.dirty \cup {n} /\ g = o.given \cup (IF t = Unset THEN {} ELSE {n})
        /\ s = [k \in 1..MaxRows |-> IF k \in IF t = Unset THEN {} ELSE {n} THEN t ELSE o.seen[k]]
  <2>1. t \in Assignable BY ConnectionsAssumption DEF Assignable
  <2> QED BY <1>3, <2>1
<1> DEFINE r == [o EXCEPT !.dirty = d, !.given = g, !.seen = s]
<1>5. /\ r \in OrmStates /\ r.kind = o.kind /\ r.loaded = o.loaded /\ r.dirty = d
      /\ r.doomed = o.doomed /\ r.given = g /\ r.seen = s /\ r.besides = o.besides
  BY DEF OrmStates
<1>6. r.moved <=> o.moved BY DEF OrmStates
<1>7. orm' = [orm EXCEPT ![x] = r] /\ UNCHANGED <<strict, context, rows>> /\ crossed' = {}
  <2>1. Changed(o, n, t) = r BY <1>4 DEF Changed
  <2> QED BY <1>1, <2>1 DEF ChangeObject
<1> HIDE DEF r
<1>8. OrmFits(r, CurrentTenant(x), rows)
  <2>1. d \subseteq o.loaded /\ g \subseteq o.loaded BY <1>2, <1>3, <1>4 DEF OrmFits
  <2>2. ASSUME NEW k \in g PROVE s[k] \in Assignable
    <3>1. t \in Assignable BY ConnectionsAssumption DEF Assignable
    <3>2. k \in 1..MaxRows BY <1>2, <2>1, RowsTyped DEF OrmFits
    <3> QED BY <1>2, <1>3, <1>4, <3>1, <3>2 DEF OrmFits
  <2>3. \A k \in o.loaded : s[k] = o.seen[k] \/ k \in g
    <3>1. \A k \in o.loaded : k \in 1..MaxRows BY <1>2, RowsTyped DEF OrmFits
    <3> QED BY <1>3, <1>4, <3>1
  <2>4. o.given \subseteq g BY <1>4
  <2>5. ASSUME o.kind = "orm", NEW k \in o.loaded, rows[k].live
        PROVE  ObjectFits(r, k, CurrentTenant(x), rows[k])
    <3>1. ObjectFits(o, k, CurrentTenant(x), rows[k]) BY <1>2, <2>5 DEF OrmFits
    <3>2. s[k] = o.seen[k] \/ k \in g BY <2>3
    <3> QED BY <1>5, <1>6, <2>4, <3>1, <3>2 DEF ObjectFits
  <2> QED BY <1>2, <1>5, <2>1, <2>2, <2>5 DEF OrmFits
<1> QED BY <1>5, <1>7, <1>8, SessionGoes

LEMMA DeleteObjectKeeps ==
  ASSUME TenantsIInv, NEW x \in OrmSessions, NEW n \in orm[x].loaded, DeleteObject(x, n)
  PROVE  TenantsIInv'
<1>1. PICK o \in OrmStates : o = orm[x] BY DEF TenantsIInv, TenantsTyped
<1>2. OrmFits(o, CurrentTenant(x), rows) BY <1>1 DEF TenantsIInv, SessionsFit
<1>3. PICK q \in SUBSET Nat : q = o.doomed \cup {n} /\ n \in o.loaded
  <2>1. n \in o.loaded /\ o.loaded \in SUBSET Nat /\ o.doomed \in SUBSET Nat BY <1>1 DEF OrmStates
  <2> QED BY <2>1
<1> DEFINE r == [o EXCEPT !.doomed = q]
<1>4. /\ r \in OrmStates /\ r.kind = o.kind /\ r.loaded = o.loaded /\ r.dirty = o.dirty
      /\ r.doomed = q /\ r.given = o.given /\ r.seen = o.seen /\ r.besides = o.besides
  BY DEF OrmStates
<1>5. r.moved <=> o.moved BY DEF OrmStates
<1>6. orm' = [orm EXCEPT ![x] = r] /\ UNCHANGED <<strict, context, rows>> /\ crossed' = {}
  BY <1>1, <1>3 DEF DeleteObject
<1> HIDE DEF r
<1>7. OrmFits(r, CurrentTenant(x), rows) BY <1>2, <1>3, <1>4, <1>5 DEF OrmFits, ObjectFits
<1> QED BY <1>4, <1>6, <1>7, SessionGoes

(* What becomes of the rows that are there. *)
LEMMA RowsEnd ==
  ASSUME TenantsTyped, NEW dead, NEW told, \A n \in DOMAIN told : told[n] \in Assignable,
         NEW list, list = RowsWritten(dead, told)
  PROVE  /\ list \in Seq(RowStates) /\ DOMAIN list = DOMAIN rows /\ Len(list) = Len(rows)
         /\ \A n \in DOMAIN rows :
              /\ list[n].model = rows[n].model
              /\ list[n].tenant = rows[n].tenant \/ list[n].tenant \in Assignable
              /\ list[n].live => rows[n].live /\ (list[n] = rows[n] \/ list[n].given)
              /\ list[n].live /\ ~list[n].given => list[n] = rows[n] /\ n \notin DOMAIN told
<1>1. rows \in Seq(RowStates) /\ DOMAIN rows = 1..Len(rows) /\ Len(rows) \in Nat
  BY RowsTyped DEF TenantsTyped
<1>2. ASSUME NEW q \in RowStates
      PROVE  Gone(q) \in RowStates /\ Gone(q).tenant \in Assignable /\ Gone(q).model = q.model
             /\ ~Gone(q).live
  BY TenantNames DEF RowStates, Gone
<1>3. ASSUME NEW n \in DOMAIN rows
      PROVE  /\ list[n] \in RowStates /\ list[n].model = rows[n].model
             /\ list[n].tenant = rows[n].tenant \/ list[n].tenant \in Assignable
             /\ list[n].live => rows[n].live /\ (list[n] = rows[n] \/ list[n].given)
             /\ list[n].live /\ ~list[n].given => list[n] = rows[n] /\ n \notin DOMAIN told
  <2>1. PICK q \in RowStates : q = rows[n] BY RowsTyped
  <2>2. CASE n \in dead
    <3>1. list[n] = Gone(q) BY <2>1, <2>2 DEF RowsWritten
    <3> QED BY <1>2, <2>1, <3>1
  <2>3. CASE n \notin dead /\ n \in DOMAIN told /\ q.live
    <3>1. PICK t \in Assignable : t = told[n] BY <2>3
    <3>2. PICK e : e = [q EXCEPT !.given = TRUE, !.tenant = t] OBVIOUS
    <3>3. list[n] = e BY <2>1, <2>3, <3>1, <3>2 DEF RowsWritten
    <3>4. e \in RowStates /\ e.tenant = t /\ e.model = q.model /\ e.given /\ (e.live => q.live)
      BY <2>1, <3>1, <3>2 DEF RowStates
    <3> QED BY <2>1, <2>3, <3>3, <3>4
  <2>4. CASE n \notin dead /\ ~(n \in DOMAIN told /\ q.live)
    <3>1. list[n] = q BY <2>1, <2>4 DEF RowsWritten
    <3> QED BY <2>1, <2>4, <3>1
  <2> QED BY <2>2, <2>3, <2>4
<1>4. DOMAIN list = 1..Len(rows) /\ list = [n \in DOMAIN rows |-> list[n]] BY <1>1 DEF RowsWritten
<1>5. list \in [1..Len(rows) -> RowStates] BY <1>1, <1>3, <1>4
<1>6. list \in Seq(RowStates) /\ Len(list) = Len(rows) BY <1>1, <1>5, SeqDef, LenProperties
<1> QED BY <1>1, <1>3, <1>4, <1>6

(* What a statement may be, and the place of the model whose column gets
   the condition. *)
StatementFor(how, what, t) ==
  \/ how = "select" /\ what \in Selects /\ t = Unset
  \/ how \in {"update", "delete"} /\ what \in Updates /\ t \in Assignable

LEMMA StatementsTyped ==
  ASSUME NEW how, NEW what, NEW t, StatementFor(how, what, t)
  PROVE  /\ 0 \notin DOMAIN what /\ t \in Assignable
         /\ how # "select" => DOMAIN what = {1} /\ ColumnOf(what) = 1
<1>1. t \in Assignable BY DEF StatementFor, Assignable
<1>2. CASE how = "select"
  <2>1. what \in UNION {[1..n -> Froms] : n \in 1..2} BY <1>2, SelectsAssumption DEF StatementFor
  <2>2. PICK n \in 1..2 : what \in [1..n -> Froms] BY <2>1
  <2> QED BY <1>1, <1>2, <2>2
<1>3. CASE how # "select"
  <2>1. what \in [1..1 -> [model : TenantModels, form : {"listed"}]]
    BY <1>3 DEF StatementFor, Updates
  <2>2. DOMAIN what = {1} /\ what[1].form = "listed" BY <2>1
  <2>3. {k \in DOMAIN what : what[k].form = "listed"} = {1} BY <2>2
  <2>4. ColumnOf(what) = CHOOSE k \in {1} : \A j \in {1} : k <= j BY <2>3 DEF ColumnOf
  <2> QED BY <1>1, <1>3, <2>2, <2>4
<1> QED BY <1>2, <1>3

LEMMA ExpungedFits ==
  ASSUME NEW o \in OrmStates, NEW t, NEW list, OrmFits(o, t, list), NEW gone,
         DOMAIN list \subseteq 1..MaxRows
  PROVE  Expunged(o, gone) \in OrmStates /\ OrmFits(Expunged(o, gone), t, list)
<1>1. PICK s : s = [n \in 1..MaxRows |-> IF n \in gone THEN NoTenant ELSE o.seen[n]] OBVIOUS
<1>2. s \in [1..MaxRows -> Assignable \cup {NoTenant}] /\ \A n \in 1..MaxRows \ gone : s[n] = o.seen[n]
  BY <1>1 DEF OrmStates
<1> DEFINE w == Expunged(o, gone)
<1>3. w = [o EXCEPT !.loaded = o.loaded \ gone, !.besides = o.besides \ gone, !.dirty = o.dirty \ gone,
                    !.given = o.given \ gone, !.doomed = o.doomed \ gone, !.seen = s]
  BY <1>1 DEF Expunged
<1>4. /\ w \in OrmStates /\ w.kind = o.kind /\ (w.moved <=> o.moved) /\ w.seen = s
      /\ w.loaded = o.loaded \ gone /\ w.besides = o.besides \ gone /\ w.dirty = o.dirty \ gone
      /\ w.given = o.given \ gone /\ w.doomed = o.doomed \ gone
  BY <1>2, <1>3 DEF OrmStates
<1> HIDE DEF w
<1>5. OrmFits(w, t, list) BY <1>2, <1>4 DEF OrmFits, ObjectFits
<1> QED BY <1>4, <1>5 DEF w

LEMMA StatementKeeps ==
  ASSUME TenantsIInv, NEW x \in OrmSessions, NEW how, NEW what, NEW t,
         StatementFor(how, what, t), Statement(x, how, what, t)
  PROVE  TenantsIInv'
<1> DEFINE refused == Filters(x, how, what) /\ Denied(x)
           which == IF refused THEN {} ELSE Selected(x, how, what)
           reached == {p[2] : p \in which}
           gone == IF how = "delete" THEN reached ELSE {}
           told == [n \in IF t = Unset THEN {} ELSE reached |-> t]
           loads == {p \in which : /\ orm[x].kind = "orm" /\ how = "select"
                                   /\ what[p[1]].form # "aside" /\ p[2] \notin orm[x].loaded}
           new == {p[2] : p \in loads}
           besides == {p[2] : p \in {q \in loads : q[1] # ColumnOf(what)}}
           Seen(n) == IF n \in new THEN rows[n].tenant
                      ELSE IF n \in DOMAIN told \cap (orm[x].loaded \ orm[x].given) THEN t
                      ELSE orm[x].seen[n]
           shows == [n \in 1..MaxRows |-> Seen(n)]
<1>1. TenantsTyped /\ SessionsFit /\ TenantIsolated BY DEF TenantsIInv
<1>2. PICK o \in OrmStates : o = orm[x] BY <1>1 DEF TenantsTyped
<1>3. OrmFits(o, CurrentTenant(x), rows) BY <1>1, <1>2 DEF SessionsFit
<1> DEFINE z == [o EXCEPT !.loaded = o.loaded \cup new, !.besides = o.besides \cup besides, !.seen = shows]
           r == IF refused THEN NoSession ELSE Expunged(z, gone)
<1>4. /\ orm' = [orm EXCEPT ![x] = r] /\ rows' = RowsWritten(gone, told)
      /\ UNCHANGED <<strict, context>>
      /\ crossed' = Assigned(x, told) \cup
           {Use(how, rows[p[2]].model, IF p[1] = ColumnOf(what) THEN {} ELSE {"besides"}) :
              p \in {q \in which : q[2] \in OfOthers(x, reached)}}
  <2>1. orm' = [orm EXCEPT ![x] = IF refused THEN NoSession
                                   ELSE Expunged(Used(orm[x], new, besides, shows), gone)]
    BY DEF Statement
  <2>2. /\ rows' = RowsWritten(gone, told) /\ UNCHANGED <<strict, context>>
        /\ crossed' = Assigned(x, told) \cup
             {Use(how, rows[p[2]].model, IF p[1] = ColumnOf(what) THEN {} ELSE {"besides"}) :
                p \in {q \in which : q[2] \in OfOthers(x, reached)}}
    BY DEF Statement
  <2> HIDE DEF refused, new, gone, besides, shows
  <2>3. Used(orm[x], new, besides, shows) = z BY <1>2 DEF Used
  <2> QED BY <2>1, <2>2, <2>3
<1>5. 0 \notin DOMAIN what /\ t \in Assignable
      /\ (how # "select" => DOMAIN what = {1} /\ ColumnOf(what) = 1)
  BY StatementsTyped
<1>6. ASSUME NEW p \in which
      PROVE  /\ p[1] \in DOMAIN what /\ p[2] \in DOMAIN rows /\ rows[p[2]].live
             /\ rows[p[2]].model = what[p[1]].model
             /\ Filters(x, how, what) /\ p[1] = ColumnOf(what) => rows[p[2]].tenant = CurrentTenant(x)
  <2>1. p \in Selected(x, how, what) BY <1>6
  <2>2. p \in (DOMAIN what) \X (DOMAIN rows) /\ p[2] \in Reached(x, how, what, p[1])
    BY <2>1 DEF Selected
  <2> QED BY <2>2 DEF Reached
<1>7. DOMAIN told \subseteq reached /\ \A n \in DOMAIN told : told[n] = t BY <1>6
<1>8. reached \subseteq DOMAIN rows /\ new \subseteq reached /\ besides \subseteq new BY <1>6
<1>9. ASSUME NEW n \in new
      PROVE  n \notin o.loaded /\ (rows[n].tenant = CurrentTenant(x) \/ n \in besides)
  <2>1. PICK p \in loads : n = p[2] OBVIOUS
  <2>2. p \in which /\ orm[x].kind = "orm" /\ how = "select" /\ p[2] \notin o.loaded BY <1>2, <2>1
  <2>3. CASE p[1] # ColumnOf(what) BY <2>1, <2>2, <2>3
  <2>4. CASE p[1] = ColumnOf(what)
    <3>1. Filters(x, how, what) BY <1>5, <1>6, <2>2, <2>4 DEF Filters, HasTenantModel
    <3> QED BY <1>6, <2>1, <2>2, <2>4, <3>1
  <2> QED BY <2>2, <2>1, <2>3, <2>4
<1> HIDE DEF loads, new, besides, which
<1>10. \A n \in 1..MaxRows : shows[n] = Seen(n) OBVIOUS
<1>11. rows \in Seq(RowStates) /\ DOMAIN rows \subseteq 1..MaxRows /\ DOMAIN rows \subseteq Nat
       /\ Len(rows) <= MaxRows /\ \A n \in DOMAIN rows : rows[n].tenant \in Assignable \cup {NoTenant}
  BY <1>1, RowsTyped DEF TenantsTyped, RowStates
<1>12. shows \in [1..MaxRows -> Assignable \cup {NoTenant}]
  <2> SUFFICES ASSUME NEW n \in 1..MaxRows PROVE Seen(n) \in Assignable \cup {NoTenant} OBVIOUS
  <2>1. o.seen[n] \in Assignable \cup {NoTenant} BY DEF OrmStates
  <2>2. n \in new => rows[n].tenant \in Assignable \cup {NoTenant} BY <1>8, <1>11
  <2> QED BY <1>2, <1>5, <2>1, <2>2
<1>13. /\ rows' \in Seq(RowStates) /\ DOMAIN rows' = DOMAIN rows /\ Len(rows') = Len(rows)
       /\ \A n \in DOMAIN rows :
            /\ rows'[n].model = rows[n].model
            /\ rows'[n].tenant = rows[n].tenant \/ rows'[n].tenant \in Assignable
            /\ rows'[n].live => rows[n].live /\ (rows'[n] = rows[n] \/ rows'[n].given)
            /\ rows'[n].live /\ ~rows'[n].given => rows'[n] = rows[n] /\ n \notin DOMAIN told
  <2>1. PICK list : list = RowsWritten(gone, told) OBVIOUS
  <2>2. \A n \in DOMAIN told : told[n] \in Assignable BY <1>5, <1>7
  <2>3. PICK dead : dead = gone OBVIOUS
  <2>4. PICK said : said = told OBVIOUS
  <2>5. \A n \in DOMAIN said : said[n] \in Assignable BY <2>2, <2>4
  <2>6. list = RowsWritten(dead, said) BY <2>1, <2>3, <2>4
  <2>7. rows' = list BY <1>4, <2>1
  <2> HIDE DEF told, gone
  <2> QED BY <1>1, <2>4, <2>5, <2>6, <2>7, RowsEnd
<1>14. z \in OrmStates /\ OrmFits(z, CurrentTenant(x), rows')
  <2>1. o.loaded \in SUBSET Nat /\ o.besides \in SUBSET Nat BY DEF OrmStates
  <2>2. PICK l \in SUBSET Nat, b \in SUBSET Nat : l = o.loaded \cup new /\ b = o.besides \cup besides
    BY <1>8, <1>11, <2>1
  <2>3. PICK s \in [1..MaxRows -> Assignable \cup {NoTenant}] : s = shows BY <1>12
  <2>4. z = [o EXCEPT !.loaded = l, !.besides = b, !.seen = s] BY <2>2, <2>3
  <2> HIDE DEF z
  <2>5. /\ z \in OrmStates /\ z.kind = o.kind /\ z.loaded = l /\ z.besides = b /\ z.seen = s
        /\ z.dirty = o.dirty /\ z.given = o.given /\ z.doomed = o.doomed
    BY <2>4 DEF OrmStates
  <2>6. z.moved <=> o.moved BY <2>4 DEF OrmStates
  <2> HIDE DEF shows, gone
  <2>7. o.dirty \subseteq l /\ o.given \subseteq l /\ o.doomed \subseteq l /\ l \subseteq DOMAIN rows'
    BY <1>3, <1>8, <1>13, <2>2 DEF OrmFits
  <2>8. ASSUME NEW n \in o.given PROVE s[n] \in Assignable
    <3>1. n \in o.loaded /\ n \notin new /\ n \in 1..MaxRows BY <1>3, <1>9, <1>11 DEF OrmFits
    <3>2. s[n] = o.seen[n] BY <1>2, <1>10, <2>3, <3>1
    <3> QED BY <1>3, <3>1, <3>2 DEF OrmFits
  <2>9. ASSUME o.kind = "orm", NEW n \in l, rows'[n].live PROVE ObjectFits(z, n, CurrentTenant(x), rows'[n])
    <3>1. n \in DOMAIN rows /\ n \in 1..MaxRows BY <1>11, <1>13, <2>7
    <3>2. CASE rows'[n].given BY <3>2 DEF ObjectFits
    <3>3. CASE ~rows'[n].given
      <4>1. rows'[n] = rows[n] /\ n \notin DOMAIN told /\ rows[n].live BY <1>13, <2>9, <3>1, <3>3
      <4>2. CASE n \in new
        <5>1. s[n] = rows[n].tenant BY <1>10, <2>3, <3>1, <4>2
        <5>2. rows[n].tenant = CurrentTenant(x) \/ n \in b BY <1>9, <2>2, <4>2
        <5> QED BY <2>5, <4>1, <5>1, <5>2 DEF ObjectFits
      <4>3. CASE n \notin new
        <5>1. n \in o.loaded BY <2>2, <4>3
        <5>2. s[n] = o.seen[n] BY <1>2, <1>10, <2>3, <3>1, <4>1, <4>3
        <5>3. ObjectFits(o, n, CurrentTenant(x), rows[n]) BY <1>3, <2>9, <4>1, <5>1 DEF OrmFits
        <5>4. n \in o.besides => n \in b BY <2>2
        <5> QED BY <2>5, <2>6, <4>1, <5>2, <5>3, <5>4 DEF ObjectFits
      <4> QED BY <4>2, <4>3
    <3> QED BY <3>2, <3>3
  <2> QED BY <2>5, <2>7, <2>8, <2>9 DEF OrmFits
<1>15. r \in OrmStates /\ OrmFits(r, CurrentTenant(x), rows') BY <1>11, <1>13, <1>14, NoSessionFits, ExpungedFits
<1> HIDE DEF z, r, gone, shows, told
<1>16. TenantsTyped' /\ SessionsFit' BY <1>4, <1>11, <1>13, <1>15, RowsGo
<1>17. ASSUME NEW u \in crossed'
       PROVE  \/ u.how = "assign"
              \/ u.how = "select" /\ "besides" \in u.why
              \/ u.how \in {"update", "delete"} /\ u.model = "nested"
  <2>1. CASE u \in Assigned(x, told) BY <2>1 DEF Assigned, Use
  <2>2. CASE u \notin Assigned(x, told)
    <3>1. PICK p \in which :
      /\ p[2] \in OfOthers(x, reached)
      /\ u = Use(how, rows[p[2]].model, IF p[1] = ColumnOf(what) THEN {} ELSE {"besides"})
      BY <1>4, <2>2
    <3>2. rows[p[2]].tenant # CurrentTenant(x) /\ orm[x].kind = "orm" BY <3>1 DEF OfOthers
    <3>3. u.how = how /\ u.model = rows[p[2]].model
          /\ (p[1] # ColumnOf(what) => "besides" \in u.why)
      BY <3>1 DEF Use
    <3>4. ~(Filters(x, how, what) /\ p[1] = ColumnOf(what)) BY <1>6, <3>2
    <3>5. CASE how = "select"
      <4>1. p[1] = ColumnOf(what) => Filters(x, how, what)
        BY <1>5, <1>6, <3>2, <3>5 DEF Filters, HasTenantModel
      <4> QED BY <3>3, <3>4, <3>5, <4>1
    <3>6. CASE how # "select"
      <4>1. p[1] = 1 /\ ColumnOf(what) = 1 /\ how \in {"update", "delete"}
        BY <1>5, <1>6, <3>6 DEF StatementFor
      <4>2. what[1].model = "nested" BY <3>2, <3>4, <3>6, <4>1 DEF Filters, TargetsTenantModel
      <4> QED BY <1>6, <3>3, <4>1, <4>2
    <3> QED BY <3>5, <3>6
  <2> QED BY <2>1, <2>2
<1>18. strict' => \A n \in DOMAIN rows' : rows'[n].tenant # NoTenant
  BY <1>1, <1>4, <1>13, TenantNames DEF TenantIsolated
<1>19. TenantIsolated' BY <1>17, <1>18 DEF TenantIsolated
<1> QED BY <1>16, <1>19 DEF TenantsIInv

(* What an object becomes when it is written. *)
LEMMA FilledInIs ==
  ASSUME TenantsTyped, NEW x \in OrmSessions, NEW q \in Objects
  PROVE  /\ FilledIn(x, q) \in Assignable \cup {NoTenant}
         /\ (CurrentTenant(x) # NoTenant => FilledIn(x, q) # NoTenant)
         /\ (q.tenant \in {Unset, CurrentTenant(x)} /\ FilledIn(x, q) # CurrentTenant(x)
               => q.model = "registered" \/ CurrentTenant(x) = NoTenant)
<1>1. q.model \in TenantModels /\ q.tenant \in Assignable BY DEF Objects
<1> QED BY <1>1, CurrentIs, TenantNames DEF FilledIn, IsMixin, TenantModels

LEMMA FlushKeeps ==
  ASSUME TenantsIInv, NEW x \in OrmSessions, Flush(x) PROVE TenantsIInv'
<1>1. TenantsTyped /\ SessionsFit /\ TenantIsolated BY DEF TenantsIInv
<1>2. PICK o \in OrmStates : o = orm[x] BY <1>1 DEF TenantsTyped
<1>3. /\ OrmFits(o, CurrentTenant(x), rows) /\ o.loaded \in SUBSET Nat
      /\ o.fresh \in Seq(Objects) /\ o.kind = "orm"
  BY <1>1, <1>2 DEF SessionsFit, OrmStates, Flush
<1>4. CASE ~FlushAllowed(x)
  <2>1. orm' = [orm EXCEPT ![x] = NoSession] /\ UNCHANGED <<strict, context, rows>> /\ crossed' = {}
    BY <1>4 DEF Flush
  <2> QED BY <2>1, NoSessionFits, SessionGoes
<1>5. CASE FlushAllowed(x)
  <2>1. PICK new : new = [k \in DOMAIN o.fresh |->
                            [model |-> o.fresh[k].model, live |-> TRUE, given |-> FALSE,
                             tenant |-> FilledIn(x, o.fresh[k])]]
    OBVIOUS
  <2>2. DOMAIN o.fresh = 1..Len(o.fresh) /\ Len(o.fresh) \in Nat /\ \A k \in DOMAIN o.fresh : o.fresh[k] \in Objects
    BY <1>3, LenProperties, ElementOfSeq
  <2>3. PICK told : told = [n \in o.given \ o.doomed |-> o.seen[n]] OBVIOUS
  <2>4. /\ UNCHANGED <<strict, context>> /\ Len(rows) + Len(new) <= MaxRows
        /\ rows' = RowsWritten(o.doomed, told) \o new
        /\ orm' = [orm EXCEPT ![x] =
             Expunged([o EXCEPT !.fresh = <<>>, !.dirty = {}, !.given = {}, !.doomed = {}], o.doomed)]
        /\ crossed' = Uses(x, "modify", o.dirty \ o.doomed) \cup Uses(x, "unlink", o.doomed)
                        \cup Assigned(x, told)
                        \cup {Use("insert", new[k].model, {}) :
                                k \in {n \in DOMAIN new : new[n].tenant # CurrentTenant(x)}}
    BY <1>2, <1>5, <2>1, <2>3 DEF Flush
  <2>5. ASSUME NEW k \in DOMAIN o.fresh
        PROVE  /\ new[k] \in RowStates /\ ~new[k].given
               /\ new[k].model = o.fresh[k].model /\ new[k].tenant = FilledIn(x, o.fresh[k])
    <3>1. o.fresh[k] \in Objects /\ o.fresh[k].model \in TenantModels BY <2>2 DEF Objects
    <3>2. FilledIn(x, o.fresh[k]) \in Assignable \cup {NoTenant} BY <1>1, <3>1, FilledInIs
    <3>3. new[k] = [model |-> o.fresh[k].model, live |-> TRUE, given |-> FALSE,
                    tenant |-> FilledIn(x, o.fresh[k])]
      BY <2>1
    <3> QED BY <3>1, <3>2, <3>3 DEF RowStates
  <2>6. DOMAIN new = DOMAIN o.fresh /\ new \in Seq(RowStates) /\ Len(new) = Len(o.fresh) /\ Len(new) \in Nat
    <3>1. DOMAIN new = DOMAIN o.fresh /\ new = [k \in DOMAIN o.fresh |-> new[k]] BY <2>1
    <3>2. new \in [1..Len(o.fresh) -> RowStates] BY <2>2, <2>5, <3>1
    <3>3. new \in Seq(RowStates) BY <2>2, <3>2, SeqDef
    <3> QED BY <2>2, <3>1, <3>2, <3>3, LenProperties
  <2>7. DOMAIN told = o.given \ o.doomed /\ \A n \in DOMAIN told : told[n] \in Assignable
    BY <1>3, <2>3 DEF OrmFits
  <2>8. PICK list \in Seq(RowStates) :
          /\ list = RowsWritten(o.doomed, told) /\ DOMAIN list = DOMAIN rows /\ Len(list) = Len(rows)
          /\ \A n \in DOMAIN rows :
               /\ list[n].tenant = rows[n].tenant \/ list[n].tenant \in Assignable
               /\ list[n].live => rows[n].live /\ (list[n] = rows[n] \/ list[n].given)
               /\ list[n].live /\ ~list[n].given => list[n] = rows[n] /\ n \notin DOMAIN told
    BY <1>1, <2>7, RowsEnd
  <2>9. /\ rows' \in Seq(RowStates) /\ Len(rows') = Len(list) + Len(new) /\ Len(list) \in Nat
        /\ \A n \in 1..Len(list) : rows'[n] = list[n]
        /\ \A n \in 1..Len(list) + Len(new) : n > Len(list) => rows'[n] = new[n - Len(list)]
    <3>1. rows' = list \o new BY <2>4, <2>8
    <3>2. Len(list) \in Nat BY LenProperties
    <3>3. /\ list \o new \in Seq(RowStates) /\ Len(list \o new) = Len(list) + Len(new)
          /\ \A n \in 1..Len(list) + Len(new) :
               (list \o new)[n] = IF n <= Len(list) THEN list[n] ELSE new[n - Len(list)]
      BY <2>6, ConcatProperties
    <3>4. \A n \in 1..Len(list) : n \in 1..Len(list) + Len(new) /\ n <= Len(list) BY <2>6, <3>2
    <3>5. \A n \in 1..Len(list) + Len(new) : n > Len(list) => ~(n <= Len(list)) BY <2>6, <3>2
    <3> QED BY <3>1, <3>2, <3>3, <3>4, <3>5
  <2>10. DOMAIN rows = 1..Len(list) /\ DOMAIN rows' = 1..Len(list) + Len(new)
    BY <2>8, <2>9, LenProperties
  <2>11. DOMAIN rows \subseteq DOMAIN rows' /\ \A n \in DOMAIN rows : rows'[n] = list[n]
    <3>1. 1..Len(list) \subseteq 1..Len(list) + Len(new) BY <2>6, <2>9
    <3> QED BY <2>9, <2>10, <3>1
  <2>12. \A n \in DOMAIN rows' : n \notin DOMAIN rows => \E k \in DOMAIN o.fresh : rows'[n] = new[k]
    <3> SUFFICES ASSUME NEW n \in DOMAIN rows', n \notin DOMAIN rows PROVE \E k \in DOMAIN o.fresh : rows'[n] = new[k]
      OBVIOUS
    <3>1. n \in 1..Len(list) + Len(new) /\ n > Len(list) /\ n - Len(list) \in 1..Len(new)
      BY <2>6, <2>9, <2>10
    <3> QED BY <2>2, <2>6, <2>9, <3>1
  <2> DEFINE r == [o EXCEPT !.fresh = <<>>, !.dirty = {}, !.given = {}, !.doomed = {}]
  <2>13. /\ r \in OrmStates /\ r.kind = o.kind /\ r.loaded = o.loaded /\ r.besides = o.besides
         /\ r.seen = o.seen /\ r.dirty = {} /\ r.given = {} /\ r.doomed = {}
    BY EmptySeq DEF OrmStates
  <2>14. r.moved <=> o.moved BY DEF OrmStates
  <2>15. orm' = [orm EXCEPT ![x] = Expunged(r, o.doomed)] BY <2>4
  <2> HIDE DEF r
  <2>16. OrmFits(r, CurrentTenant(x), rows')
    <3>1. o.loaded \subseteq DOMAIN rows' BY <1>3, <2>11 DEF OrmFits
    <3>2. ASSUME NEW n \in o.loaded, rows'[n].live PROVE ObjectFits(r, n, CurrentTenant(x), rows'[n])
      <4>1. n \in DOMAIN rows /\ rows'[n] = list[n] BY <1>3, <2>11 DEF OrmFits
      <4>2. CASE list[n].given BY <4>1, <4>2 DEF ObjectFits
      <4>3. CASE ~list[n].given
        <5>1. list[n] = rows[n] /\ n \notin DOMAIN told /\ rows[n].live BY <2>8, <3>2, <4>1, <4>3
        <5>2. n \notin o.doomed
          <6>1. n \in o.doomed => list[n] = Gone(rows[n]) BY <2>8, <4>1 DEF RowsWritten
          <6>2. \A q \in RowStates : ~Gone(q).live BY DEF Gone, RowStates
          <6>3. rows[n] \in RowStates BY <1>1, <4>1, RowsTyped
          <6> QED BY <3>2, <4>1, <6>1, <6>2, <6>3
        <5>3. n \notin o.given BY <2>7, <5>1, <5>2
        <5>4. ObjectFits(o, n, CurrentTenant(x), rows[n]) BY <1>3, <5>1 DEF OrmFits
        <5> QED BY <2>13, <2>14, <4>1, <5>1, <5>3, <5>4 DEF ObjectFits
      <4> QED BY <4>2, <4>3
    <3> QED BY <2>13, <3>1, <3>2 DEF OrmFits
  <2>17. \A n \in DOMAIN rows : rows'[n].live => rows[n].live /\ (rows'[n] = rows[n] \/ rows'[n].given)
    BY <2>8, <2>11
  <2>18. Len(rows') <= MaxRows BY <2>4, <2>8, <2>9
  <2>19. TenantsTyped' /\ SessionsFit'
    <3>1. DOMAIN rows' \subseteq 1..MaxRows BY <2>6, <2>9, <2>10, <2>18, ConnectionsAssumption
    <3> DEFINE w == Expunged(r, o.doomed)
    <3>2. w \in OrmStates /\ OrmFits(w, CurrentTenant(x), rows') BY <2>13, <2>16, <3>1, ExpungedFits
    <3>3. orm' = [orm EXCEPT ![x] = w] BY <2>15
    <3> HIDE DEF w
    <3> QED BY <2>4, <2>9, <2>11, <2>17, <2>18, <3>2, <3>3, RowsGo
  <2>20. /\ ~Denied(x)
         /\ strict => \A k \in DOMAIN o.fresh : MayAdd(x, o.fresh[k])
         /\ strict => \A n \in o.doomed : IsMixin(rows[n].model) => o.seen[n] = CurrentTenant(x)
    BY <1>2, <1>5 DEF FlushAllowed
  <2>21. strict => CurrentTenant(x) # NoTenant BY <1>1, <2>20, CurrentIs
  <2>22. strict' => \A n \in DOMAIN rows' : rows'[n].tenant # NoTenant
    <3> SUFFICES ASSUME strict, NEW n \in DOMAIN rows' PROVE rows'[n].tenant # NoTenant BY <2>4
    <3>1. CASE n \in DOMAIN rows BY <1>1, <2>8, <2>11, <3>1, TenantNames DEF TenantIsolated
    <3>2. CASE n \notin DOMAIN rows
      <4>1. PICK k \in DOMAIN o.fresh : rows'[n] = new[k] BY <2>12, <3>2
      <4> QED BY <1>1, <2>2, <2>5, <2>21, <4>1, FilledInIs
    <3> QED BY <3>1, <3>2
  <2>23. ASSUME NEW n \in o.loaded, rows[n].live, rows[n].tenant # CurrentTenant(x)
         PROVE  /\ Why(x, n) \cap {"moved", "besides", "given"} # {}
                /\ o.seen[n] = CurrentTenant(x) => Why(x, n) \cap {"given", "assigned"} # {}
    <3>1. ObjectFits(o, n, CurrentTenant(x), rows[n]) BY <1>3, <2>23 DEF OrmFits
    <3>2. "moved" \in Why(x, n) \/ "besides" \in Why(x, n) \/ "given" \in Why(x, n)
      BY <1>2, <2>23, <3>1 DEF ObjectFits, Why
    <3>3. o.seen[n] = CurrentTenant(x) => "given" \in Why(x, n) \/ "assigned" \in Why(x, n)
      BY <1>2, <2>23, <3>1 DEF ObjectFits, Why
    <3> QED BY <3>2, <3>3
  <2>24. ASSUME NEW u \in Uses(x, "modify", o.dirty \ o.doomed)
         PROVE  u.how = "modify" /\ u.why \cap {"moved", "besides", "given"} # {}
    <3>1. PICK n \in OfOthers(x, o.dirty \ o.doomed) : u = Use("modify", rows[n].model, Why(x, n))
      BY DEF Uses
    <3>2. n \in o.loaded /\ rows[n].live /\ rows[n].tenant # CurrentTenant(x)
      BY <1>3 DEF OfOthers, OrmFits
    <3> QED BY <2>23, <3>1, <3>2 DEF Use
  <2>25. ASSUME NEW u \in Uses(x, "unlink", o.doomed)
         PROVE  /\ u.how = "unlink" /\ u.why \cap {"moved", "besides", "given"} # {}
                /\ u.model = "registered" \/ ~strict \/ u.why \cap {"given", "assigned"} # {}
    <3>1. PICK n \in OfOthers(x, o.doomed) : u = Use("unlink", rows[n].model, Why(x, n)) BY DEF Uses
    <3>2. n \in o.loaded /\ n \in o.doomed /\ rows[n].live /\ rows[n].tenant # CurrentTenant(x)
      BY <1>3 DEF OfOthers, OrmFits
    <3>3. strict /\ rows[n].model # "registered" => o.seen[n] = CurrentTenant(x)
      BY <2>20, <3>2 DEF IsMixin
    <3> QED BY <2>23, <3>1, <3>2, <3>3 DEF Use
  <2>26. ASSUME NEW k \in DOMAIN new, new[k].tenant # CurrentTenant(x)
         PROVE  new[k].model = "registered" \/ ~strict
    <3>1. /\ k \in DOMAIN o.fresh /\ new[k].model = o.fresh[k].model
          /\ new[k].tenant = FilledIn(x, o.fresh[k]) /\ o.fresh[k] \in Objects
      BY <2>2, <2>5, <2>6
    <3>2. strict /\ o.fresh[k].model # "registered" => o.fresh[k].tenant \in {Unset, CurrentTenant(x)}
      BY <2>20, <3>1 DEF IsMixin, MayAdd
    <3> QED BY <1>1, <2>21, <2>26, <3>1, <3>2, FilledInIs
  <2>27. ASSUME NEW u \in Assigned(x, told) PROVE u.how = "assign" BY DEF Assigned, Use
  <2>28. ASSUME NEW u \in {Use("insert", new[k].model, {}) :
                             k \in {n \in DOMAIN new : new[n].tenant # CurrentTenant(x)}}
         PROVE  u.how = "insert" /\ (u.model = "registered" \/ ~strict)
    BY <2>26 DEF Use
  <2>29. TenantIsolated'
    <3>1. \A u \in crossed' :
            \/ u.how = "insert" /\ (u.model = "registered" \/ ~strict)
            \/ u.how = "assign"
            \/ u.how = "modify" /\ u.why \cap {"moved", "besides", "given"} # {}
            \/ /\ u.how = "unlink" /\ u.why \cap {"moved", "besides", "given"} # {}
               /\ u.model = "registered" \/ ~strict \/ u.why \cap {"given", "assigned"} # {}
      BY <2>4, <2>24, <2>25, <2>27, <2>28
    <3> QED BY <2>4, <2>22, <3>1 DEF TenantIsolated
  <2> QED BY <2>19, <2>29 DEF TenantsIInv
<1> QED BY <1>4, <1>5

LEMMA TenantsNextKeeps == ASSUME TenantsIInv, TenantsNext PROVE TenantsIInv'
<1>1. PICK x \in OrmSessions :
        \/ \E t \in Tenants \cup {Unset} : SetContext(x, t)
        \/ \E sort \in {"orm", "replica", "text"} : OpenOrm(x, sort)
        \/ \E what \in Selects : Statement(x, "select", what, Unset)
        \/ \E what \in Updates, t \in SetTenants : Statement(x, "update", what, t)
        \/ \E what \in Updates : Statement(x, "delete", what, Unset)
        \/ \E m \in TenantModels, t \in NewTenants : AddObject(x, m, t)
        \/ \E n \in orm[x].loaded : DeleteObject(x, n) \/ \E t \in SetTenants : ChangeObject(x, n, t)
        \/ Flush(x) \/ CloseOrm(x)
  BY DEF TenantsNext
<1>2. SetTenants \subseteq Assignable BY ConnectionsAssumption DEF Assignable
<1>3. ASSUME \/ \E what \in Selects : Statement(x, "select", what, Unset)
             \/ \E what \in Updates, t \in SetTenants : Statement(x, "update", what, t)
             \/ \E what \in Updates : Statement(x, "delete", what, Unset)
      PROVE  TenantsIInv'
  <2>1. PICK how, what, t : StatementFor(how, what, t) /\ Statement(x, how, what, t)
    BY <1>2, <1>3, TenantNames DEF StatementFor
  <2> QED BY <2>1, StatementKeeps
<1> QED BY <1>1, <1>3, SetContextKeeps, OpenOrmKeeps, AddObjectKeeps, ChangeObjectKeeps,
           DeleteObjectKeeps, FlushKeeps, CloseOrmKeeps

----------------------------------------
(* Connections, Redis.  Who pings does so for the client that is there,
   which stays until the ping is over. *)
RedisCalls == [at : {"idle", "pinging", "has", "making", "returning", "closing"}, client : Nat]

RedisIInv ==
  /\ redis \in Nat /\ redisMade \in Nat /\ redisUser \in [RedisCallers \cup RedisThreads -> RedisCalls]
  /\ \A c \in RedisCallers \cup RedisThreads :
       /\ redisUser[c].at = "pinging" =>
            ponged = c /\ redisUser[c].client = redis /\ c \in RedisCallers
       /\ redisUser[c].at \in {"pinging", "has", "closing"} => redisUser[c].client # 0
  /\ \A k \in 1..redisMade :
       \/ k \in redisShut \cup {redis}
       \/ \E c \in RedisCallers \cup RedisThreads :
            redisUser[c].at = "closing" /\ redisUser[c].client = k
  /\ 0 \notin open
  /\ \A k \in open :
       \/ k \in late \cup {redis}
       \/ \E c \in RedisCallers \cup RedisThreads :
            redisUser[c].at = "closing" /\ redisUser[c].client = k

LEMMA InitRedis == ASSUME RedisInit PROVE RedisIInv
  BY DEF RedisInit, RedisIInv, RedisCalls, Resting

LEMMA RedisUserSteps ==
  ASSUME RedisIInv, NEW c \in RedisCallers \cup RedisThreads, NEW r \in RedisCalls,
         UserIs(c, r.at, r.client)
  PROVE  /\ redisUser' \in [RedisCallers \cup RedisThreads -> RedisCalls] /\ redisUser'[c] = r
         /\ \A d \in RedisCallers \cup RedisThreads : d # c => redisUser'[d] = redisUser[d]
<1>1. [at |-> r.at, client |-> r.client] = r BY DEF RedisCalls
<1>2. redisUser' = [redisUser EXCEPT ![c] = r] BY <1>1 DEF UserIs
<1> QED BY <1>2 DEF RedisIInv

(* A call goes on, and the client stays. *)
LEMMA RedisStays ==
  ASSUME RedisIInv, NEW c \in RedisCallers \cup RedisThreads, NEW q \in RedisCalls,
         UserIs(c, q.at, q.client), redisUser[c].at # "closing", q.at # "pinging",
         q.at \in {"has", "closing"} => q.client # 0,
         ponged' = ponged \/ redisUser[c].at = "pinging",
         NEW k, k \in open \/ (k # 0 /\ k \in {redis} \cup late'), open' \subseteq open \cup {k},
         late \subseteq late', UNCHANGED <<redis, redisMade, redisShut>>
  PROVE  RedisIInv'
<1>1. /\ redisUser' \in [RedisCallers \cup RedisThreads -> RedisCalls] /\ redisUser'[c] = q
      /\ \A d \in RedisCallers \cup RedisThreads : d # c => redisUser'[d] = redisUser[d]
  BY RedisUserSteps
<1>2. \A d \in RedisCallers \cup RedisThreads :
        /\ redisUser'[d].at = "pinging" =>
             ponged' = d /\ redisUser'[d].client = redis' /\ d \in RedisCallers
        /\ redisUser'[d].at \in {"pinging", "has", "closing"} => redisUser'[d].client # 0
  BY <1>1 DEF RedisIInv
<1>3. \A d \in RedisCallers \cup RedisThreads :
        redisUser[d].at = "closing" => redisUser'[d] = redisUser[d]
  BY <1>1
<1> QED BY <1>1, <1>2, <1>3 DEF RedisIInv

(* One is made when there is none. *)
LEMMA RedisMakes ==
  ASSUME RedisIInv, NEW c \in RedisCallers \cup RedisThreads, NEW q \in RedisCalls,
         UserIs(c, q.at, q.client), redisUser[c].at # "closing", redis = 0, OneMade,
         \/ q.at \notin {"pinging", "has", "closing"} /\ ponged' = ponged
         \/ q.at = "pinging" /\ ponged' = c /\ q.client = redis' /\ c \in RedisCallers,
         UNCHANGED <<redisShut, open, late>>
  PROVE  RedisIInv'
<1>1. /\ redisUser' \in [RedisCallers \cup RedisThreads -> RedisCalls] /\ redisUser'[c] = q
      /\ \A d \in RedisCallers \cup RedisThreads : d # c => redisUser'[d] = redisUser[d]
  BY RedisUserSteps
<1>2. /\ redisMade \in Nat /\ redisMade' = redisMade + 1 /\ redis' = redisMade + 1
  BY DEF OneMade, RedisIInv
<1>3. redisMade' \in Nat /\ redis' \in Nat /\ redis' # 0 BY <1>2
<1>4. \A d \in RedisCallers \cup RedisThreads : redisUser[d].at # "pinging" BY DEF RedisIInv
<1>5. \A d \in RedisCallers \cup RedisThreads :
        /\ redisUser'[d].at = "pinging" =>
             ponged' = d /\ redisUser'[d].client = redis' /\ d \in RedisCallers
        /\ redisUser'[d].at \in {"pinging", "has", "closing"} => redisUser'[d].client # 0
  BY <1>1, <1>3, <1>4 DEF RedisIInv
<1>6. \A k \in 1..redisMade' : k \in 1..redisMade \/ k = redis' BY <1>2
<1>7. \A d \in RedisCallers \cup RedisThreads :
        redisUser[d].at = "closing" => redisUser'[d] = redisUser[d]
  BY <1>1
<1>8. \A k \in 1..redisMade' :
        \/ k \in redisShut' \cup {redis'}
        \/ \E d \in RedisCallers \cup RedisThreads :
             redisUser'[d].at = "closing" /\ redisUser'[d].client = k
  <2> SUFFICES ASSUME NEW k \in 1..redisMade
               PROVE  \/ k \in redisShut'
                      \/ \E d \in RedisCallers \cup RedisThreads :
                           redisUser'[d].at = "closing" /\ redisUser'[d].client = k
    BY <1>6
  <2>1. k # 0 BY <1>2
  <2> QED BY <1>7, <2>1 DEF RedisIInv
<1>9. \A k \in open' :
        \/ k \in late' \cup {redis'}
        \/ \E d \in RedisCallers \cup RedisThreads :
             redisUser'[d].at = "closing" /\ redisUser'[d].client = k
  BY <1>7 DEF RedisIInv
<1>10. 0 \notin open' BY DEF RedisIInv
<1> QED BY <1>1, <1>3, <1>5, <1>8, <1>9, <1>10 DEF RedisIInv

LEMMA ConnectRedisKeeps == ASSUME RedisIInv, NEW c \in RedisCallers, ConnectRedis(c) PROVE RedisIInv'
<1>1. /\ redisUser[c].at = "idle" /\ ponged = Unset /\ UNCHANGED <<redisShut, open, late>>
      /\ redis \in Nat /\ redisMade \in Nat
  BY DEF ConnectRedis, RedisIInv
<1>2. CASE redis # 0
  <2>1. PICK q \in RedisCalls : q.at = "has" /\ q.client = redis
    <3>1. [at |-> "has", client |-> redis] \in RedisCalls BY <1>1 DEF RedisCalls
    <3> QED BY <3>1
  <2>2. UserIs(c, q.at, q.client) /\ UNCHANGED <<ponged, redis, redisMade>>
    BY <1>2, <2>1 DEF ConnectRedis, NoneMade
  <2>3. PICK k : k = redis OBVIOUS
  <2> QED BY <1>1, <1>2, <2>1, <2>2, <2>3, RedisStays
<1>3. CASE redis = 0
  <2>1. redis' \in Nat /\ OneMade /\ ponged' = c /\ UserIs(c, "pinging", redis')
    BY <1>1, <1>3 DEF ConnectRedis, OneMade
  <2>2. PICK q \in RedisCalls : q.at = "pinging" /\ q.client = redis'
    <3>1. [at |-> "pinging", client |-> redis'] \in RedisCalls BY <2>1 DEF RedisCalls
    <3> QED BY <3>1
  <2> QED BY <1>1, <1>3, <2>1, <2>2, RedisMakes
<1> QED BY <1>2, <1>3

LEMMA PingEndsKeeps ==
  ASSUME RedisIInv, NEW c \in RedisCallers, NEW ok \in BOOLEAN, PingEnds(c, ok) PROVE RedisIInv'
<1>1. PICK r \in RedisCalls : r = redisUser[c] BY DEF RedisIInv
<1>2. /\ r.at = "pinging" /\ r.client = redis /\ redis # 0
      /\ UNCHANGED <<redis, redisMade, redisShut, late>>
  BY <1>1 DEF PingEnds, RedisIInv
<1>3. CASE ok
  <2>1. PICK q \in RedisCalls : q.at = "has" /\ q.client = r.client
    <3>1. [at |-> "has", client |-> r.client] \in RedisCalls BY DEF RedisCalls
    <3> QED BY <3>1
  <2>2. UserIs(c, q.at, q.client) /\ open' = open \cup {r.client} BY <1>1, <1>3, <2>1 DEF PingEnds
  <2>3. PICK k : k = r.client OBVIOUS
  <2> QED BY <1>1, <1>2, <2>1, <2>2, <2>3, RedisStays
<1>4. CASE ~ok
  <2>1. PICK q \in RedisCalls : q.at = "idle" /\ q.client = 0
    <3>1. [at |-> "idle", client |-> 0] \in RedisCalls BY DEF RedisCalls
    <3> QED BY <3>1
  <2>2. UserIs(c, q.at, q.client) /\ open' = open BY <1>4, <2>1 DEF PingEnds
  <2>3. PICK k : k = redis OBVIOUS
  <2> QED BY <1>1, <1>2, <2>1, <2>2, <2>3, RedisStays
<1> QED BY <1>3, <1>4

LEMMA ThreadsKeep ==
  ASSUME RedisIInv, NEW t \in RedisThreads, ThreadLooks(t) \/ ThreadMakes(t) \/ ThreadReturns(t)
  PROVE  RedisIInv'
<1>1. redis \in Nat /\ redisMade \in Nat BY DEF RedisIInv
<1>2. \A at \in {"idle", "pinging", "has", "making", "returning", "closing"}, n \in Nat :
        \E q \in RedisCalls : q.at = at /\ q.client = n
  <2> SUFFICES ASSUME NEW at \in {"idle", "pinging", "has", "making", "returning", "closing"},
                      NEW n \in Nat
               PROVE  \E q \in RedisCalls : q.at = at /\ q.client = n
    OBVIOUS
  <2>1. [at |-> at, client |-> n] \in RedisCalls BY DEF RedisCalls
  <2> QED BY <2>1
<1>3. CASE ThreadMakes(t) /\ redis = 0
  <2>1. PICK q \in RedisCalls : q.at = "returning" /\ q.client = 0 BY <1>2
  <2>2. /\ UserIs(t, q.at, q.client) /\ redisUser[t].at = "making" /\ OneMade
        /\ UNCHANGED <<ponged, redisShut, open, late>>
    BY <1>3, <2>1 DEF ThreadMakes
  <2> QED BY <1>3, <2>1, <2>2, RedisMakes
<1>4. CASE ~(ThreadMakes(t) /\ redis = 0)
  <2>1. PICK q \in RedisCalls :
          /\ UserIs(t, q.at, q.client) /\ q.at \notin {"pinging", "closing"}
          /\ q.at = "has" => q.client # 0
    <3>1. CASE ThreadLooks(t)
      <4>1. PICK q \in RedisCalls : q.at = (IF redis = 0 THEN "making" ELSE "returning") /\ q.client = 0
        BY <1>2
      <4> QED BY <3>1, <4>1 DEF ThreadLooks
    <3>2. CASE ThreadMakes(t)
      <4>1. PICK q \in RedisCalls : q.at = "returning" /\ q.client = 0 BY <1>2
      <4> QED BY <3>2, <4>1 DEF ThreadMakes
    <3>3. CASE ThreadReturns(t)
      <4>1. PICK q \in RedisCalls : q.at = (IF redis = 0 THEN "idle" ELSE "has") /\ q.client = redis
        BY <1>1, <1>2
      <4> QED BY <3>3, <4>1 DEF ThreadReturns
    <3> QED BY <3>1, <3>2, <3>3
  <2>2. redisUser[t].at # "closing" /\ UNCHANGED <<redis, redisMade, ponged, redisShut, open, late>>
    BY <1>4 DEF ThreadLooks, ThreadMakes, ThreadReturns, NoneMade
  <2>3. CASE open = {}
    <3>1. CASE redis = 0
      <4>1. /\ redisUser' \in [RedisCallers \cup RedisThreads -> RedisCalls] /\ redisUser'[t] = q
            /\ \A d \in RedisCallers \cup RedisThreads : d # t => redisUser'[d] = redisUser[d]
        BY <2>1, RedisUserSteps
      <4> QED BY <2>1, <2>2, <2>3, <4>1 DEF RedisIInv
    <3>2. CASE redis # 0
      <4>1. PICK k : k = redis OBVIOUS
      <4> QED BY <2>1, <2>2, <3>2, <4>1, RedisStays
    <3> QED BY <3>1, <3>2
  <2>4. CASE open # {}
    <3>1. PICK k : k \in open BY <2>4
    <3> QED BY <2>1, <2>2, <3>1, RedisStays
  <2> QED BY <2>3, <2>4
<1> QED BY <1>3, <1>4

LEMMA UseRedisKeeps ==
  ASSUME RedisIInv, NEW c \in RedisCallers \cup RedisThreads, UseRedis(c) PROVE RedisIInv'
<1>1. PICK r \in RedisCalls : r = redisUser[c] BY DEF RedisIInv
<1>2. /\ r.at = "has" /\ r.client # 0
      /\ UNCHANGED <<redis, redisMade, redisShut, ponged>>
  BY <1>1 DEF UseRedis, RedisIInv, NoneMade
<1>3. PICK q \in RedisCalls : q.at = "idle" /\ q.client = 0
  <2>1. [at |-> "idle", client |-> 0] \in RedisCalls BY DEF RedisCalls
  <2> QED BY <2>1
<1>4. /\ UserIs(c, q.at, q.client) /\ open' = open \cup {r.client}
      /\ late' = (IF r.client = redis THEN late ELSE late \cup {r.client})
  BY <1>1, <1>3 DEF UseRedis
<1>5. PICK k : k = r.client OBVIOUS
<1> QED BY <1>1, <1>2, <1>3, <1>4, <1>5, RedisStays

LEMMA CloseRedisKeeps == ASSUME RedisIInv, NEW c \in RedisCallers, CloseRedis(c) PROVE RedisIInv'
<1>1. /\ redisUser[c].at = "idle" /\ ponged = Unset /\ redis # 0 /\ redis' = 0 /\ redis \in Nat
      /\ UNCHANGED <<ponged, redisMade, redisShut, open, late>> /\ UserIs(c, "closing", redis)
  BY DEF CloseRedis, RedisIInv
<1>2. PICK q \in RedisCalls : q.at = "closing" /\ q.client = redis
  <2>1. [at |-> "closing", client |-> redis] \in RedisCalls BY <1>1 DEF RedisCalls
  <2> QED BY <2>1
<1>3. /\ redisUser' \in [RedisCallers \cup RedisThreads -> RedisCalls] /\ redisUser'[c] = q
      /\ \A d \in RedisCallers \cup RedisThreads : d # c => redisUser'[d] = redisUser[d]
  BY <1>1, <1>2, RedisUserSteps
<1>4. \A d \in RedisCallers \cup RedisThreads : redisUser[d].at # "pinging"
  BY <1>1, ConnectionsAssumption DEF RedisIInv
<1>5. \A d \in RedisCallers \cup RedisThreads :
        redisUser[d].at = "closing" => redisUser'[d] = redisUser[d]
  BY <1>1, <1>3
<1>6. redisUser'[c].at = "closing" /\ redisUser'[c].client = redis BY <1>2, <1>3
<1>7. \A d \in RedisCallers \cup RedisThreads :
        /\ redisUser'[d].at # "pinging"
        /\ redisUser'[d].at \in {"has", "closing"} => redisUser'[d].client # 0
  BY <1>1, <1>2, <1>3, <1>4 DEF RedisIInv
<1>8. \A k \in 1..redisMade' :
        \/ k \in redisShut' \cup {redis'}
        \/ \E d \in RedisCallers \cup RedisThreads :
             redisUser'[d].at = "closing" /\ redisUser'[d].client = k
  BY <1>1, <1>5, <1>6 DEF RedisIInv
<1>9. \A k \in open' :
        \/ k \in late' \cup {redis'}
        \/ \E d \in RedisCallers \cup RedisThreads :
             redisUser'[d].at = "closing" /\ redisUser'[d].client = k
  BY <1>1, <1>5, <1>6 DEF RedisIInv
<1> QED BY <1>1, <1>3, <1>7, <1>8, <1>9 DEF RedisIInv

LEMMA CloseRedisEndsKeeps ==
  ASSUME RedisIInv, NEW c \in RedisCallers, CloseRedisEnds(c) PROVE RedisIInv'
<1>1. PICK r \in RedisCalls : r = redisUser[c] BY DEF RedisIInv
<1>2. /\ r.at = "closing" /\ redisShut' = redisShut \cup {r.client} /\ open' = open \ {r.client}
      /\ UNCHANGED <<redis, redisMade, ponged, late>> /\ UserIs(c, "idle", 0)
  BY <1>1 DEF CloseRedisEnds, NoneMade
<1>3. PICK q \in RedisCalls : q.at = "idle" /\ q.client = 0
  <2>1. [at |-> "idle", client |-> 0] \in RedisCalls BY DEF RedisCalls
  <2> QED BY <2>1
<1>4. /\ redisUser' \in [RedisCallers \cup RedisThreads -> RedisCalls] /\ redisUser'[c] = q
      /\ \A d \in RedisCallers \cup RedisThreads : d # c => redisUser'[d] = redisUser[d]
  BY <1>2, <1>3, RedisUserSteps
<1>5. \A d \in RedisCallers \cup RedisThreads :
        /\ redisUser'[d].at = "pinging" =>
             ponged' = d /\ redisUser'[d].client = redis' /\ d \in RedisCallers
        /\ redisUser'[d].at \in {"pinging", "has", "closing"} => redisUser'[d].client # 0
  BY <1>2, <1>3, <1>4 DEF RedisIInv
<1>6. \A k \in 1..redisMade' :
        \/ k \in redisShut' \cup {redis'}
        \/ \E d \in RedisCallers \cup RedisThreads :
             redisUser'[d].at = "closing" /\ redisUser'[d].client = k
  BY <1>1, <1>2, <1>4 DEF RedisIInv
<1>7. \A k \in open' :
        \/ k \in late' \cup {redis'}
        \/ \E d \in RedisCallers \cup RedisThreads :
             redisUser'[d].at = "closing" /\ redisUser'[d].client = k
  BY <1>1, <1>2, <1>4 DEF RedisIInv
<1> QED BY <1>2, <1>4, <1>5, <1>6, <1>7 DEF RedisIInv

LEMMA RedisNextKeeps == ASSUME RedisIInv, RedisNext PROVE RedisIInv'
  BY ConnectRedisKeeps, CloseRedisKeeps, CloseRedisEndsKeeps, PingEndsKeeps, ThreadsKeep,
     UseRedisKeeps DEF RedisNext

----------------------------------------
(* Connections, MongoDB.  Those who wait for the lock, or have it, stand
   in line; each wants at least what those before it want; and what counts
   as initialised without being so is wanted by one of them. *)
MongoStates == {"idle", "connecting", "pinging", "initialising", "ready", "toClose", "closing"}
MongoCalls == [at : MongoStates, client : Nat, want : SUBSET DocModels]
Waits(r) == r.at \in {"connecting", "pinging", "initialising", "toClose"}
Seeks(r) == r.at \in {"connecting", "pinging", "initialising"}

MongoTyped ==
  /\ mongo \in Nat /\ mongoMade \in Nat /\ mongoLock \in Seq(MongoCallers)
  /\ mongoCall \in [MongoCallers -> MongoCalls] /\ docs \in SUBSET DocModels
  /\ bound \in [DocModels -> Nat]

QueueFits ==
  /\ \A i \in DOMAIN mongoLock : Waits(mongoCall[mongoLock[i]])
  /\ \A i, j \in DOMAIN mongoLock : mongoLock[i] = mongoLock[j] => i = j
  /\ \A c \in MongoCallers :
       /\ Waits(mongoCall[c]) => \E i \in DOMAIN mongoLock : mongoLock[i] = c
       /\ mongoCall[c].at \in {"pinging", "initialising"} => mongoLock[1] = c
  /\ \A i, j \in DOMAIN mongoLock : i < j /\ Seeks(mongoCall[mongoLock[j]]) =>
         mongoCall[mongoLock[i]].want \subseteq mongoCall[mongoLock[j]].want

MongoClientsFit ==
  /\ \A c \in MongoCallers :
       /\ mongoCall[c].at = "pinging" => mongo = 0
       /\ mongoCall[c].at = "initialising" => mongo \in {0, mongoCall[c].client}
  /\ \A k \in 1..mongoMade :
       \/ k \in mongoShut \cup lost \cup {mongo}
       \/ \E c \in MongoCallers :
            mongoCall[c].at \in {"pinging", "initialising", "closing"} /\ mongoCall[c].client = k

Wanted(m) == m \in failed \/ \E d \in MongoCallers : m \in mongoCall[d].want
ModelsFit ==
  /\ initialised \subseteq docs
  /\ \A c \in MongoCallers :
       /\ mongoCall[c].want \subseteq docs /\ (~Seeks(mongoCall[c]) => mongoCall[c].want = {})
       /\ Seeks(mongoCall[c]) => \A m \in docs \ mongoCall[c].want : Wanted(m)
  /\ mongo # 0 => \A m \in initialised : bound[m] = mongo \/ Wanted(m)

MongoIInv == MongoTyped /\ QueueFits /\ MongoClientsFit /\ ModelsFit

LEMMA InitMongo == ASSUME MongoInit PROVE MongoIInv
<1>1. mongoLock = <<>> /\ mongoLock \in Seq(MongoCallers) /\ DOMAIN mongoLock = {} BY DEF MongoInit
<1>2. NoMongoCall \in MongoCalls /\ NoMongoCall.at = "idle" /\ NoMongoCall.want = {}
  BY DEF NoMongoCall, MongoCalls, MongoStates
<1>3. mongoCall = [c \in MongoCallers |-> NoMongoCall] /\ mongo = 0 /\ mongoMade = 0
      /\ docs = {} /\ initialised = {} /\ bound = [m \in DocModels |-> 0]
  BY DEF MongoInit
<1> QED BY <1>1, <1>2, <1>3
        DEF MongoIInv, MongoTyped, QueueFits, MongoClientsFit, ModelsFit, Waits, Seeks

LEMMA DatabasesThen == ASSUME RedisIInv, MongoIInv PROVE DatabaseClientsKept
<1> DEFINE busy(calls, at) == {calls[c].client : c \in {d \in DOMAIN calls : calls[d].at \in at}}
<1>1. /\ (1..redisMade) \ redisShut \subseteq {redis} \cup busy(redisUser, {"closing"})
      /\ open \subseteq ({redis} \cup busy(redisUser, {"closing"})) \cup late
  <2>1. DOMAIN redisUser = RedisCallers \cup RedisThreads BY DEF RedisIInv
  <2>2. \A c \in RedisCallers \cup RedisThreads :
          redisUser[c].at = "closing" => redisUser[c].client \in busy(redisUser, {"closing"})
    BY <2>1
  <2> HIDE DEF busy
  <2> QED BY <2>2 DEF RedisIInv
<1>2. (1..mongoMade) \ mongoShut
        \subseteq ({mongo} \cup lost) \cup busy(mongoCall, {"pinging", "initialising", "closing"})
  <2>1. DOMAIN mongoCall = MongoCallers BY DEF MongoIInv, MongoTyped
  <2>2. \A c \in MongoCallers : mongoCall[c].at \in {"pinging", "initialising", "closing"} =>
            mongoCall[c].client \in busy(mongoCall, {"pinging", "initialising", "closing"})
    BY <2>1
  <2> HIDE DEF busy
  <2> QED BY <2>2 DEF MongoIInv, MongoClientsFit
<1>3. ASSUME mongo # 0, mongoLock = <<>>, NEW m \in initialised
      PROVE  bound[m] = mongo \/ m \in failed
  <2>1. DOMAIN mongoLock = {} BY <1>3
  <2>2. \A c \in MongoCallers : mongoCall[c].want = {}
    BY <2>1 DEF MongoIInv, QueueFits, ModelsFit, Waits, Seeks
  <2> QED BY <1>3, <2>2 DEF MongoIInv, ModelsFit, Wanted
<1> QED BY <1>1, <1>2, <1>3 DEF DatabaseClientsKept

LEMMA MongoCallSteps ==
  ASSUME MongoTyped, NEW c \in MongoCallers, NEW r \in MongoCalls,
         mongoCall' = [mongoCall EXCEPT ![c] = r]
  PROVE  /\ mongoCall' \in [MongoCallers -> MongoCalls] /\ mongoCall'[c] = r
         /\ \A d \in MongoCallers : d # c => mongoCall'[d] = mongoCall[d]
  BY DEF MongoTyped

(* Where a call goes on, the line stays, grows at its end or shrinks at
   its head. *)
LEMMA QueueStays ==
  ASSUME MongoTyped, QueueFits, NEW c \in MongoCallers, NEW r \in MongoCalls,
         mongoCall' = [mongoCall EXCEPT ![c] = r], UNCHANGED mongoLock,
         Waits(r) <=> Waits(mongoCall[c]), Seeks(r) => Seeks(mongoCall[c]),
         r.want = mongoCall[c].want,
         r.at \in {"pinging", "initialising"} => mongoLock[1] = c
  PROVE  QueueFits'
<1>1. /\ mongoCall'[c] = r /\ \A d \in MongoCallers : d # c => mongoCall'[d] = mongoCall[d]
  BY MongoCallSteps
<1>2. \A i \in DOMAIN mongoLock : mongoLock[i] \in MongoCallers BY DEF MongoTyped
<1>3. \A d \in MongoCallers :
        /\ Waits(mongoCall'[d]) <=> Waits(mongoCall[d])
        /\ Seeks(mongoCall'[d]) => Seeks(mongoCall[d])
        /\ mongoCall'[d].want = mongoCall[d].want
        /\ mongoCall'[d].at \in {"pinging", "initialising"} => mongoLock[1] = d
  <2> SUFFICES ASSUME NEW d \in MongoCallers
               PROVE  /\ Waits(mongoCall'[d]) <=> Waits(mongoCall[d])
                      /\ Seeks(mongoCall'[d]) => Seeks(mongoCall[d])
                      /\ mongoCall'[d].want = mongoCall[d].want
                      /\ mongoCall'[d].at \in {"pinging", "initialising"} => mongoLock[1] = d
    BY Zenon
  <2>1. CASE d = c BY <1>1, <2>1
  <2>2. CASE d # c
    <3>1. mongoCall'[d] = mongoCall[d] BY <1>1, <2>2
    <3> QED BY <3>1 DEF QueueFits
  <2> QED BY <2>1, <2>2
<1>4. mongoLock' = mongoLock OBVIOUS
<1>5. \A i \in DOMAIN mongoLock : Waits(mongoCall'[mongoLock[i]]) BY <1>2, <1>3 DEF QueueFits
<1>6. \A i, j \in DOMAIN mongoLock : i < j /\ Seeks(mongoCall'[mongoLock[j]]) =>
          mongoCall'[mongoLock[i]].want \subseteq mongoCall'[mongoLock[j]].want
  BY <1>2, <1>3 DEF QueueFits
<1>7. \A d \in MongoCallers : Waits(mongoCall'[d]) => \E i \in DOMAIN mongoLock : mongoLock[i] = d
  BY <1>3 DEF QueueFits
<1>8. \A i, j \in DOMAIN mongoLock : mongoLock[i] = mongoLock[j] => i = j BY DEF QueueFits
<1> QED BY <1>3, <1>4, <1>5, <1>6, <1>7, <1>8 DEF QueueFits, Waits, Seeks

LEMMA QueueGrows ==
  ASSUME MongoTyped, QueueFits, NEW c \in MongoCallers, NEW r \in MongoCalls,
         mongoCall' = [mongoCall EXCEPT ![c] = r], mongoLock' = Append(mongoLock, c),
         ~Waits(mongoCall[c]), r.at \in {"connecting", "toClose"},
         Seeks(r) => \A d \in MongoCallers : mongoCall[d].want \subseteq r.want
  PROVE  QueueFits' /\ mongoLock' \in Seq(MongoCallers)
<1> DEFINE N == Len(mongoLock)
<1>1. /\ mongoCall'[c] = r /\ \A d \in MongoCallers : d # c => mongoCall'[d] = mongoCall[d]
  BY MongoCallSteps
<1>2. mongoLock \in Seq(MongoCallers) BY DEF MongoTyped
<1>3. /\ mongoLock' \in Seq(MongoCallers) /\ Len(mongoLock') = N + 1 /\ N \in Nat
      /\ \A i \in 1..N : mongoLock'[i] = mongoLock[i]
      /\ mongoLock'[N + 1] = c
  BY <1>2, AppendProperties
<1>4. DOMAIN mongoLock = 1..N /\ DOMAIN mongoLock' = 1..N + 1 BY <1>2, <1>3
<1>5. \A i \in 1..N : mongoLock[i] \in MongoCallers BY <1>2, ElementOfSeq
<1>6. \A i \in 1..N : mongoLock[i] # c /\ mongoCall'[mongoLock[i]] = mongoCall[mongoLock[i]]
  BY <1>1, <1>4, <1>5 DEF QueueFits
<1>7. \A i \in 1..N + 1 : i \in 1..N \/ i = N + 1 BY <1>3
<1> HIDE DEF N
<1>8. Waits(r) BY DEF Waits
<1>9. \A i \in 1..N + 1 : Waits(mongoCall'[mongoLock'[i]])
  BY <1>1, <1>3, <1>4, <1>6, <1>7, <1>8 DEF QueueFits
<1>10. \A i, j \in 1..N + 1 : mongoLock'[i] = mongoLock'[j] => i = j
  BY <1>3, <1>4, <1>6, <1>7 DEF QueueFits
<1>11. ASSUME NEW d \in MongoCallers
       PROVE  /\ Waits(mongoCall'[d]) => \E i \in 1..N + 1 : mongoLock'[i] = d
              /\ mongoCall'[d].at \in {"pinging", "initialising"} => mongoLock'[1] = d
  <2>1. CASE d = c
    <3>1. N + 1 \in 1..N + 1 BY <1>3
    <3> QED BY <1>1, <1>3, <2>1, <3>1
  <2>2. CASE d # c
    <3>1. mongoCall'[d] = mongoCall[d] BY <1>1, <2>2
    <3>2. Waits(mongoCall[d]) => \E i \in 1..N : mongoLock[i] = d BY <1>4 DEF QueueFits
    <3>3. \A i \in 1..N : i \in 1..N + 1 /\ 1 \in 1..N BY <1>3
    <3>4. mongoCall[d].at \in {"pinging", "initialising"} => mongoLock[1] = d /\ Waits(mongoCall[d])
      BY DEF QueueFits, Waits
    <3> QED BY <1>3, <3>1, <3>2, <3>3, <3>4
  <2> QED BY <2>1, <2>2
<1>12. ASSUME NEW i \in 1..N + 1, NEW j \in 1..N + 1, i < j, Seeks(mongoCall'[mongoLock'[j]])
       PROVE  mongoCall'[mongoLock'[i]].want \subseteq mongoCall'[mongoLock'[j]].want
  <2>1. i \in 1..N BY <1>3, <1>12
  <2>2. mongoCall'[mongoLock'[i]] = mongoCall[mongoLock[i]] /\ mongoLock[i] \in MongoCallers
    BY <1>3, <1>5, <1>6, <2>1
  <2>3. CASE j = N + 1 BY <1>1, <1>3, <1>12, <2>2, <2>3
  <2>4. CASE j \in 1..N BY <1>3, <1>4, <1>6, <1>12, <2>1, <2>2, <2>4 DEF QueueFits
  <2> QED BY <1>7, <2>3, <2>4
<1> QED BY <1>3, <1>4, <1>9, <1>10, <1>11, <1>12 DEF QueueFits, Waits, Seeks

LEMMA QueueShrinks ==
  ASSUME MongoTyped, QueueFits, NEW c \in MongoCallers, NEW r \in MongoCalls,
         mongoCall' = [mongoCall EXCEPT ![c] = r], mongoLock' = Tail(mongoLock),
         mongoLock # <<>>, Head(mongoLock) = c, ~Waits(r)
  PROVE  QueueFits' /\ mongoLock' \in Seq(MongoCallers)
<1> DEFINE N == Len(mongoLock')
<1>1. /\ mongoCall'[c] = r /\ \A d \in MongoCallers : d # c => mongoCall'[d] = mongoCall[d]
  BY MongoCallSteps
<1>2. mongoLock \in Seq(MongoCallers) BY DEF MongoTyped
<1>3. /\ mongoLock' \in Seq(MongoCallers) /\ N = Len(mongoLock) - 1 /\ Len(mongoLock) \in Nat
      /\ \A i \in 1..N : mongoLock'[i] = mongoLock[i + 1]
  BY <1>2, HeadTailProperties
<1>4. mongoLock[1] = c /\ N \in Nat BY <1>2, <1>3
<1>5. DOMAIN mongoLock = 1..N + 1 /\ DOMAIN mongoLock' = 1..N BY <1>2, <1>3
<1> HIDE DEF N
<1>6. \A i \in 1..N : i + 1 \in 1..N + 1 /\ i + 1 # 1 /\ 1 \in 1..N + 1 BY <1>4
<1>7. /\ \A i \in 1..N + 1 : mongoLock[i] \in MongoCallers
      /\ \A i \in 1..N + 1 : Waits(mongoCall[mongoLock[i]])
      /\ \A i, j \in 1..N + 1 : mongoLock[i] = mongoLock[j] => i = j
      /\ \A i, j \in 1..N + 1 : i < j /\ Seeks(mongoCall[mongoLock[j]]) =>
             mongoCall[mongoLock[i]].want \subseteq mongoCall[mongoLock[j]].want
  <2>1. \A i \in DOMAIN mongoLock : mongoLock[i] \in MongoCallers BY <1>2
  <2> QED BY <1>5, <2>1 DEF QueueFits
<1>8. \A i \in 1..N :
  /\ mongoLock'[i] # c /\ mongoLock'[i] = mongoLock[i + 1]
  /\ mongoCall'[mongoLock'[i]] = mongoCall[mongoLock[i + 1]]
  <2> SUFFICES ASSUME NEW i \in 1..N
               PROVE  /\ mongoLock'[i] # c /\ mongoLock'[i] = mongoLock[i + 1]
                      /\ mongoCall'[mongoLock'[i]] = mongoCall[mongoLock[i + 1]]
    OBVIOUS
  <2>1. mongoLock[i + 1] # c /\ mongoLock[i + 1] \in MongoCallers BY <1>4, <1>6, <1>7
  <2> QED BY <1>1, <1>3, <2>1
<1>9. \A i \in 1..N : Waits(mongoCall'[mongoLock'[i]]) BY <1>6, <1>7, <1>8
<1>10. \A i, j \in 1..N : mongoLock'[i] = mongoLock'[j] => i = j
  <2> SUFFICES ASSUME NEW i \in 1..N, NEW j \in 1..N, mongoLock'[i] = mongoLock'[j] PROVE i = j
    OBVIOUS
  <2>1. i + 1 = j + 1
    <3>1. mongoLock[i + 1] = mongoLock[j + 1] BY <1>8
    <3>2. i + 1 \in 1..N + 1 /\ j + 1 \in 1..N + 1 BY <1>6
    <3> QED BY <1>7, <3>1, <3>2
  <2> QED BY <1>4, <2>1
<1>11. ASSUME NEW d \in MongoCallers
       PROVE  /\ Waits(mongoCall'[d]) => \E i \in 1..N : mongoLock'[i] = d
              /\ mongoCall'[d].at \in {"pinging", "initialising"} => mongoLock'[1] = d
  <2>1. CASE d = c BY <1>1, <2>1 DEF Waits
  <2>2. CASE d # c
    <3>1. mongoCall'[d] = mongoCall[d] BY <1>1, <2>2
    <3>2. ASSUME Waits(mongoCall[d]) PROVE \E i \in 1..N : mongoLock'[i] = d
      <4>1. PICK k \in 1..N + 1 : mongoLock[k] = d BY <1>5, <3>2 DEF QueueFits
      <4>2. k # 1 BY <1>4, <2>2, <4>1
      <4>3. k - 1 \in 1..N /\ k - 1 + 1 = k BY <1>4, <4>2
      <4> QED BY <1>3, <4>1, <4>3
    <3>3. mongoCall[d].at \notin {"pinging", "initialising"} BY <1>4, <2>2 DEF QueueFits
    <3> QED BY <3>1, <3>2, <3>3
  <2> QED BY <2>1, <2>2
<1>12. ASSUME NEW i \in 1..N, NEW j \in 1..N, i < j, Seeks(mongoCall'[mongoLock'[j]])
       PROVE  mongoCall'[mongoLock'[i]].want \subseteq mongoCall'[mongoLock'[j]].want
  <2>1. i + 1 < j + 1 /\ i + 1 \in 1..N + 1 /\ j + 1 \in 1..N + 1 BY <1>4, <1>12
  <2> QED BY <1>7, <1>8, <1>12, <2>1
<1>13. /\ \A i \in DOMAIN mongoLock' : Waits(mongoCall'[mongoLock'[i]])
       /\ \A i, j \in DOMAIN mongoLock' : mongoLock'[i] = mongoLock'[j] => i = j
       /\ \A d \in MongoCallers :
            /\ Waits(mongoCall'[d]) => \E i \in DOMAIN mongoLock' : mongoLock'[i] = d
            /\ mongoCall'[d].at \in {"pinging", "initialising"} => mongoLock'[1] = d
       /\ \A i, j \in DOMAIN mongoLock' : i < j /\ Seeks(mongoCall'[mongoLock'[j]]) =>
              mongoCall'[mongoLock'[i]].want \subseteq mongoCall'[mongoLock'[j]].want
  BY <1>5, <1>9, <1>10, <1>11, <1>12
<1> QED BY <1>3, <1>13, Zenon DEF QueueFits, Waits, Seeks

Holds(r) == r.at \in {"pinging", "initialising", "closing"}

(* A call goes on, with a client that it has from somewhere and leaves
   somewhere. *)
LEMMA MongoClientsGo ==
  ASSUME MongoTyped, MongoClientsFit, NEW c \in MongoCallers, NEW r \in MongoCalls,
         mongoCall' = [mongoCall EXCEPT ![c] = r],
         Holds(mongoCall[c]) =>
           \/ mongoCall[c].client \in mongoShut' \cup lost' \cup {mongo', 0}
           \/ Holds(r) /\ r.client = mongoCall[c].client,
         \A k \in 1..mongoMade' : k \in 1..mongoMade \/ (Holds(r) /\ r.client = k),
         mongo' = mongo \/ mongo = 0 \/ (Holds(r) /\ r.client = mongo),
         mongoShut \subseteq mongoShut', lost \subseteq lost',
         \A d \in MongoCallers :
           d # c /\ mongoCall[d].at \in {"pinging", "initialising"} => mongo' = mongo,
         r.at = "pinging" => mongo' = 0, r.at = "initialising" => mongo' \in {0, r.client}
  PROVE  MongoClientsFit'
<1>1. /\ mongoCall' \in [MongoCallers -> MongoCalls] /\ mongoCall'[c] = r
      /\ \A d \in MongoCallers : d # c => mongoCall'[d] = mongoCall[d]
  BY MongoCallSteps
<1>2. \A d \in MongoCallers :
        /\ mongoCall'[d].at = "pinging" => mongo' = 0
        /\ mongoCall'[d].at = "initialising" => mongo' \in {0, mongoCall'[d].client}
  BY <1>1 DEF MongoClientsFit
<1>3. ASSUME NEW k \in 1..mongoMade'
      PROVE  \/ k \in mongoShut' \cup lost' \cup {mongo'}
             \/ \E d \in MongoCallers : Holds(mongoCall'[d]) /\ mongoCall'[d].client = k
  <2>1. CASE Holds(r) /\ r.client = k BY <1>1, <2>1
  <2>2. CASE ~(Holds(r) /\ r.client = k)
    <3>1. k \in 1..mongoMade /\ k # 0 BY <1>3, <2>2 DEF MongoTyped
    <3>2. CASE k \in mongoShut \cup lost \cup {mongo} BY <2>2, <3>1, <3>2
    <3>3. CASE \E d \in MongoCallers : Holds(mongoCall[d]) /\ mongoCall[d].client = k
      <4>1. PICK d \in MongoCallers : Holds(mongoCall[d]) /\ mongoCall[d].client = k BY <3>3
      <4>2. CASE d = c BY <2>2, <4>1, <4>2
      <4>3. CASE d # c BY <1>1, <4>1, <4>3
      <4> QED BY <4>2, <4>3
    <3> QED BY <3>1, <3>2, <3>3 DEF MongoClientsFit, Holds
  <2> QED BY <2>1, <2>2
<1> QED BY <1>2, <1>3 DEF MongoClientsFit, Holds

(* A call goes on, and wants what it wanted. *)
LEMMA MongoGoesOn ==
  ASSUME MongoIInv, NEW c \in MongoCallers, NEW r \in MongoCalls,
         mongoCall' = [mongoCall EXCEPT ![c] = r], UNCHANGED <<mongo, mongoLock, docs, bound, failed>>,
         Waits(r) <=> Waits(mongoCall[c]), Seeks(r) <=> Seeks(mongoCall[c]),
         r.want = mongoCall[c].want,
         r.at \in {"pinging", "initialising"} => mongoLock[1] = c,
         r.at = "pinging" => mongo = 0, r.at = "initialising" => mongo \in {0, r.client},
         initialised' \subseteq initialised, mongoMade' \in Nat,
         mongoShut \subseteq mongoShut', lost \subseteq lost',
         Holds(mongoCall[c]) =>
           \/ mongoCall[c].client \in mongoShut' \cup lost' \cup {mongo, 0}
           \/ Holds(r) /\ r.client = mongoCall[c].client,
         \A k \in 1..mongoMade' : k \in 1..mongoMade \/ (Holds(r) /\ r.client = k)
  PROVE  MongoIInv'
<1>1. MongoTyped /\ QueueFits /\ MongoClientsFit /\ ModelsFit BY DEF MongoIInv
<1>2. /\ mongoCall' \in [MongoCallers -> MongoCalls] /\ mongoCall'[c] = r
      /\ \A d \in MongoCallers : d # c => mongoCall'[d] = mongoCall[d]
  BY <1>1, MongoCallSteps
<1>3. MongoTyped' BY <1>1, <1>2 DEF MongoTyped
<1>4. QueueFits' BY <1>1, QueueStays
<1>5. \A d \in MongoCallers : mongoCall'[d].want = mongoCall[d].want
                              /\ (Seeks(mongoCall'[d]) <=> Seeks(mongoCall[d]))
  BY <1>2
<1>6. \A m : Wanted(m) => Wanted(m)' BY <1>5 DEF Wanted
<1>7. \A d \in MongoCallers :
        /\ mongoCall'[d].want \subseteq docs /\ (~Seeks(mongoCall'[d]) => mongoCall'[d].want = {})
        /\ Seeks(mongoCall'[d]) => \A m \in docs \ mongoCall'[d].want : Wanted(m)'
  <2> SUFFICES ASSUME NEW d \in MongoCallers
               PROVE  /\ mongoCall'[d].want \subseteq docs
                      /\ (~Seeks(mongoCall'[d]) => mongoCall'[d].want = {})
                      /\ Seeks(mongoCall'[d]) => \A m \in docs \ mongoCall'[d].want : Wanted(m)'
    BY Zenon
  <2>1. /\ mongoCall[d].want \subseteq docs /\ (~Seeks(mongoCall[d]) => mongoCall[d].want = {})
        /\ Seeks(mongoCall[d]) => \A m \in docs \ mongoCall[d].want : Wanted(m)
    BY <1>1 DEF ModelsFit
  <2> QED BY <1>5, <1>6, <2>1
<1>8. ModelsFit' BY <1>1, <1>6, <1>7, Zenon DEF ModelsFit, Seeks, Wanted
<1>9. MongoClientsFit'
  <2>1. mongo' = mongo OBVIOUS
  <2> QED BY <1>1, <2>1, MongoClientsGo
<1> QED BY <1>3, <1>4, <1>8, <1>9 DEF MongoIInv

LEMMA CallMade ==
  ASSUME NEW at \in MongoStates, NEW n \in Nat, NEW w \in SUBSET DocModels
  PROVE  /\ [at |-> at, client |-> n, want |-> w] \in MongoCalls
         /\ [at |-> at, client |-> n, want |-> w].at = at
         /\ [at |-> at, client |-> n, want |-> w].client = n
         /\ [at |-> at, client |-> n, want |-> w].want = w
  BY DEF MongoCalls

LEMMA HeadFirst ==
  ASSUME MongoIInv, NEW c \in MongoCallers, NEW at, HasMongoLock(c, at)
  PROVE  mongoCall[c].at \in at /\ mongoLock # <<>> /\ Head(mongoLock) = c /\ mongoLock[1] = c
  BY DEF HasMongoLock, MongoIInv, MongoTyped

LEMMA ConnectMongoKeeps == ASSUME MongoIInv, NEW c \in MongoCallers, ConnectMongo(c) PROVE MongoIInv'
<1>1. PICK old \in MongoCalls : old = mongoCall[c] BY DEF MongoIInv, MongoTyped
<1>2. /\ old.at = "connecting" /\ mongoLock[1] = c /\ mongoMade \in Nat /\ mongo \in Nat
      /\ UNCHANGED <<mongo, mongoLock, mongoShut, lost, docs, initialised, bound, failed>>
      /\ old.want \in SUBSET DocModels
  BY <1>1, HeadFirst DEF ConnectMongo, MongoIInv, MongoTyped, MongoCalls
<1>3. PICK r \in MongoCalls :
        /\ mongoCall' = [mongoCall EXCEPT ![c] = r] /\ r.want = old.want
        /\ mongoMade' \in Nat
        /\ \/ r.at = "initialising" /\ r.client = mongo /\ mongoMade' = mongoMade
           \/ r.at = "pinging" /\ mongo = 0 /\ mongoMade' = mongoMade + 1 /\ r.client = mongoMade'
  <2>1. CASE mongo # 0
    <3>1. PICK n \in Nat : n = mongo BY <1>2
    <3> DEFINE r == [at |-> "initialising", client |-> n, want |-> old.want]
    <3>2. r \in MongoCalls /\ r.at = "initialising" /\ r.client = n /\ r.want = old.want
      BY <1>2, CallMade DEF MongoStates
    <3>3. mongoCall' = [mongoCall EXCEPT ![c] = r] /\ mongoMade' = mongoMade
      BY <1>1, <2>1, <3>1 DEF ConnectMongo, CallIs
    <3> HIDE DEF r
    <3> QED BY <1>2, <3>1, <3>2, <3>3
  <2>2. CASE mongo = 0
    <3>1. PICK n \in Nat : n = mongoMade' /\ n = mongoMade + 1 BY <1>2, <2>2 DEF ConnectMongo
    <3> DEFINE r == [at |-> "pinging", client |-> n, want |-> old.want]
    <3>2. r \in MongoCalls /\ r.at = "pinging" /\ r.client = n /\ r.want = old.want
      BY <1>2, CallMade DEF MongoStates
    <3>3. mongoCall' = [mongoCall EXCEPT ![c] = r] BY <1>1, <2>2, <3>1 DEF ConnectMongo, CallIs
    <3> HIDE DEF r
    <3> QED BY <2>2, <3>1, <3>2, <3>3
  <2> QED BY <2>1, <2>2
<1>4. \A k \in 1..mongoMade' : k \in 1..mongoMade \/ (Holds(r) /\ r.client = k)
  BY <1>2, <1>3 DEF Holds
<1>5. ~Holds(mongoCall[c]) /\ Waits(mongoCall[c]) /\ Seeks(mongoCall[c]) /\ Waits(r) /\ Seeks(r)
  BY <1>1, <1>2, <1>3 DEF Holds, Waits, Seeks
<1> QED BY <1>1, <1>2, <1>3, <1>4, <1>5, MongoGoesOn

LEMMA PongedKeeps == ASSUME MongoIInv, NEW c \in MongoCallers, Ponged(c) PROVE MongoIInv'
<1>1. PICK old \in MongoCalls : old = mongoCall[c] BY DEF MongoIInv, MongoTyped
<1>2. /\ old.at = "pinging" /\ mongoLock[1] = c /\ mongoMade \in Nat /\ mongo = 0
      /\ UNCHANGED <<mongo, mongoLock, mongoMade, mongoShut, lost, docs, initialised, bound, failed>>
      /\ old.want \in SUBSET DocModels /\ old.client \in Nat
  BY <1>1, HeadFirst DEF Ponged, MongoIInv, MongoTyped, MongoCalls, MongoClientsFit
<1> DEFINE r == [at |-> "initialising", client |-> old.client, want |-> old.want]
<1>3. r \in MongoCalls /\ r.at = "initialising" /\ r.client = old.client /\ r.want = old.want
  BY <1>2, CallMade DEF MongoStates
<1>4. mongoCall' = [mongoCall EXCEPT ![c] = r] BY <1>1 DEF Ponged, CallIs
<1> HIDE DEF r
<1>5. /\ Holds(r) /\ Waits(mongoCall[c]) /\ Seeks(mongoCall[c]) /\ Waits(r) /\ Seeks(r)
      /\ r.client = mongoCall[c].client /\ r.want = mongoCall[c].want
  BY <1>1, <1>2, <1>3 DEF Holds, Waits, Seeks
<1> QED BY <1>2, <1>3, <1>4, <1>5, MongoGoesOn

LEMMA MongoEndsKeeps == ASSUME MongoIInv, NEW c \in MongoCallers, MongoEnds(c) PROVE MongoIInv'
<1>1. /\ mongoCall[c].at = "ready" /\ mongoMade \in Nat
      /\ UNCHANGED <<mongo, mongoLock, mongoMade, mongoShut, lost, docs, initialised, bound, failed>>
  BY DEF MongoEnds, MongoIInv, MongoTyped
<1> DEFINE r == [at |-> "idle", client |-> 0, want |-> {}]
<1>2. r \in MongoCalls /\ r.at = "idle" /\ r.client = 0 /\ r.want = {} BY CallMade DEF MongoStates
<1>3. mongoCall' = [mongoCall EXCEPT ![c] = r] BY DEF MongoEnds, CallIs
<1> HIDE DEF r
<1>4. /\ ~Holds(mongoCall[c]) /\ ~Waits(mongoCall[c]) /\ ~Seeks(mongoCall[c]) /\ ~Waits(r) /\ ~Seeks(r)
  BY <1>1, <1>2 DEF Holds, Waits, Seeks
<1>5. r.want = mongoCall[c].want BY <1>2, <1>4 DEF MongoIInv, ModelsFit
<1> QED BY <1>1, <1>2, <1>3, <1>4, <1>5, MongoGoesOn

LEMMA CloseMongoEndsKeeps ==
  ASSUME MongoIInv, NEW c \in MongoCallers, CloseMongoEnds(c) PROVE MongoIInv'
<1>1. /\ mongoCall[c].at = "closing" /\ mongoMade \in Nat /\ initialised' = {}
      /\ mongoShut' = mongoShut \cup ({mongoCall[c].client} \ {0})
      /\ UNCHANGED <<mongo, mongoLock, mongoMade, lost, docs, bound, failed>>
  BY DEF CloseMongoEnds, MongoIInv, MongoTyped
<1> DEFINE r == [at |-> "idle", client |-> 0, want |-> {}]
<1>2. r \in MongoCalls /\ r.at = "idle" /\ r.client = 0 /\ r.want = {} BY CallMade DEF MongoStates
<1>3. mongoCall' = [mongoCall EXCEPT ![c] = r] BY DEF CloseMongoEnds, CallIs
<1> HIDE DEF r
<1>4. /\ ~Waits(mongoCall[c]) /\ ~Seeks(mongoCall[c]) /\ ~Waits(r) /\ ~Seeks(r)
  BY <1>1, <1>2 DEF Waits, Seeks
<1>5. r.want = mongoCall[c].want BY <1>2, <1>4 DEF MongoIInv, ModelsFit
<1>6. mongoCall[c].client \in mongoShut' \cup lost' \cup {mongo, 0} BY <1>1
<1>7. r.at \notin {"pinging", "initialising"} /\ mongoShut \subseteq mongoShut' /\ lost \subseteq lost'
      /\ initialised' \subseteq initialised
  BY <1>1, <1>2
<1> QED BY <1>1, <1>2, <1>3, <1>4, <1>5, <1>6, <1>7, MongoGoesOn

LEMMA CloseMongoKeeps == ASSUME MongoIInv, NEW c \in MongoCallers, CloseMongo(c) PROVE MongoIInv'
<1>1. /\ mongoCall[c].at = "idle" /\ mongoLock' = Append(mongoLock, c)
      /\ UNCHANGED <<mongo, mongoMade, mongoShut, lost, docs, initialised, bound, failed>>
      /\ MongoTyped /\ QueueFits /\ MongoClientsFit /\ ModelsFit
  BY DEF CloseMongo, MongoIInv
<1> DEFINE r == [at |-> "toClose", client |-> 0, want |-> {}]
<1>2. r \in MongoCalls /\ r.at = "toClose" /\ r.client = 0 /\ r.want = {}
  BY CallMade DEF MongoStates
<1>3. mongoCall' = [mongoCall EXCEPT ![c] = r] BY DEF CloseMongo, CallIs
<1> HIDE DEF r
<1>4. /\ ~Holds(mongoCall[c]) /\ ~Waits(mongoCall[c]) /\ ~Seeks(mongoCall[c]) /\ ~Seeks(r)
      /\ mongoCall[c].want = {}
  BY <1>1, <1>2 DEF Holds, Waits, Seeks, ModelsFit
<1>5. QueueFits' /\ mongoLock' \in Seq(MongoCallers) BY <1>1, <1>2, <1>3, <1>4, QueueGrows
<1>6. MongoClientsFit' BY <1>1, <1>2, <1>3, <1>4, MongoClientsGo
<1>7. /\ mongoCall' \in [MongoCallers -> MongoCalls]
      /\ \A d \in MongoCallers :
         /\ mongoCall'[d].want = mongoCall[d].want
         /\ Seeks(mongoCall'[d]) <=> Seeks(mongoCall[d])
  BY <1>1, <1>2, <1>3, <1>4, MongoCallSteps
<1>8. \A m : Wanted(m) => Wanted(m)' BY <1>1, <1>7 DEF Wanted
<1>9. ModelsFit' BY <1>1, <1>7, <1>8, Zenon DEF ModelsFit, Seeks, Wanted
<1>10. MongoTyped' BY <1>1, <1>5, <1>7 DEF MongoTyped
<1> QED BY <1>5, <1>6, <1>9, <1>10 DEF MongoIInv

LEMMA EnsureMongoKeeps ==
  ASSUME MongoIInv, NEW c \in MongoCallers, NEW more \in SUBSET DocModels, EnsureMongo(c, more)
  PROVE  MongoIInv'
<1>1. /\ mongoCall[c].at = "idle" /\ docs' = docs \cup more /\ mongo \in Nat /\ mongoMade \in Nat
      /\ UNCHANGED <<mongo, mongoMade, mongoShut, lost, initialised, bound, failed>>
      /\ docs' \in SUBSET DocModels
      /\ MongoTyped /\ QueueFits /\ MongoClientsFit /\ ModelsFit
  BY DEF EnsureMongo, MongoIInv, MongoTyped
<1>2. ~Holds(mongoCall[c]) /\ ~Waits(mongoCall[c]) /\ ~Seeks(mongoCall[c]) /\ mongoCall[c].want = {}
  BY <1>1 DEF Holds, Waits, Seeks, ModelsFit
<1>3. CASE mongo = 0 \/ (docs' # {} /\ docs' # initialised)
  <2>1. CallIs(c, "connecting", 0, docs') /\ mongoLock' = Append(mongoLock, c)
    BY <1>3 DEF EnsureMongo
  <2>2. PICK w \in SUBSET DocModels : w = docs' BY <1>1
  <2> DEFINE r == [at |-> "connecting", client |-> 0, want |-> w]
  <2>3. r \in MongoCalls /\ r.at = "connecting" /\ r.client = 0 /\ r.want = w
    BY CallMade DEF MongoStates
  <2>4. mongoCall' = [mongoCall EXCEPT ![c] = r] BY <2>1, <2>2 DEF CallIs
  <2> HIDE DEF r
  <2>5. \A d \in MongoCallers : mongoCall[d].want \subseteq w BY <1>1, <2>2 DEF ModelsFit
  <2>6. QueueFits' /\ mongoLock' \in Seq(MongoCallers)
    BY <1>1, <1>2, <2>1, <2>3, <2>4, <2>5, QueueGrows
  <2>7. MongoClientsFit' BY <1>1, <1>2, <2>3, <2>4, MongoClientsGo
  <2>8. /\ mongoCall' \in [MongoCallers -> MongoCalls] /\ mongoCall'[c] = r
        /\ \A d \in MongoCallers : d # c => mongoCall'[d] = mongoCall[d]
    BY <1>1, <2>3, <2>4 DEF MongoTyped
  <2>9. \A m \in docs' : Wanted(m)' BY <2>2, <2>3, <2>8 DEF Wanted
  <2>10. \A d \in MongoCallers :
           /\ mongoCall'[d].want \subseteq docs'
           /\ ~Seeks(mongoCall'[d]) => mongoCall'[d].want = {}
    BY <1>1, <2>2, <2>3, <2>5, <2>8 DEF ModelsFit, Seeks
  <2>11. initialised' \subseteq docs' BY <1>1 DEF ModelsFit
  <2>12. ModelsFit' BY <2>9, <2>10, <2>11, Zenon DEF ModelsFit, Seeks, Wanted
  <2>13. MongoTyped' BY <1>1, <2>6, <2>8 DEF MongoTyped
  <2> QED BY <2>6, <2>7, <2>12, <2>13 DEF MongoIInv
<1>4. CASE ~(mongo = 0 \/ (docs' # {} /\ docs' # initialised))
  <2>1. CallIs(c, "ready", mongo, {}) /\ UNCHANGED mongoLock BY <1>4 DEF EnsureMongo
  <2>2. docs' = docs BY <1>1, <1>4 DEF ModelsFit
  <2>3. PICK n \in Nat : n = mongo BY <1>1
  <2> DEFINE r == [at |-> "ready", client |-> n, want |-> {}]
  <2>4. r \in MongoCalls /\ r.at = "ready" /\ r.client = n /\ r.want = {}
    BY CallMade DEF MongoStates
  <2>5. mongoCall' = [mongoCall EXCEPT ![c] = r] BY <2>1, <2>3 DEF CallIs
  <2> HIDE DEF r
  <2>6. ~Holds(r) /\ ~Waits(r) /\ ~Seeks(r) /\ r.want = mongoCall[c].want
    BY <1>2, <2>4 DEF Holds, Waits, Seeks
  <2> QED BY <1>1, <1>2, <2>1, <2>2, <2>4, <2>5, <2>6, MongoGoesOn
<1> QED BY <1>3, <1>4

LEMMA OneIsFirst ==
  ASSUME MongoTyped, QueueFits, NEW c \in MongoCallers, mongoLock[1] = c
  PROVE  \A d \in MongoCallers : d # c => mongoCall[d].at \notin {"pinging", "initialising"}
  BY DEF QueueFits

(* What the first of the line wants, the others want as well. *)
LEMMA FirstWantsLeast ==
  ASSUME MongoTyped, QueueFits, NEW c \in MongoCallers, mongoLock # <<>>, mongoLock[1] = c,
         NEW d \in MongoCallers, d # c, Seeks(mongoCall[d])
  PROVE  mongoCall[c].want \subseteq mongoCall[d].want
<1>1. Waits(mongoCall[d]) /\ mongoLock \in Seq(MongoCallers) /\ Len(mongoLock) \in Nat
  BY DEF Waits, Seeks, MongoTyped
<1>2. PICK i \in DOMAIN mongoLock : mongoLock[i] = d BY <1>1 DEF QueueFits
<1>3. DOMAIN mongoLock = 1..Len(mongoLock) /\ i # 1 BY <1>1, <1>2
<1>4. 1 \in DOMAIN mongoLock /\ 1 < i BY <1>1, <1>2, <1>3
<1> QED BY <1>2, <1>4 DEF QueueFits

LEMMA InitialisesKeeps == ASSUME MongoIInv, NEW c \in MongoCallers, Initialises(c) PROVE MongoIInv'
<1>1. PICK old \in MongoCalls : old = mongoCall[c] BY DEF MongoIInv, MongoTyped
<1>2. /\ old.at = "initialising" /\ mongoLock[1] = c /\ mongoLock # <<>> /\ Head(mongoLock) = c
      /\ old.want \in SUBSET DocModels /\ old.client \in Nat
  BY <1>1, HeadFirst DEF Initialises, MongoCalls
<1>3. MongoTyped /\ QueueFits /\ MongoClientsFit /\ ModelsFit BY DEF MongoIInv
<1>4. /\ bound' = [m \in DocModels |-> IF m \in old.want THEN old.client ELSE bound[m]]
      /\ mongo' = old.client /\ mongoLock' = Tail(mongoLock) /\ initialised' = docs
      /\ UNCHANGED <<mongoMade, mongoShut, lost, docs, failed>>
  BY <1>1 DEF Initialises
<1>5. mongo \in {0, old.client} BY <1>1, <1>2, <1>3 DEF MongoClientsFit
<1> DEFINE r == [at |-> "ready", client |-> old.client, want |-> {}]
<1>6. r \in MongoCalls /\ r.at = "ready" /\ r.client = old.client /\ r.want = {}
  BY <1>2, CallMade DEF MongoStates
<1>7. mongoCall' = [mongoCall EXCEPT ![c] = r] BY <1>1 DEF Initialises, CallIs
<1> HIDE DEF r
<1>8. ~Waits(r) /\ ~Seeks(r) /\ ~Holds(r) BY <1>6 DEF Waits, Seeks, Holds
<1>9. QueueFits' /\ mongoLock' \in Seq(MongoCallers)
  BY <1>2, <1>3, <1>4, <1>6, <1>7, <1>8, QueueShrinks
<1>10. \A d \in MongoCallers : d # c => mongoCall[d].at \notin {"pinging", "initialising"}
  BY <1>2, <1>3, OneIsFirst
<1>11. MongoClientsFit' BY <1>1, <1>3, <1>4, <1>5, <1>6, <1>7, <1>10, MongoClientsGo
<1>12. /\ mongoCall' \in [MongoCallers -> MongoCalls] /\ mongoCall'[c] = r
       /\ \A d \in MongoCallers : d # c => mongoCall'[d] = mongoCall[d]
  BY <1>3, <1>6, <1>7 DEF MongoTyped
<1>13. ASSUME NEW m, Wanted(m), m \notin old.want PROVE Wanted(m)'
  <2>1. CASE m \in failed BY <1>4, <2>1 DEF Wanted
  <2>2. CASE \E d \in MongoCallers : m \in mongoCall[d].want
    <3>1. PICK d \in MongoCallers : m \in mongoCall[d].want BY <2>2
    <3>2. d # c BY <1>1, <1>13, <3>1
    <3> QED BY <1>12, <3>1, <3>2 DEF Wanted
  <2> QED BY <1>13, <2>1, <2>2 DEF Wanted
<1>14. ASSUME NEW d \in MongoCallers
       PROVE  /\ mongoCall'[d].want \subseteq docs
              /\ ~Seeks(mongoCall'[d]) => mongoCall'[d].want = {}
              /\ Seeks(mongoCall'[d]) => \A m \in docs \ mongoCall'[d].want : Wanted(m)'
  <2>1. CASE d = c BY <1>6, <1>8, <1>12, <2>1
  <2>2. CASE d # c
    <3>1. mongoCall'[d] = mongoCall[d] BY <1>12, <2>2
    <3>2. Seeks(mongoCall[d]) => old.want \subseteq mongoCall[d].want
      BY <1>1, <1>2, <1>3, <2>2, FirstWantsLeast
    <3>3. Seeks(mongoCall[d]) => \A m \in docs \ mongoCall[d].want : Wanted(m) /\ m \notin old.want
      BY <1>3, <3>2 DEF ModelsFit
    <3> QED BY <1>3, <1>13, <3>1, <3>3 DEF ModelsFit
  <2> QED BY <2>1, <2>2
<1>15. ASSUME NEW m \in docs PROVE bound'[m] = mongo' \/ Wanted(m)'
  <2>1. m \in DocModels BY <1>3 DEF MongoTyped
  <2>2. CASE m \in old.want BY <1>4, <2>1, <2>2
  <2>3. CASE m \notin old.want
    <3>1. Seeks(mongoCall[c]) BY <1>1, <1>2 DEF Seeks
    <3>2. Wanted(m) BY <1>1, <1>3, <2>3, <3>1 DEF ModelsFit
    <3> QED BY <1>13, <2>3, <3>2
  <2> QED BY <2>2, <2>3
<1>16. initialised' = docs /\ docs' = docs BY <1>4
<1>17. ModelsFit'
  <2>1. /\ initialised' \subseteq docs'
        /\ \A d \in MongoCallers :
             /\ mongoCall'[d].want \subseteq docs' /\ (~Seeks(mongoCall'[d]) => mongoCall'[d].want = {})
             /\ Seeks(mongoCall'[d]) => \A m \in docs' \ mongoCall'[d].want : Wanted(m)'
        /\ mongo' # 0 => \A m \in initialised' : bound'[m] = mongo' \/ Wanted(m)'
    BY <1>14, <1>15, <1>16
  <2> QED BY <2>1, Zenon DEF ModelsFit, Seeks, Wanted
<1>18. MongoTyped'
  <2>1. bound' \in [DocModels -> Nat] BY <1>2, <1>3, <1>4 DEF MongoTyped
  <2> QED BY <1>2, <1>3, <1>4, <1>9, <1>12, <2>1 DEF MongoTyped
<1> QED BY <1>9, <1>11, <1>17, <1>18 DEF MongoIInv

(* The first of the line leaves it without a client for its models. *)
LEMMA MongoFailsKeeps ==
  ASSUME MongoIInv, NEW c \in MongoCallers, NEW network \in BOOLEAN, MongoFails(c, network)
  PROVE  MongoIInv'
<1>1. PICK old \in MongoCalls : old = mongoCall[c] BY DEF MongoIInv, MongoTyped
<1>2. /\ old.at \in {"pinging", "initialising"} /\ mongoLock[1] = c /\ mongoLock # <<>>
      /\ Head(mongoLock) = c
  BY <1>1, HeadFirst DEF MongoFails
<1>3. MongoTyped /\ QueueFits /\ MongoClientsFit /\ ModelsFit BY DEF MongoIInv
<1>4. /\ mongoLock' = Tail(mongoLock) /\ failed' = failed \cup old.want
      /\ UNCHANGED <<mongo, mongoMade, docs, initialised, bound>>
      /\ mongoShut \subseteq mongoShut' /\ lost \subseteq lost'
      /\ old.client \in mongoShut' \cup lost' \cup {mongo}
  BY <1>1 DEF MongoFails
<1> DEFINE r == [at |-> "idle", client |-> 0, want |-> {}]
<1>5. r \in MongoCalls /\ r.at = "idle" /\ r.client = 0 /\ r.want = {} BY CallMade DEF MongoStates
<1>6. mongoCall' = [mongoCall EXCEPT ![c] = r] BY DEF MongoFails, CallIs
<1> HIDE DEF r
<1>7. ~Waits(r) /\ ~Seeks(r) /\ ~Holds(r) BY <1>5 DEF Waits, Seeks, Holds
<1>8. QueueFits' /\ mongoLock' \in Seq(MongoCallers)
  BY <1>2, <1>3, <1>4, <1>5, <1>6, <1>7, QueueShrinks
<1>9. MongoClientsFit' BY <1>1, <1>3, <1>4, <1>5, <1>6, MongoClientsGo
<1>10. /\ mongoCall' \in [MongoCallers -> MongoCalls] /\ mongoCall'[c] = r
       /\ \A d \in MongoCallers : d # c => mongoCall'[d] = mongoCall[d]
  BY <1>3, <1>5, <1>6 DEF MongoTyped
<1>11. \A m : Wanted(m) => Wanted(m)'
  <2> SUFFICES ASSUME NEW m, Wanted(m) PROVE Wanted(m)' OBVIOUS
  <2>1. CASE m \in failed \cup old.want BY <1>4, <2>1 DEF Wanted
  <2>2. CASE m \notin failed \cup old.want
    <3>1. PICK d \in MongoCallers : m \in mongoCall[d].want BY <2>2 DEF Wanted
    <3>2. d # c BY <1>1, <2>2, <3>1
    <3> QED BY <1>10, <3>1, <3>2 DEF Wanted
  <2> QED BY <2>1, <2>2
<1>12. \A d \in MongoCallers :
         /\ mongoCall'[d].want \subseteq docs /\ (~Seeks(mongoCall'[d]) => mongoCall'[d].want = {})
         /\ Seeks(mongoCall'[d]) => \A m \in docs \ mongoCall'[d].want : Wanted(m)'
  <2> SUFFICES ASSUME NEW d \in MongoCallers
               PROVE  /\ mongoCall'[d].want \subseteq docs
                      /\ ~Seeks(mongoCall'[d]) => mongoCall'[d].want = {}
                      /\ Seeks(mongoCall'[d]) => \A m \in docs \ mongoCall'[d].want : Wanted(m)'
    BY Zenon
  <2>1. CASE d = c BY <1>5, <1>7, <1>10, <2>1
  <2>2. CASE d # c
    <3>1. mongoCall'[d] = mongoCall[d] BY <1>10, <2>2
    <3> QED BY <1>3, <1>11, <3>1 DEF ModelsFit
  <2> QED BY <2>1, <2>2
<1>13. ModelsFit' BY <1>3, <1>4, <1>11, <1>12, Zenon DEF ModelsFit, Seeks, Wanted
<1>14. MongoTyped' BY <1>3, <1>4, <1>8, <1>10 DEF MongoTyped
<1> QED BY <1>8, <1>9, <1>13, <1>14 DEF MongoIInv

LEMMA CloseTakesKeeps == ASSUME MongoIInv, NEW c \in MongoCallers, CloseTakes(c) PROVE MongoIInv'
<1>1. /\ mongoCall[c].at = "toClose" /\ mongoLock[1] = c /\ mongoLock # <<>> /\ Head(mongoLock) = c
  BY HeadFirst DEF CloseTakes
<1>2. MongoTyped /\ QueueFits /\ MongoClientsFit /\ ModelsFit /\ mongo \in Nat
  BY DEF MongoIInv, MongoTyped
<1>3. /\ mongo' = 0 /\ mongoLock' = Tail(mongoLock)
      /\ UNCHANGED <<mongoMade, mongoShut, lost, docs, initialised, bound, failed>>
  BY DEF CloseTakes
<1>4. PICK n \in Nat : n = mongo BY <1>2
<1> DEFINE r == [at |-> "closing", client |-> n, want |-> {}]
<1>5. r \in MongoCalls /\ r.at = "closing" /\ r.client = n /\ r.want = {}
  BY CallMade DEF MongoStates
<1>6. mongoCall' = [mongoCall EXCEPT ![c] = r] BY <1>4 DEF CloseTakes, CallIs
<1> HIDE DEF r
<1>7. /\ ~Waits(r) /\ ~Seeks(r) /\ Holds(r) /\ ~Holds(mongoCall[c]) /\ ~Seeks(mongoCall[c])
      /\ mongoCall[c].want = {}
  BY <1>1, <1>2, <1>5 DEF Waits, Seeks, Holds, ModelsFit
<1>8. QueueFits' /\ mongoLock' \in Seq(MongoCallers)
  BY <1>1, <1>2, <1>3, <1>5, <1>6, <1>7, QueueShrinks
<1>9. \A d \in MongoCallers : d # c => mongoCall[d].at \notin {"pinging", "initialising"}
  BY <1>1, <1>2, OneIsFirst
<1>10. MongoClientsFit' BY <1>2, <1>3, <1>4, <1>5, <1>6, <1>7, <1>9, MongoClientsGo
<1>11. /\ mongoCall' \in [MongoCallers -> MongoCalls]
       /\ \A d \in MongoCallers :
          /\ mongoCall'[d].want = mongoCall[d].want
          /\ Seeks(mongoCall'[d]) <=> Seeks(mongoCall[d])
  BY <1>2, <1>5, <1>6, <1>7, MongoCallSteps
<1>12. \A m : Wanted(m) => Wanted(m)' BY <1>3, <1>11 DEF Wanted
<1>13. ModelsFit' BY <1>2, <1>3, <1>11, <1>12, Zenon DEF ModelsFit, Seeks, Wanted
<1>14. MongoTyped' BY <1>2, <1>3, <1>8, <1>11 DEF MongoTyped
<1> QED BY <1>8, <1>10, <1>13, <1>14 DEF MongoIInv

LEMMA MongoNextKeeps == ASSUME MongoIInv, MongoNext PROVE MongoIInv'
<1>1. \A more \in {{}} \cup {{m} : m \in DocModels} : more \in SUBSET DocModels OBVIOUS
<1> QED BY <1>1, EnsureMongoKeeps, MongoFailsKeeps, ConnectMongoKeeps, PongedKeeps, InitialisesKeeps,
           MongoEndsKeeps, CloseMongoKeeps, CloseTakesKeeps, CloseMongoEndsKeeps DEF MongoNext

----------------------------------------
(* Connections, URLs.  What is found of a name is the last of its values,
   whether the parameters are read as a list, or as a dictionary if all
   that have the name have one form. *)
UrlIInv == params \in Seq(UrlParams)

LEMMA InitUrl == ASSUME UrlInit PROVE UrlIInv
  BY EmptySeq DEF UrlInit, UrlIInv

LEMMA UrlNextKeeps == ASSUME UrlIInv, UrlNext PROVE UrlIInv'
<1>1. PICK p \in UrlParams : params' = Append(params, p) BY DEF UrlNext, AddParam
<1> QED BY <1>1, AppendProperties DEF UrlIInv

LEMMA LastNamedIs ==
  ASSUME NEW d, NEW names, NEW default,
         NEW ns \in SUBSET Nat, \A n : n \in ns <=> (n \in DOMAIN d /\ d[n].key.name \in names),
         NEW g \in ns, \A m \in ns : m <= g
  PROVE  LastNamed(d, names, default) = d[g].value
<1>1. \A n \in ns : (\A m \in ns : m <= n) => n = g
  <2> SUFFICES ASSUME NEW n \in ns, \A m \in ns : m <= n PROVE n = g OBVIOUS
  <2>1. g <= n /\ n <= g /\ n \in Nat /\ g \in Nat OBVIOUS
  <2> QED BY <2>1
<1>2. (CHOOSE n \in ns : \A m \in ns : m <= n) = g BY <1>1
<1>3. ns = {n \in DOMAIN d : d[n].key.name \in names} OBVIOUS
<1> QED BY <1>2, <1>3 DEF LastNamed

LEMMA AsDictIs ==
  ASSUME NEW list \in Seq(UrlParams), NEW k, NEW S, S # {},
         \A n : n \in S <=> (n \in DOMAIN list /\ list[n].key = k)
  PROVE  \E l, g \in S :
           /\ S \in SUBSET Nat /\ \A m \in S : m <= g
           /\ l \in DOMAIN AsDict(list) /\ AsDict(list)[l].key = k
           /\ AsDict(list)[l].value = list[g].value
           /\ \A n \in DOMAIN AsDict(list) : list[n].key = k => n = l
<1>1. DOMAIN list = 1..Len(list) /\ Len(list) \in Nat BY LenProperties
<1>2. S \in SUBSET (0..Len(list)) /\ S \in SUBSET Nat /\ DOMAIN list \in SUBSET Nat BY <1>1
<1>3. PICK g \in S : \A m \in S : m <= g BY <1>1, <1>2, GreatestIs
<1>4. PICK l \in S : \A m \in S : l <= m BY <1>1, <1>2, LeastIs
<1>5. \A n \in S : n \in DOMAIN list /\ list[n].key = k /\ n \in Nat BY <1>2
<1> DEFINE firsts == {q \in DOMAIN list : \A m \in DOMAIN list : m < q => list[m].key # list[q].key}
<1>6. l \in firsts
  <2>1. \A m \in DOMAIN list : m < l => m \notin S BY <1>2, <1>4
  <2> QED BY <1>5, <2>1
<1>7. \A n \in firsts : list[n].key = k => n = l
  <2> SUFFICES ASSUME NEW n \in firsts, list[n].key = k PROVE n = l OBVIOUS
  <2>1. n \in S /\ l <= n /\ ~(l < n) BY <1>4, <1>5
  <2> QED BY <1>5, <2>1
<1> DEFINE last(q) == CHOOSE n \in DOMAIN list :
                        list[n].key = q /\ \A m \in DOMAIN list : m > n => list[m].key # q
<1>8. last(k) = g
  <2>1. g \in DOMAIN list /\ list[g].key = k /\ \A m \in DOMAIN list : m > g => list[m].key # k
    BY <1>2, <1>3, <1>5
  <2>2. ASSUME NEW n \in DOMAIN list, list[n].key = k, \A m \in DOMAIN list : m > n => list[m].key # k
        PROVE  n = g
    <3>1. n \in S /\ n <= g /\ ~(g > n) BY <1>3, <1>5, <2>2
    <3> QED BY <1>5, <3>1
  <2> QED BY <2>1, <2>2
<1>9. AsDict(list) = [n \in firsts |-> [key |-> list[n].key, value |-> list[last(list[n].key)].value]]
  BY Zenon DEF AsDict
<1> HIDE DEF firsts, last
<1>10. /\ l \in DOMAIN AsDict(list) /\ AsDict(list)[l] = [key |-> k, value |-> list[g].value]
       /\ DOMAIN AsDict(list) = firsts
  BY <1>5, <1>6, <1>8, <1>9
<1> QED BY <1>2, <1>3, <1>7, <1>10

(* A key that is there is the key of its place. *)
LEMMA AsDictKeeps ==
  ASSUME NEW list, NEW n \in DOMAIN AsDict(list)
  PROVE  n \in DOMAIN list /\ AsDict(list)[n].key = list[n].key
  BY DEF AsDict

LEMMA AtMostOne ==
  ASSUME NEW F, IsFiniteSet(F), Cardinality(F) <= 1 PROVE \A a, b \in F : a = b
<1> SUFFICES ASSUME NEW a \in F, NEW b \in F, a # b PROVE FALSE OBVIOUS
<1>1. {a, b} \subseteq F /\ Cardinality({a, b}) = 2
  <2>1. Cardinality({a}) = 1 /\ IsFiniteSet({a}) /\ b \notin {a} BY FS_Singleton
  <2>2. Cardinality({a} \cup {b}) = 2
    <3>1. PICK T : T = {a} OBVIOUS
    <3>2. Cardinality(T \cup {b}) = Cardinality(T) + 1 /\ Cardinality(T) = 1
      BY <2>1, <3>1, FS_AddElement
    <3>3. Cardinality(T \cup {b}) = 2 BY <3>2
    <3> QED BY <3>1, <3>3
  <2>3. {a} \cup {b} = {a, b} OBVIOUS
  <2> QED BY <2>2, <2>3
<1>2. Cardinality({a, b}) <= Cardinality(F) BY <1>1, FS_Subset
<1> QED BY <1>1, <1>2, FS_CardinalityType

(* Where all places of a name have one key, the list and the dictionary
   find the same value of it. *)
OneKey(list, S, name, k) ==
  /\ list \in Seq(UrlParams) /\ S # {} /\ k.name = name
  /\ \A n : n \in S <=> (n \in DOMAIN list /\ list[n].key.name = name)
  /\ \A n \in S : list[n].key = k

Alike(list, S, name, k, l, g) ==
  /\ S \in SUBSET Nat /\ \A m \in S : m <= g
  /\ l \in DOMAIN AsDict(list) /\ AsDict(list)[l].value = list[g].value
  /\ \A n \in DOMAIN AsDict(list) : AsDict(list)[n].key.name = name <=> n = l
  /\ AsDict(list)[l].key = k

LEMMA FoundAlike ==
  ASSUME NEW list, NEW name, NEW k, NEW S, OneKey(list, S, name, k)
  PROVE  \E l \in S, g \in S : Alike(list, S, name, k, l, g)
<1>0. /\ list \in Seq(UrlParams) /\ S # {} /\ k.name = name
      /\ \A n : n \in S <=> (n \in DOMAIN list /\ list[n].key.name = name)
      /\ \A n \in S : list[n].key = k
  BY DEF OneKey
<1>1. \A n : n \in S <=> (n \in DOMAIN list /\ list[n].key = k) BY <1>0
<1>2. PICK l, g \in S :
           /\ S \in SUBSET Nat /\ \A m \in S : m <= g
           /\ l \in DOMAIN AsDict(list) /\ AsDict(list)[l].key = k
           /\ AsDict(list)[l].value = list[g].value
           /\ \A n \in DOMAIN AsDict(list) : list[n].key = k => n = l
  BY <1>0, <1>1, AsDictIs
<1>3. ASSUME NEW n \in DOMAIN AsDict(list) PROVE AsDict(list)[n].key.name = name <=> n = l
  <2>1. n \in DOMAIN list /\ AsDict(list)[n].key = list[n].key BY AsDictKeeps
  <2> QED BY <1>0, <1>2, <2>1
<1>4. Alike(list, S, name, k, l, g) BY <1>2, <1>3 DEF Alike
<1> QED BY <1>4

LEMMA SslAgrees ==
  ASSUME NEW list \in Seq(UrlParams), NEW S, \A n : n \in S <=> (n \in DOMAIN list /\ list[n].key.name = "useSSL"),
         Cardinality({list[n].key.form : n \in S}) <= 1
  PROVE  LastNamed(AsDict(list), {"useSSL"}, "true") = LastNamed(list, {"useSSL"}, "true")
<1>1. CASE S = {}
  <2>1. {n \in DOMAIN list : list[n].key.name \in {"useSSL"}} = {} BY <1>1
  <2>2. {n \in DOMAIN AsDict(list) : AsDict(list)[n].key.name \in {"useSSL"}} = {}
    BY <1>1, AsDictKeeps
  <2> QED BY <2>1, <2>2 DEF LastNamed
<1>2. CASE S # {}
  <2> DEFINE F == {list[n].key.form : n \in S}
  <2>1. IsFiniteSet(F)
    <3>1. PICK f : f \in F BY <1>2
    <3> DEFINE seq == [n \in 1..Len(list) |-> IF n \in S THEN list[n].key.form ELSE f]
    <3>2. Len(list) \in Nat /\ DOMAIN list = 1..Len(list) BY LenProperties
    <3>3. seq \in Seq(F) /\ Len(seq) = Len(list)
      <4>1. seq \in [1..Len(list) -> F] BY <3>1
      <4> HIDE DEF seq
      <4> QED BY <3>2, <4>1, SeqDef, LenProperties
    <3>4. \A a \in F : \E n \in 1..Len(seq) : seq[n] = a BY <3>2, <3>3
    <3> QED BY <3>3, <3>4 DEF IsFiniteSet
  <2>2. \A a, b \in F : a = b BY <2>1, AtMostOne
  <2>3. PICK s \in S : TRUE BY <1>2
  <2>4. \A n \in S : list[n] \in UrlParams /\ list[n].key.name = "useSSL"
    BY ElementOfSeq, LenProperties
  <2>5. \A n \in S : list[n].key.form = list[s].key.form BY <2>2, <2>3
  <2>6. \A n \in S : list[n].key = [name |-> "useSSL", form |-> list[s].key.form]
    BY <2>4, <2>5, ConnectionsAssumption
  <2>7. PICK k : OneKey(list, S, "useSSL", k) BY <1>2, <2>6 DEF OneKey
  <2>8. PICK l \in S, g \in S : Alike(list, S, "useSSL", k, l, g) BY <2>7, FoundAlike
  <2>89. /\ S \in SUBSET Nat /\ \A m \in S : m <= g
         /\ l \in DOMAIN AsDict(list) /\ AsDict(list)[l].value = list[g].value
         /\ \A n \in DOMAIN AsDict(list) : AsDict(list)[n].key.name = "useSSL" <=> n = l
    BY <2>8 DEF Alike
  <2>9. LastNamed(list, {"useSSL"}, "true") = list[g].value
    <3>1. \A n : n \in S <=> (n \in DOMAIN list /\ list[n].key.name \in {"useSSL"}) OBVIOUS
    <3> QED BY <2>89, <3>1, LastNamedIs
  <2>10. LastNamed(AsDict(list), {"useSSL"}, "true") = AsDict(list)[l].value
    <3>1. \A n : n \in {l} <=> (n \in DOMAIN AsDict(list) /\ AsDict(list)[n].key.name \in {"useSSL"})
      BY <2>89
    <3>2. {l} \in SUBSET Nat /\ l \in {l} /\ \A m \in {l} : m <= l BY <2>89
    <3>3. PICK one : one = {l} OBVIOUS
    <3>4. /\ \A n : n \in one <=> (n \in DOMAIN AsDict(list) /\ AsDict(list)[n].key.name \in {"useSSL"})
          /\ one \in SUBSET Nat /\ l \in one /\ \A m \in one : m <= l
      BY <3>1, <3>2, <3>3
    <3> QED BY <3>4, LastNamedIs
  <2> QED BY <2>89, <2>9, <2>10
<1> QED BY <1>1, <1>2

LEMMA CharsetAgrees ==
  ASSUME NEW list \in Seq(UrlParams), NEW S, \A n : n \in S <=> (n \in DOMAIN list /\ list[n].key.name = "charset"),
         ~\E n \in DOMAIN list : list[n].key.name = "characterEncoding",
         {list[n].key.form : n \in S} = {"lower"}
  PROVE  BuildUrl(list).charset = FromUrl(list).charset
<1>1. S # {} /\ \A n \in S : list[n] \in UrlParams /\ list[n].key.name = "charset" /\ list[n].key.form = "lower"
  <2>1. \A n \in S : list[n] \in UrlParams /\ list[n].key.name = "charset"
    BY ElementOfSeq, LenProperties
  <2>2. \A n \in S : list[n].key.form \in {list[m].key.form : m \in S} OBVIOUS
  <2>3. S # {} BY Zenon
  <2> QED BY <2>1, <2>2, <2>3
<1>2. \A n \in S : list[n].key = [name |-> "charset", form |-> "lower"]
  BY <1>1, ConnectionsAssumption
<1>3. PICK k : k = [name |-> "charset", form |-> "lower"] /\ OneKey(list, S, "charset", k)
  BY <1>1, <1>2 DEF OneKey
<1>34. PICK l \in S, g \in S : Alike(list, S, "charset", k, l, g) BY <1>3, FoundAlike
<1>4. /\ S \in SUBSET Nat /\ \A m \in S : m <= g
      /\ l \in DOMAIN AsDict(list) /\ AsDict(list)[l].value = list[g].value
      /\ \A n \in DOMAIN AsDict(list) : AsDict(list)[n].key.name = "charset" <=> n = l
      /\ AsDict(list)[l].key = k
  BY <1>34 DEF Alike
<1>5. LastNamed(list, {"charset"}, "utf8mb4") = list[g].value
  <2>1. \A n : n \in S <=> (n \in DOMAIN list /\ list[n].key.name \in {"charset"}) OBVIOUS
  <2> QED BY <1>4, <2>1, LastNamedIs
<1> DEFINE d == AsDict(list)
           plain == [n \in {m \in DOMAIN d :
             \/ d[m].key.name = "characterEncoding"
             \/ d[m].key = [name |-> "charset", form |-> "lower"]} |-> d[n]]
<1>6. {m \in DOMAIN d :
  \/ d[m].key.name = "characterEncoding"
  \/ d[m].key = [name |-> "charset", form |-> "lower"]} = {l}
  BY <1>3, <1>4, AsDictKeeps
<1>7. DOMAIN plain = {l} /\ plain[l] = d[l] BY <1>6
<1>8. LastNamed(plain, {"charset", "characterEncoding"}, "none") = plain[l].value
  <2> HIDE DEF plain
  <2>1. \A n : n \in {l} <=> (n \in DOMAIN plain /\ plain[n].key.name \in {"charset", "characterEncoding"})
    BY <1>3, <1>4, <1>7
  <2>2. {l} \in SUBSET Nat /\ l \in {l} /\ \A m \in {l} : m <= l BY <1>4
  <2>3. PICK one : one = {l} OBVIOUS
  <2>4. /\ \A n : n \in one <=> (n \in DOMAIN plain /\ plain[n].key.name \in {"charset", "characterEncoding"})
        /\ one \in SUBSET Nat /\ l \in one /\ \A m \in one : m <= l
    BY <2>1, <2>2, <2>3
  <2> QED BY <2>4, LastNamedIs
<1>9. BuildUrl(list).charset = Wide(LastNamed(plain, {"charset", "characterEncoding"}, "none"))
  BY Zenon DEF BuildUrl
<1>10. FromUrl(list).charset = Wide(LastNamed(list, {"charset"}, "utf8mb4")) BY DEF FromUrl
<1> QED BY <1>4, <1>5, <1>7, <1>8, <1>9, <1>10, Zenon

LEMMA UrlThen == ASSUME UrlIInv PROVE UrlsAgree
<1>1. params \in Seq(UrlParams) BY DEF UrlIInv
<1>2. Cardinality({params[n].key.form : n \in {m \in DOMAIN params : params[m].key.name = "useSSL"}}) <= 1
        => BuildUrl(params).ssl = FromUrl(params).ssl
  <2>1. BuildUrl(params).ssl = (LastNamed(AsDict(params), {"useSSL"}, "true") = "true")
    BY Zenon DEF BuildUrl
  <2>2. FromUrl(params).ssl = (LastNamed(params, {"useSSL"}, "true") = "true") BY Zenon DEF FromUrl
  <2> DEFINE S == {m \in DOMAIN params : params[m].key.name = "useSSL"}
  <2>4. \A n : n \in S <=> (n \in DOMAIN params /\ params[n].key.name = "useSSL") OBVIOUS
  <2> HIDE DEF S
  <2>5. Cardinality({params[n].key.form : n \in S}) <= 1
          => LastNamed(AsDict(params), {"useSSL"}, "true") = LastNamed(params, {"useSSL"}, "true")
    BY <1>1, <2>4, SslAgrees
  <2> QED BY <2>1, <2>2, <2>5, Zenon DEF S
<1>3. ((~\E n \in DOMAIN params : params[n].key.name = "characterEncoding")
         /\ {params[n].key.form : n \in {m \in DOMAIN params : params[m].key.name = "charset"}} = {"lower"})
        => BuildUrl(params).charset = FromUrl(params).charset
  <2> DEFINE S == {m \in DOMAIN params : params[m].key.name = "charset"}
  <2>2. \A n : n \in S <=> (n \in DOMAIN params /\ params[n].key.name = "charset") OBVIOUS
  <2> HIDE DEF S
  <2>3. ((~\E n \in DOMAIN params : params[n].key.name = "characterEncoding")
           /\ {params[n].key.form : n \in S} = {"lower"}) => BuildUrl(params).charset = FromUrl(params).charset
    BY <1>1, <2>2, CharsetAgrees
  <2> QED BY <2>3 DEF S
<1>4. \A v : Wide(v) # "utf8" BY DEF Wide
<1>5. BuildUrl(params).charset # "utf8" /\ FromUrl(params).charset # "utf8"
  BY <1>4 DEF BuildUrl, FromUrl
<1> QED BY <1>2, <1>3, <1>5, Zenon DEF UrlsAgree

----------------------------------------
(* Connections, units of work.  What an open unit that was always alone
   wrote is in its transaction, but for what it settled itself; what is
   left there was written by units that are open, or were cancelled on
   SQLite; and two open units of SQLite count as beside each other. *)
UnitStates == [kind : UnitKinds \cup {"none"}, at : {"new", "open", "committed", "failed", "cancelled"},
               bound : BOOLEAN, wrote : Nat]
Stores == WorkUnits \X Nat

WholeOf(u, upTo, settled) == {<<u, i>> : i \in 1..upTo} \ settled

UnitFits(sort, at, whole, there, stays) ==
  /\ at = "open" => whole \subseteq there /\ whole \cap stays = {}
  /\ at = "committed" => whole \subseteq stays
  /\ at = "failed" => whole \cap stays = {} /\ whole \cap there = {}
  /\ at = "cancelled" =>
       \/ whole \cap stays = {} /\ whole \cap there = {}
       \/ sort = "sqlite" /\ whole \cap stays = {} /\ whole \subseteq there
       \/ sort = "sqlite" /\ whole \subseteq stays /\ whole \cap there = {}

UnitsTyped ==
  /\ unit \in [WorkUnits -> UnitStates]
  /\ pending \subseteq Stores /\ kept \subseteq Stores
  /\ \A w \in pending \cup kept : w[2] <= unit[w[1]].wrote
  /\ \A u \in WorkUnits : unit[u].at = "new" => unit[u].wrote = 0

OpenSqlite(u) == unit[u].at = "open" /\ unit[u].kind = "sqlite"
SqliteAlone ==
  \A u, v \in WorkUnits : (u # v /\ OpenSqlite(u) /\ OpenSqlite(v)) => u \in beside

LeftOf(w) == unit[w[1]].at = "open" \/ (unit[w[1]].at = "cancelled" /\ unit[w[1]].kind = "sqlite")
LeftFits == \A w \in pending : LeftOf(w)

FitsHere(u) == UnitFits(unit[u].kind, unit[u].at, WholeOf(u, unit[u].wrote, apart), pending, kept)
WholesFit == \A u \in WorkUnits : u \notin beside => FitsHere(u)

UnitsIInv == UnitsTyped /\ SqliteAlone /\ LeftFits /\ WholesFit

LEMMA UnitsThen == ASSUME UnitsIInv PROVE UnitsKept
<1>1. ASSUME NEW u \in WorkUnits \ beside
      PROVE  LET whole == {<<u, i>> : i \in 1..unit[u].wrote} \ apart
             IN  /\ unit[u].at = "committed" => whole \subseteq kept
                 /\ unit[u].at = "failed" => whole \cap kept = {}
                 /\ unit[u].at = "cancelled" =>
                      \/ whole \cap kept = {}
                      \/ unit[u].kind = "sqlite" /\ whole \subseteq kept
  <2> DEFINE whole == {<<u, i>> : i \in 1..unit[u].wrote} \ apart
  <2>1. UnitFits(unit[u].kind, unit[u].at, whole, pending, kept)
    BY DEF UnitsIInv, WholesFit, FitsHere, WholeOf
  <2> HIDE DEF whole
  <2>2. /\ unit[u].at = "committed" => whole \subseteq kept
        /\ unit[u].at = "failed" => whole \cap kept = {}
        /\ unit[u].at = "cancelled" =>
             \/ whole \cap kept = {}
             \/ unit[u].kind = "sqlite" /\ whole \subseteq kept
    BY <2>1 DEF UnitFits
  <2> QED BY <2>2 DEF whole
<1>2. \A w \in pending :
  \/ unit[w[1]].at = "open"
  \/ unit[w[1]].at = "cancelled" /\ unit[w[1]].kind = "sqlite"
  BY DEF UnitsIInv, LeftFits, LeftOf
<1> QED BY <1>1, <1>2, Zenon DEF UnitsKept

LEMMA InitUnits == ASSUME UnitsInit PROVE UnitsIInv
<1>1. NewUnit \in UnitStates /\ NewUnit.at = "new" /\ NewUnit.wrote = 0 BY DEF NewUnit, UnitStates
<1>2. unit = [u \in WorkUnits |-> NewUnit] /\ pending = {} /\ kept = {} BY DEF UnitsInit
<1>3. \A u \in WorkUnits : unit[u] = NewUnit BY <1>2
<1>4. UnitsTyped BY <1>1, <1>2, <1>3 DEF UnitsTyped
<1>5. SqliteAlone /\ LeftFits BY <1>1, <1>2, <1>3 DEF SqliteAlone, OpenSqlite, LeftFits
<1>6. WholesFit BY <1>1, <1>3 DEF WholesFit, FitsHere, UnitFits
<1> QED BY <1>4, <1>5, <1>6 DEF UnitsIInv

(* A unit that goes on. *)
LEMMA UnitSteps ==
  ASSUME UnitsTyped, NEW u \in WorkUnits, NEW r \in UnitStates, unit' = [unit EXCEPT ![u] = r]
  PROVE  /\ unit' \in [WorkUnits -> UnitStates] /\ unit'[u] = r
         /\ \A v \in WorkUnits : v # u => unit'[v] = unit[v]
  BY DEF UnitsTyped

(* What is taken out of a transaction as a whole, to stay or not. *)
LEMMA WholeSettles ==
  ASSUME NEW sort, NEW at, NEW whole, NEW there, NEW stays, NEW out, NEW stays2,
         UnitFits(sort, at, whole, there, stays), out \subseteq there,
         stays2 = stays \/ stays2 = stays \cup out,
         \/ whole \cap out = {}
         \/ at = "cancelled" /\ sort = "sqlite" /\ whole \cap there \subseteq out
  PROVE  UnitFits(sort, at, whole, there \ out, stays2)
<1>1. CASE whole \cap out = {} BY <1>1 DEF UnitFits
<1>2. CASE at = "cancelled" /\ sort = "sqlite" /\ whole \cap there \subseteq out BY <1>2 DEF UnitFits
<1> QED BY <1>1, <1>2

(* What the transaction of an open unit has of another that was alone. *)
LEMMA InTransactionIs ==
  ASSUME UnitsIInv, NEW u \in WorkUnits, unit[u].at = "open"
  PROVE  /\ Of(u) \subseteq InTransaction(u) /\ InTransaction(u) \subseteq pending
         /\ \A v \in WorkUnits \ {u} : v \notin beside =>
              LET whole == WholeOf(v, unit[v].wrote, apart)
              IN  \/ whole \cap InTransaction(u) = {}
                  \/ /\ unit[v].at = "cancelled" /\ unit[v].kind = "sqlite"
                     /\ whole \cap pending \subseteq InTransaction(u)
<1>1. UnitsTyped /\ SqliteAlone /\ LeftFits /\ WholesFit BY DEF UnitsIInv
<1>2. Of(u) \subseteq InTransaction(u) /\ InTransaction(u) \subseteq pending
  BY DEF InTransaction, Of, Shared
<1>3. ASSUME NEW v \in WorkUnits \ {u}, v \notin beside
      PROVE  LET whole == WholeOf(v, unit[v].wrote, apart)
             IN  \/ whole \cap InTransaction(u) = {}
                 \/ /\ unit[v].at = "cancelled" /\ unit[v].kind = "sqlite"
                    /\ whole \cap pending \subseteq InTransaction(u)
  <2> DEFINE whole == WholeOf(v, unit[v].wrote, apart)
  <2>1. \A w \in whole : w[1] = v BY DEF WholeOf
  <2> HIDE DEF whole
  <2>2. CASE unit[u].kind # "sqlite"
    <3>1. InTransaction(u) = Of(u) BY <2>2 DEF InTransaction
    <3>2. whole \cap InTransaction(u) = {} BY <2>1, <3>1 DEF Of
    <3> QED BY <3>2 DEF whole
  <2>3. CASE unit[u].kind = "sqlite"
    <3>1. InTransaction(u) = Shared BY <2>3 DEF InTransaction
    <3>2. CASE unit[v].kind # "sqlite"
      <4>1. whole \cap InTransaction(u) = {} BY <2>1, <3>1, <3>2 DEF Shared
      <4> QED BY <4>1 DEF whole
    <3>3. CASE unit[v].kind = "sqlite" /\ unit[v].at = "cancelled"
      <4>1. whole \cap pending \subseteq InTransaction(u) BY <2>1, <3>1, <3>3 DEF Shared
      <4> QED BY <3>3, <4>1 DEF whole
    <3>4. CASE unit[v].kind = "sqlite" /\ unit[v].at # "cancelled"
      <4>1. unit[v].at # "open" BY <1>1, <1>3, <2>3, <3>4 DEF SqliteAlone, OpenSqlite
      <4>2. \A w \in pending : w[1] # v BY <1>1, <3>4, <4>1 DEF LeftFits, LeftOf
      <4>3. whole \cap InTransaction(u) = {} BY <1>2, <2>1, <4>2
      <4> QED BY <4>3 DEF whole
    <3> QED BY <3>2, <3>3, <3>4
  <2> QED BY <2>2, <2>3
<1> QED BY <1>2, <1>3

(* What a unit that goes on changes for itself; for the others, who is
   open stays. *)
LEMMA AloneStays ==
  ASSUME UnitsIInv, NEW u \in WorkUnits, NEW r \in UnitStates, unit' = [unit EXCEPT ![u] = r],
         unit[u].at = "open", r.kind = unit[u].kind, beside \subseteq beside'
  PROVE  SqliteAlone'
<1>1. UnitsTyped /\ SqliteAlone BY DEF UnitsIInv
<1>2. \A v \in WorkUnits : OpenSqlite(v)' => OpenSqlite(v) BY <1>1, UnitSteps DEF OpenSqlite
<1> QED BY <1>1, <1>2 DEF SqliteAlone

(* commit, rollback, the end of the context: a unit settles the
   transaction it works in. *)
LEMMA SettleKeeps ==
  ASSUME UnitsIInv, NEW u \in WorkUnits, NEW r \in UnitStates, unit' = [unit EXCEPT ![u] = r],
         unit[u].at = "open", r.kind = unit[u].kind, r.wrote = unit[u].wrote, r.at # "new",
         pending' = pending \ InTransaction(u), UNCHANGED beside,
         kept' = kept \/ kept' = kept \cup InTransaction(u),
         apart' = apart \/ apart' = apart \cup Of(u),
         u \notin beside => FitsHere(u)'
  PROVE  UnitsIInv'
<1>1. UnitsTyped /\ SqliteAlone /\ LeftFits /\ WholesFit BY DEF UnitsIInv
<1>2. /\ unit' \in [WorkUnits -> UnitStates] /\ unit'[u] = r
      /\ \A v \in WorkUnits : v # u => unit'[v] = unit[v]
  BY <1>1, UnitSteps
<1>3. Of(u) \subseteq InTransaction(u) /\ InTransaction(u) \subseteq pending BY InTransactionIs
<1>4. \A v \in WorkUnits : unit'[v].wrote = unit[v].wrote BY <1>2
<1>5. UnitsTyped'
  <2>1. pending' \subseteq Stores /\ kept' \subseteq Stores /\ pending' \cup kept' \subseteq pending \cup kept
    BY <1>1, <1>3 DEF UnitsTyped
  <2>2. \A w \in pending \cup kept : w[1] \in WorkUnits BY <1>1 DEF UnitsTyped, Stores
  <2>3. \A w \in pending' \cup kept' : w[2] <= unit'[w[1]].wrote
    BY <1>1, <1>4, <2>1, <2>2 DEF UnitsTyped
  <2>4. \A v \in WorkUnits : unit'[v].at = "new" => unit'[v].wrote = 0 BY <1>1, <1>2 DEF UnitsTyped
  <2> QED BY <1>2, <2>1, <2>3, <2>4 DEF UnitsTyped
<1>6. SqliteAlone' BY <1>2, AloneStays
<1>7. LeftFits'
  <2> SUFFICES ASSUME NEW w \in pending' PROVE LeftOf(w)' BY DEF LeftFits
  <2>1. w \in pending /\ w \notin Of(u) /\ w[1] # u /\ w[1] \in WorkUnits
    BY <1>1, <1>3 DEF Of, UnitsTyped, Stores
  <2> QED BY <1>1, <1>2, <2>1 DEF LeftFits, LeftOf
<1>8. ASSUME NEW v \in WorkUnits, v \notin beside' PROVE FitsHere(v)'
  <2>1. CASE v = u BY <1>8, <2>1
  <2>2. CASE v # u
    <3>1. unit'[v] = unit[v] /\ v \notin beside BY <1>2, <1>8, <2>2
    <3> DEFINE whole == WholeOf(v, unit[v].wrote, apart)
    <3>2. WholeOf(v, unit[v].wrote, apart') = whole BY <2>2 DEF WholeOf, Of
    <3>3. UnitFits(unit[v].kind, unit[v].at, whole, pending, kept)
      BY <1>1, <3>1 DEF WholesFit, FitsHere
    <3>4. \/ whole \cap InTransaction(u) = {}
          \/ /\ unit[v].at = "cancelled" /\ unit[v].kind = "sqlite"
             /\ whole \cap pending \subseteq InTransaction(u)
      BY <2>2, <3>1, InTransactionIs
    <3> HIDE DEF whole
    <3>5. UnitFits(unit[v].kind, unit[v].at, whole, pending \ InTransaction(u), kept')
      BY <1>3, <3>3, <3>4, WholeSettles
    <3> QED BY <3>1, <3>2, <3>5 DEF FitsHere
  <2> QED BY <2>1, <2>2
<1> QED BY <1>5, <1>6, <1>7, <1>8, Zenon DEF UnitsIInv, WholesFit

(* The whole of a unit that settles: it was all in the transaction. *)
LEMMA OwnWhole ==
  ASSUME UnitsIInv, NEW u \in WorkUnits, unit[u].at = "open", u \notin beside
  PROVE  LET whole == WholeOf(u, unit[u].wrote, apart)
         IN  whole \subseteq pending /\ whole \subseteq Of(u) /\ whole \cap kept = {}
<1> DEFINE whole == WholeOf(u, unit[u].wrote, apart)
<1>1. UnitFits(unit[u].kind, unit[u].at, whole, pending, kept) BY DEF UnitsIInv, WholesFit, FitsHere
<1>2. \A w \in whole : w[1] = u BY DEF WholeOf
<1> HIDE DEF whole
<1>3. whole \subseteq pending /\ whole \subseteq Of(u) /\ whole \cap kept = {}
  BY <1>1, <1>2 DEF UnitFits, Of
<1> QED BY <1>3 DEF whole

LEMMA EndsKeeps ==
  ASSUME UnitsIInv, NEW u \in WorkUnits,
         EndsUnit(u) \/ FailsUnit(u) \/ CommitsHere(u) \/ RollsBackHere(u)
  PROVE  UnitsIInv'
<1>1. PICK a \in UnitStates : a = unit[u] BY DEF UnitsIInv, UnitsTyped
<1>2. unit[u].at = "open" /\ pending' = pending \ InTransaction(u) /\ UNCHANGED beside
  BY DEF EndsUnit, FailsUnit, CommitsHere, RollsBackHere
<1>3. Of(u) \subseteq InTransaction(u) /\ InTransaction(u) \subseteq pending
  BY <1>2, InTransactionIs
<1>4. CASE EndsUnit(u)
  <2> DEFINE r == [a EXCEPT !.at = "committed"]
  <2>1. r \in UnitStates /\ r.kind = a.kind /\ r.wrote = a.wrote /\ r.at = "committed"
    BY DEF UnitStates
  <2>2. unit' = [unit EXCEPT ![u] = r] /\ kept' = kept \cup InTransaction(u) /\ apart' = apart
    BY <1>1, <1>4 DEF EndsUnit, UnitIs
  <2> HIDE DEF r
  <2>3. ASSUME u \notin beside PROVE FitsHere(u)'
    <3> DEFINE whole == WholeOf(u, unit[u].wrote, apart)
    <3>1. whole \subseteq kept' BY <1>2, <1>3, <2>2, <2>3, OwnWhole
    <3>2. WholeOf(u, unit[u].wrote, apart)' = whole /\ unit'[u] = r
      BY <1>1, <2>1, <2>2, UnitSteps DEF UnitsIInv, WholeOf
    <3> HIDE DEF whole
    <3> QED BY <2>1, <3>1, <3>2 DEF FitsHere, UnitFits
  <2> QED BY <1>1, <1>2, <2>1, <2>2, <2>3, SettleKeeps
<1>5. CASE FailsUnit(u)
  <2> DEFINE r == [a EXCEPT !.at = "failed"]
  <2>1. r \in UnitStates /\ r.kind = a.kind /\ r.wrote = a.wrote /\ r.at = "failed"
    BY DEF UnitStates
  <2>2. unit' = [unit EXCEPT ![u] = r] /\ kept' = kept /\ apart' = apart
    BY <1>1, <1>5 DEF FailsUnit, UnitIs
  <2> HIDE DEF r
  <2>3. ASSUME u \notin beside PROVE FitsHere(u)'
    <3> DEFINE whole == WholeOf(u, unit[u].wrote, apart)
    <3>1. whole \cap kept' = {} /\ whole \cap pending' = {} BY <1>2, <1>3, <2>2, <2>3, OwnWhole
    <3>2. WholeOf(u, unit[u].wrote, apart)' = whole /\ unit'[u] = r
      BY <1>1, <2>1, <2>2, UnitSteps DEF UnitsIInv, WholeOf
    <3> HIDE DEF whole
    <3> QED BY <2>1, <3>1, <3>2 DEF FitsHere, UnitFits
  <2> QED BY <1>1, <1>2, <2>1, <2>2, <2>3, SettleKeeps
<1>6. CASE CommitsHere(u) \/ RollsBackHere(u)
  <2>0. PICK b \in BOOLEAN : b <=> a.kind # "transaction" OBVIOUS
  <2> DEFINE r == [a EXCEPT !.bound = b]
  <2>1. r \in UnitStates /\ r.kind = a.kind /\ r.wrote = a.wrote /\ r.at = a.at BY DEF UnitStates
  <2>2. unit' = [unit EXCEPT ![u] = r]
    <3>1. unit' = [unit EXCEPT ![u].bound = a.kind # "transaction"]
      BY <1>1, <1>6 DEF CommitsHere, RollsBackHere
    <3>2. CASE a.kind = "transaction" BY <1>1, <2>0, <3>1, <3>2
    <3>3. CASE a.kind # "transaction" BY <1>1, <2>0, <3>1, <3>3
    <3> QED BY <3>2, <3>3
  <2>3. apart' = apart \cup Of(u) /\ (kept' = kept \/ kept' = kept \cup InTransaction(u))
    BY <1>6 DEF CommitsHere, RollsBackHere
  <2> HIDE DEF r
  <2>4. ASSUME u \notin beside PROVE FitsHere(u)'
    <3>1. WholeOf(u, unit[u].wrote, apart) \subseteq Of(u) BY <1>2, <2>4, OwnWhole
    <3>2. WholeOf(u, unit[u].wrote, apart') = {} BY <2>3, <3>1 DEF WholeOf
    <3>3. WholeOf(u, unit[u].wrote, apart)' = {} /\ unit'[u] = r
      BY <1>1, <2>1, <2>2, <3>2, UnitSteps DEF UnitsIInv
    <3> QED BY <1>1, <1>2, <2>1, <3>3 DEF FitsHere, UnitFits
  <2> QED BY <1>1, <1>2, <2>1, <2>2, <2>3, <2>4, SettleKeeps
<1> QED BY <1>4, <1>5, <1>6

(* Where what other units wrote stays, they fit as before. *)
LEMMA OthersFit ==
  ASSUME UnitsIInv, NEW u \in WorkUnits, NEW r \in UnitStates, unit' = [unit EXCEPT ![u] = r],
         beside \subseteq beside', NEW v \in WorkUnits, v # u, v \notin beside',
         \A w \in Stores : w[1] = v =>
           /\ w \in pending' <=> w \in pending
           /\ w \in kept' <=> w \in kept
           /\ w \in apart' <=> w \in apart
  PROVE  FitsHere(v)'
<1>1. UnitsTyped /\ WholesFit /\ v \notin beside BY DEF UnitsIInv
<1>2. unit'[v] = unit[v] /\ unit[v].wrote \in Nat BY <1>1, UnitSteps DEF UnitsTyped, UnitStates
<1> DEFINE whole == WholeOf(v, unit[v].wrote, apart)
<1>3. \A i \in 1..unit[v].wrote : <<v, i>> \in Stores /\ <<v, i>>[1] = v BY <1>2 DEF Stores
<1>4. WholeOf(v, unit[v].wrote, apart') = whole BY <1>3 DEF WholeOf
<1>5. \A w \in whole : w \in Stores /\ w[1] = v BY <1>3 DEF WholeOf
<1>6. UnitFits(unit[v].kind, unit[v].at, whole, pending, kept) BY <1>1 DEF WholesFit, FitsHere
<1> HIDE DEF whole
<1>7. \A w \in whole : (w \in pending' <=> w \in pending) /\ (w \in kept' <=> w \in kept) BY <1>5
<1>8. UnitFits(unit[v].kind, unit[v].at, whole, pending', kept') BY <1>6, <1>7 DEF UnitFits
<1> QED BY <1>2, <1>4, <1>8 DEF FitsHere

LEMMA OpensKeeps ==
  ASSUME UnitsIInv, NEW u \in WorkUnits, NEW k \in UnitKinds, OpensUnit(u, k) PROVE UnitsIInv'
<1>1. UnitsTyped /\ SqliteAlone /\ LeftFits /\ WholesFit BY DEF UnitsIInv
<1>2. PICK b \in BOOLEAN : b <=> k # "document" OBVIOUS
<1> DEFINE r == [kind |-> k, at |-> "open", bound |-> b, wrote |-> 0]
<1>3. r \in UnitStates /\ r.kind = k /\ r.wrote = 0 /\ r.at = "open" BY DEF UnitStates
<1>4. /\ unit[u].at = "new" /\ UNCHANGED <<pending, kept, apart>>
      /\ beside' = IF k = "sqlite" /\ OpenUnits(k) # {} THEN beside \cup OpenUnits(k) \cup {u} ELSE beside
  BY DEF OpensUnit
<1>5. unit' = [unit EXCEPT ![u] = r]
  <2>1. unit' = [unit EXCEPT ![u] = [kind |-> k, at |-> "open", bound |-> k # "document", wrote |-> 0]]
    BY DEF OpensUnit
  <2>2. CASE k = "document" BY <1>2, <2>1, <2>2
  <2>3. CASE k # "document" BY <1>2, <2>1, <2>3
  <2> QED BY <2>2, <2>3
<1> HIDE DEF r
<1>6. /\ unit' \in [WorkUnits -> UnitStates] /\ unit'[u] = r
      /\ \A v \in WorkUnits : v # u => unit'[v] = unit[v]
  BY <1>1, <1>3, <1>5, UnitSteps
<1>7. UnitsTyped'
  <2>1. unit[u].wrote = 0 BY <1>1, <1>4 DEF UnitsTyped
  <2>2. \A v \in WorkUnits : unit'[v].wrote = unit[v].wrote BY <1>3, <1>6, <2>1
  <2>3. \A v \in WorkUnits : unit'[v].at = "new" => unit'[v].wrote = 0
    BY <1>1, <1>3, <1>6 DEF UnitsTyped
  <2>4. \A w \in pending \cup kept : w[1] \in WorkUnits BY <1>1 DEF UnitsTyped, Stores
  <2> QED BY <1>1, <1>4, <1>6, <2>2, <2>3, <2>4 DEF UnitsTyped
<1>8. SqliteAlone'
  <2> SUFFICES ASSUME NEW v \in WorkUnits, NEW w \in WorkUnits, v # w, OpenSqlite(v)', OpenSqlite(w)'
               PROVE  v \in beside'
    BY DEF SqliteAlone
  <2>1. CASE v # u /\ w # u BY <1>1, <1>4, <1>6, <2>1 DEF SqliteAlone, OpenSqlite
  <2>2. CASE v = u
    <3>1. w \in OpenUnits("sqlite") /\ k = "sqlite" BY <1>3, <1>6, <2>2 DEF OpenSqlite, OpenUnits
    <3> QED BY <1>4, <2>2, <3>1
  <2>3. CASE w = u
    <3>1. v \in OpenUnits("sqlite") /\ k = "sqlite" BY <1>3, <1>6, <2>3 DEF OpenSqlite, OpenUnits
    <3> QED BY <1>4, <3>1
  <2> QED BY <2>1, <2>2, <2>3
<1>9. LeftFits'
  <2>1. \A w \in pending : w[1] \in WorkUnits /\ w[1] # u
    BY <1>1, <1>4 DEF UnitsTyped, Stores, LeftFits, LeftOf
  <2> QED BY <1>1, <1>4, <1>6, <2>1 DEF LeftFits, LeftOf
<1>10. ASSUME NEW v \in WorkUnits, v \notin beside' PROVE FitsHere(v)'
  <2>1. CASE v = u
    <3>1. WholeOf(u, 0, apart') = {} BY DEF WholeOf
    <3>2. WholeOf(u, unit[u].wrote, apart)' = {} BY <1>3, <1>6, <3>1
    <3> QED BY <1>3, <1>6, <2>1, <3>2 DEF FitsHere, UnitFits
  <2>2. CASE v # u
    <3>1. beside \subseteq beside' BY <1>4
    <3> QED BY <1>3, <1>4, <1>5, <1>10, <2>2, <3>1, OthersFit
  <2> QED BY <2>1, <2>2
<1> QED BY <1>7, <1>8, <1>9, <1>10, Zenon DEF UnitsIInv, WholesFit

(* A write, in the transaction of its unit or at once for itself. *)
LEMMA WriteKeeps ==
  ASSUME UnitsIInv, NEW u \in WorkUnits, NEW w, w = <<u, unit[u].wrote + 1>>,
         unit[u].at = "open", unit' = [unit EXCEPT ![u].wrote = @ + 1], UNCHANGED beside,
         \/ pending' = pending \cup {w} /\ UNCHANGED <<kept, apart>>
         \/ kept' = kept \cup {w} /\ apart' = apart \cup {w} /\ UNCHANGED pending
  PROVE  UnitsIInv'
<1>1. UnitsTyped /\ SqliteAlone /\ LeftFits /\ WholesFit BY DEF UnitsIInv
<1>2. PICK a \in UnitStates : a = unit[u] BY <1>1 DEF UnitsTyped
<1> DEFINE r == [a EXCEPT !.wrote = a.wrote + 1]
<1>3. r \in UnitStates /\ r.kind = a.kind /\ r.wrote = a.wrote + 1 /\ r.at = a.at /\ a.wrote \in Nat
  BY DEF UnitStates
<1>4. unit' = [unit EXCEPT ![u] = r] BY <1>2
<1> HIDE DEF r
<1>5. /\ unit' \in [WorkUnits -> UnitStates] /\ unit'[u] = r
      /\ \A v \in WorkUnits : v # u => unit'[v] = unit[v]
  BY <1>1, <1>3, <1>4, UnitSteps
<1>6. w \in Stores /\ w[1] = u /\ w[2] = a.wrote + 1 BY <1>2, <1>3 DEF Stores
<1>7. \A v \in WorkUnits : unit[v].wrote \in Nat /\ unit'[v].wrote \in Nat /\ unit[v].wrote <= unit'[v].wrote
  <2>1. \A v \in WorkUnits : unit[v].wrote \in Nat BY <1>1 DEF UnitsTyped, UnitStates
  <2> QED BY <1>2, <1>3, <1>5, <2>1
<1>8. UnitsTyped'
  <2>1. pending' \subseteq Stores /\ kept' \subseteq Stores /\ pending' \cup kept' \subseteq pending \cup kept \cup {w}
    BY <1>1, <1>6 DEF UnitsTyped
  <2>2. \A x \in pending \cup kept : x[1] \in WorkUnits /\ x[2] \in Nat /\ x[2] <= unit[x[1]].wrote
    BY <1>1 DEF UnitsTyped, Stores
  <2>3. \A x \in pending' \cup kept' : x[2] <= unit'[x[1]].wrote
    <3> SUFFICES ASSUME NEW x \in pending' \cup kept' PROVE x[2] <= unit'[x[1]].wrote OBVIOUS
    <3>1. CASE x = w BY <1>3, <1>5, <1>6, <3>1
    <3>2. CASE x # w
      <4>1. x[1] \in WorkUnits /\ x[2] \in Nat /\ x[2] <= unit[x[1]].wrote BY <2>1, <2>2, <3>2
      <4> QED BY <1>7, <4>1
    <3> QED BY <3>1, <3>2
  <2>4. \A v \in WorkUnits : unit'[v].at = "new" => unit'[v].wrote = 0
    BY <1>1, <1>2, <1>3, <1>5 DEF UnitsTyped
  <2> QED BY <1>5, <2>1, <2>3, <2>4 DEF UnitsTyped
<1>9. SqliteAlone' BY <1>2, <1>3, <1>4, AloneStays
<1>10. LeftFits'
  <2> SUFFICES ASSUME NEW x \in pending' PROVE LeftOf(x)' BY DEF LeftFits
  <2>1. CASE x[1] = u BY <1>2, <1>3, <1>5, <2>1 DEF LeftOf
  <2>2. CASE x[1] # u
    <3>1. x \in pending /\ x[1] \in WorkUnits BY <1>1, <1>6, <2>2 DEF UnitsTyped, Stores
    <3> QED BY <1>1, <1>5, <2>2, <3>1 DEF LeftFits, LeftOf
  <2> QED BY <2>1, <2>2
<1>11. ASSUME NEW v \in WorkUnits, v \notin beside' PROVE FitsHere(v)'
  <2>1. CASE v = u
    <3> DEFINE whole == WholeOf(u, a.wrote, apart)
               more == WholeOf(u, a.wrote + 1, apart')
    <3>1. whole \subseteq pending /\ whole \cap kept = {} BY <1>2, <1>11, <2>1, OwnWhole
    <3>2. \A x \in whole : x # w BY <1>3, <1>6 DEF WholeOf
    <3>3. more \subseteq whole \cup ({w} \ apart')
      <4>1. \A i \in 1..a.wrote + 1 : i \in 1..a.wrote \/ i = a.wrote + 1 BY <1>3
      <4>2. w = <<u, a.wrote + 1>> BY <1>2
      <4>3. apart \subseteq apart' OBVIOUS
      <4> QED BY <4>1, <4>2, <4>3 DEF WholeOf
    <3> HIDE DEF whole, more
    <3>4. w \notin kept
      <4>1. \A x \in kept : x[2] <= unit[x[1]].wrote BY <1>1 DEF UnitsTyped
      <4> QED BY <1>2, <1>3, <1>6, <4>1
    <3>5. more \subseteq pending' /\ more \cap kept' = {} BY <3>1, <3>2, <3>3, <3>4
    <3>6. WholeOf(u, unit[u].wrote, apart)' = more /\ unit'[u] = r BY <1>3, <1>5 DEF more
    <3> QED BY <1>2, <1>3, <2>1, <3>5, <3>6 DEF FitsHere, UnitFits
  <2>2. CASE v # u
    <3>1. \A x \in Stores : x[1] = v =>
      /\ x \in pending' <=> x \in pending
      /\ x \in kept' <=> x \in kept
      /\ x \in apart' <=> x \in apart
      BY <1>6, <2>2
    <3> QED BY <1>3, <1>4, <1>11, <2>2, <3>1, OthersFit
  <2> QED BY <2>1, <2>2
<1> QED BY <1>8, <1>9, <1>10, <1>11, Zenon DEF UnitsIInv, WholesFit

LEMMA ExecutesKeeps ==
  ASSUME UnitsIInv, NEW u \in WorkUnits, Executes(u) \/ WritesDocument(u) PROVE UnitsIInv'
<1>1. PICK w : w = <<u, unit[u].wrote + 1>> OBVIOUS
<1>2. CASE Executes(u) BY <1>1, <1>2, WriteKeeps DEF Executes
<1>3. CASE WritesDocument(u)
  <2>1. /\ unit[u].at = "open" /\ unit' = [unit EXCEPT ![u].wrote = @ + 1] /\ UNCHANGED beside
        /\ \/ pending' = pending \cup {w} /\ UNCHANGED <<kept, apart>>
           \/ kept' = kept \cup {w} /\ apart' = apart \cup {w} /\ UNCHANGED pending
    BY <1>1, <1>3 DEF WritesDocument
  <2> QED BY <1>1, <2>1, WriteKeeps
<1> QED BY <1>2, <1>3

LEMMA LetsGoKeeps == ASSUME UnitsIInv, NEW u \in WorkUnits, LetsGo(u) PROVE UnitsIInv'
<1>1. UnitsTyped /\ SqliteAlone /\ LeftFits /\ WholesFit BY DEF UnitsIInv
<1>2. PICK a \in UnitStates : a = unit[u] BY <1>1 DEF UnitsTyped
<1> DEFINE r == [a EXCEPT !.bound = FALSE]
<1>3. r \in UnitStates /\ r.kind = a.kind /\ r.wrote = a.wrote /\ r.at = a.at BY DEF UnitStates
<1>4. unit' = [unit EXCEPT ![u] = r] /\ UNCHANGED <<pending, kept, apart, beside>> /\ unit[u].at = "open"
  BY <1>2 DEF LetsGo
<1> HIDE DEF r
<1>5. /\ unit' \in [WorkUnits -> UnitStates]
      /\ \A v \in WorkUnits : /\ unit'[v].kind = unit[v].kind /\ unit'[v].at = unit[v].at
                              /\ unit'[v].wrote = unit[v].wrote
  BY <1>1, <1>2, <1>3, <1>4, UnitSteps
<1>6. \A w \in pending \cup kept : w[1] \in WorkUnits BY <1>1 DEF UnitsTyped, Stores
<1>7. UnitsTyped' BY <1>1, <1>4, <1>5, <1>6 DEF UnitsTyped
<1>8. SqliteAlone' BY <1>2, <1>3, <1>4, AloneStays
<1>9. LeftFits' BY <1>1, <1>4, <1>5, <1>6 DEF LeftFits, LeftOf
<1>10. \A v \in WorkUnits : FitsHere(v) => FitsHere(v)' BY <1>4, <1>5, Zenon DEF FitsHere
<1>11. WholesFit' BY <1>1, <1>4, <1>10 DEF WholesFit
<1> QED BY <1>7, <1>8, <1>9, <1>11 DEF UnitsIInv

LEMMA CancelledKeeps == ASSUME UnitsIInv, NEW u \in WorkUnits, CancelledUnit(u) PROVE UnitsIInv'
<1>1. UnitsTyped /\ SqliteAlone /\ LeftFits /\ WholesFit BY DEF UnitsIInv
<1>2. PICK a \in UnitStates : a = unit[u] BY <1>1 DEF UnitsTyped
<1> DEFINE r == [a EXCEPT !.at = "cancelled"]
<1>3. r \in UnitStates /\ r.kind = a.kind /\ r.wrote = a.wrote /\ r.at = "cancelled"
  BY DEF UnitStates
<1>4. /\ unit' = [unit EXCEPT ![u] = r] /\ UNCHANGED <<kept, apart, beside>> /\ unit[u].at = "open"
      /\ pending' = IF a.kind = "sqlite" THEN pending ELSE pending \ Of(u)
  BY <1>2 DEF CancelledUnit, UnitIs
<1> HIDE DEF r
<1>5. /\ unit' \in [WorkUnits -> UnitStates] /\ unit'[u] = r
      /\ \A v \in WorkUnits : v # u => unit'[v] = unit[v]
  BY <1>1, <1>3, <1>4, UnitSteps
<1>6. \A w \in pending \cup kept : w[1] \in WorkUnits BY <1>1 DEF UnitsTyped, Stores
<1>7. pending' \subseteq pending BY <1>4
<1>8. UnitsTyped'
  <2>1. \A v \in WorkUnits : unit'[v].wrote = unit[v].wrote BY <1>2, <1>3, <1>5
  <2>2. \A v \in WorkUnits : unit'[v].at = "new" => unit'[v].wrote = 0
    BY <1>1, <1>3, <1>5 DEF UnitsTyped
  <2> QED BY <1>1, <1>4, <1>5, <1>6, <1>7, <2>1, <2>2 DEF UnitsTyped
<1>9. SqliteAlone' BY <1>2, <1>3, <1>4, AloneStays
<1>10. LeftFits'
  <2> SUFFICES ASSUME NEW w \in pending' PROVE LeftOf(w)' BY DEF LeftFits
  <2>1. w \in pending /\ w[1] \in WorkUnits BY <1>6, <1>7
  <2>2. CASE w[1] = u
    <3>1. a.kind = "sqlite" BY <1>4, <2>1, <2>2 DEF Of
    <3> QED BY <1>3, <1>5, <2>2, <3>1 DEF LeftOf
  <2>3. CASE w[1] # u BY <1>1, <1>5, <2>1, <2>3 DEF LeftFits, LeftOf
  <2> QED BY <2>2, <2>3
<1>11. ASSUME NEW v \in WorkUnits, v \notin beside' PROVE FitsHere(v)'
  <2>1. CASE v = u
    <3> DEFINE whole == WholeOf(u, unit[u].wrote, apart)
    <3>1. whole \subseteq pending /\ whole \subseteq Of(u) /\ whole \cap kept = {}
      BY <1>4, <1>11, <2>1, OwnWhole
    <3>2. WholeOf(u, unit[u].wrote, apart)' = whole /\ unit'[u] = r
      BY <1>2, <1>3, <1>4, <1>5 DEF WholeOf
    <3> HIDE DEF whole
    <3>3. CASE a.kind = "sqlite" BY <1>3, <1>4, <2>1, <3>1, <3>2, <3>3 DEF FitsHere, UnitFits
    <3>4. CASE a.kind # "sqlite"
      <4>1. whole \cap pending' = {} BY <1>4, <3>1, <3>4
      <4> QED BY <1>3, <1>4, <2>1, <3>1, <3>2, <4>1 DEF FitsHere, UnitFits
    <3> QED BY <3>3, <3>4
  <2>2. CASE v # u
    <3>1. \A w \in Stores : w[1] = v =>
      /\ w \in pending' <=> w \in pending
      /\ w \in kept' <=> w \in kept
      /\ w \in apart' <=> w \in apart
      BY <1>4, <2>2 DEF Of
    <3> QED BY <1>3, <1>4, <1>11, <2>2, <3>1, OthersFit
  <2> QED BY <2>1, <2>2
<1> QED BY <1>8, <1>9, <1>10, <1>11, Zenon DEF UnitsIInv, WholesFit

LEMMA HealthCheckKeeps == ASSUME UnitsIInv, HealthCheck PROVE UnitsIInv'
<1>1. UnitsTyped /\ SqliteAlone /\ LeftFits /\ WholesFit BY DEF UnitsIInv
<1>2. /\ UNCHANGED <<unit, apart>> /\ pending' = pending \ Shared
      /\ (kept' = kept \/ kept' = kept \cup Shared)
      /\ beside' = beside \cup OpenUnits("sqlite") /\ Shared \subseteq pending
  BY DEF HealthCheck, Shared
<1>3. UnitsTyped'
  <2>1. pending' \subseteq Stores /\ kept' \subseteq Stores /\ pending' \cup kept' \subseteq pending \cup kept
    BY <1>1, <1>2 DEF UnitsTyped
  <2> QED BY <1>1, <1>2, <2>1 DEF UnitsTyped
<1>4. SqliteAlone' BY <1>1, <1>2 DEF SqliteAlone, OpenSqlite
<1>5. LeftFits' BY <1>1, <1>2 DEF LeftFits, LeftOf
<1>6. ASSUME NEW v \in WorkUnits, v \notin beside' PROVE FitsHere(v)'
  <2> DEFINE whole == WholeOf(v, unit[v].wrote, apart)
  <2>1. \A w \in whole : w[1] = v BY DEF WholeOf
  <2>2. UnitFits(unit[v].kind, unit[v].at, whole, pending, kept)
    BY <1>1, <1>2, <1>6 DEF WholesFit, FitsHere
  <2>3. WholeOf(v, unit[v].wrote, apart)' = whole BY <1>2
  <2> HIDE DEF whole
  <2>4. \/ whole \cap Shared = {}
        \/ unit[v].at = "cancelled" /\ unit[v].kind = "sqlite" /\ whole \cap pending \subseteq Shared
    <3>1. CASE unit[v].kind # "sqlite"
      <4>1. whole \cap Shared = {} BY <2>1, <3>1 DEF Shared
      <4> QED BY <4>1
    <3>2. CASE unit[v].kind = "sqlite" /\ unit[v].at = "cancelled"
      <4>1. whole \cap pending \subseteq Shared BY <2>1, <3>2 DEF Shared
      <4> QED BY <3>2, <4>1
    <3>3. CASE unit[v].kind = "sqlite" /\ unit[v].at # "cancelled"
      <4>1. unit[v].at # "open" BY <1>2, <1>6, <3>3 DEF OpenUnits
      <4>2. \A w \in pending : w[1] # v BY <1>1, <3>3, <4>1 DEF LeftFits, LeftOf
      <4>3. whole \cap Shared = {} BY <1>2, <2>1, <4>2
      <4> QED BY <4>3
    <3> QED BY <3>1, <3>2, <3>3
  <2>5. UnitFits(unit[v].kind, unit[v].at, whole, pending \ Shared, kept')
    BY <1>2, <2>2, <2>4, WholeSettles
  <2> QED BY <1>2, <2>3, <2>5 DEF FitsHere
<1> QED BY <1>3, <1>4, <1>5, <1>6, Zenon DEF UnitsIInv, WholesFit

LEMMA UnitsNextKeeps == ASSUME UnitsIInv, UnitsNext PROVE UnitsIInv'
<1>1. CASE HealthCheck BY <1>1, HealthCheckKeeps
<1>2. CASE ~HealthCheck
  <2>1. PICK u \in WorkUnits :
         \/ \E k \in UnitKinds : OpensUnit(u, k)
         \/ Executes(u) \/ WritesDocument(u) \/ CommitsHere(u) \/ RollsBackHere(u) \/ LetsGo(u)
         \/ EndsUnit(u) \/ FailsUnit(u) \/ CancelledUnit(u)
    BY <1>2 DEF UnitsNext
  <2> QED BY <2>1, OpensKeeps, ExecutesKeeps, EndsKeeps, LetsGoKeeps, CancelledKeeps
<1> QED BY <1>1, <1>2

(* Where nothing of a part moves. *)
LEMMA TenantsRest == ASSUME TenantsIInv, UNCHANGED tenantVars PROVE TenantsIInv'
<1>1. UNCHANGED <<strict, context, orm, rows, crossed>> BY DEF tenantVars
<1>2. \A x \in OrmSessions : CurrentTenant(x)' = CurrentTenant(x) BY <1>1 DEF CurrentTenant
<1> QED BY <1>1, <1>2 DEF TenantsIInv, TenantsTyped, SessionsFit, TenantIsolated

LEMMA RedisRests == ASSUME RedisIInv, UNCHANGED redisVars PROVE RedisIInv'
<1>1. UNCHANGED <<redis, ponged, redisUser, redisMade, redisShut, open, late>> BY DEF redisVars
<1> QED BY <1>1, Zenon DEF RedisIInv

LEMMA MongoRests == ASSUME MongoIInv, UNCHANGED mongoVars PROVE MongoIInv'
<1>1. UNCHANGED <<mongo, mongoLock, mongoCall, mongoMade, mongoShut, lost, docs, initialised, bound, failed>>
  BY DEF mongoVars
<1>2. \A m : Wanted(m)' <=> Wanted(m) BY <1>1, Zenon DEF Wanted
<1>3. MongoTyped' /\ QueueFits' BY <1>1, Zenon DEF MongoIInv, MongoTyped, QueueFits
<1>4. MongoClientsFit' BY <1>1, Zenon DEF MongoIInv, MongoClientsFit
<1>5. ModelsFit' BY <1>1, <1>2, Zenon DEF MongoIInv, ModelsFit
<1> QED BY <1>3, <1>4, <1>5 DEF MongoIInv

LEMMA UnitsRest == ASSUME UnitsIInv, UNCHANGED unitVars PROVE UnitsIInv'
<1>1. UNCHANGED <<unit, pending, kept, apart, beside>> BY DEF unitVars
<1>2. /\ \A u : OpenSqlite(u)' <=> OpenSqlite(u)
      /\ \A w : LeftOf(w)' <=> LeftOf(w)
      /\ \A u : FitsHere(u)' <=> FitsHere(u)
  BY <1>1, Zenon DEF OpenSqlite, LeftOf, FitsHere
<1>3. UnitsTyped' BY <1>1, Zenon DEF UnitsIInv, UnitsTyped
<1>4. SqliteAlone' /\ LeftFits' /\ WholesFit'
  BY <1>1, <1>2, Zenon DEF UnitsIInv, SqliteAlone, LeftFits, WholesFit
<1> QED BY <1>3, <1>4 DEF UnitsIInv

LEMMA UrlRests == ASSUME UrlIInv, UNCHANGED urlVars PROVE UrlIInv'
  BY DEF urlVars, UrlIInv

LEMMA ConnectionsThen ==
  ASSUME TenantsIInv, RedisIInv, MongoIInv, UnitsIInv, WatchIInv, UrlIInv, RocketIInv
  PROVE  ConnectionsSound
  BY TenantsThen, DatabasesThen, UnitsThen, WatchThen, UrlThen, RocketThen DEF ConnectionsSound
=============================================================================
