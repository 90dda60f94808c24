-------------------------- MODULE ValidateTgzProofs --------------------------
(***************************************************************************)
(* Machine-checked proofs about the archive validation, for any archives   *)
(* and any limits: what the scan after the pass reads, what an accepted    *)
(* archive was checked for, and that the outcome is final.                 *)
(*                                                                         *)
(* The inductive invariant follows the entries seen so far: the current    *)
(* one is captured up to the position reached (ReadSoFar), those before it *)
(* have been handed over (HandedOver) and checked (Checked).               *)
(***************************************************************************)
EXTENDS ValidateTgz, TotalsProofs

(* The current entry's listener has kept every piece delivered so far. *)
ReadSoFar ==
    stage = "reading" =>
        /\ fileCount >= 1
        /\ position <= Len(Current.pieces)
        /\ branch = "capture" <=> Current.name \in CapturedNames
        /\ branch = "capture" =>
            /\ Len(pieces) = position
            /\ \A i \in 1..position : pieces[i] = Current.pieces[i]

(* The captured names among the first n entries, with the last content of each. *)
LastOf(n) ==
    {j \in 1..n : /\ archive.entries[j].name \in CapturedNames
                  /\ \A k \in j + 1..n : archive.entries[k].name # archive.entries[j].name}

FilesOf(n) ==
    {[name |-> archive.entries[j].name, content |-> archive.entries[j].pieces] : j \in LastOf(n)}

(* How many entries have ended. *)
Ended == IF stage = "reading" THEN fileCount - 1 ELSE fileCount

HandedOver == stage \in Running \cup {"accepted"} => files = FilesOf(Ended)

Complete == stage = "accepted" => fileCount = Len(archive.entries)

(* The header checks held of every entry seen. *)
Checked ==
    stage \in Running \cup {"accepted"} =>
        /\ fileCount <= MaxFiles
        /\ totalSize <= MaxTotalSize
        /\ \A i \in 1..fileCount :
            Acceptable(archive.entries[i]) /\ archive.entries[i].size <= MaxFileSize

Inv == TypeOK /\ ReadSoFar /\ HandedOver /\ Complete /\ Checked /\ TimerCleared

-----------------------------------------------------------------------------
LEMMA Limits ==
    MaxFiles \in Nat /\ MaxTotalSize \in Nat /\ MaxFileSize \in Nat /\ MaxLicense \in Nat
BY LimitsAssumption

LEMMA InspectorType ==
    ASSUME TypeOK
    PROVE  /\ CapturedNames \subseteq Names
           /\ CapturedNames \cap LicenseNames = {}
           /\ MaxCapture \in Nat
BY ArchivesAssumption, InspectorAssumption DEF TypeOK, CapturedNames, MaxCapture

LEMMA EntriesType ==
    ASSUME TypeOK
    PROVE  /\ archive.entries \in Seq(Entry)
           /\ Len(archive.entries) \in Nat
           /\ fileCount \in Nat
           /\ fileCount <= Len(archive.entries)
           /\ \A i \in 1..Len(archive.entries) :
                /\ archive.entries[i] \in Entry
                /\ archive.entries[i].size \in Nat
                /\ archive.entries[i].pieces \in Seq(Nat)
<1>1. archive.entries \in Seq(Entry)
  BY ArchivesAssumption DEF TypeOK
<1>2. Len(archive.entries) \in Nat
  BY <1>1
<1>3. \A i \in 1..Len(archive.entries) : archive.entries[i] \in Entry
  BY <1>1
<1>4. \A e \in Entry : e.size \in Nat /\ e.pieces \in Seq(Nat)
  BY DEF Entry
<1> QED
  BY <1>1, <1>2, <1>3, <1>4 DEF TypeOK

(* An entry that is not captured changes nothing, one that is replaces its *)
(* namesake: Map.set of the inspector's map.                               *)
LEMMA FilesOfNext ==
    ASSUME NEW n \in Nat
    PROVE  LET e == archive.entries[n + 1]
           IN  /\ e.name \notin CapturedNames => FilesOf(n + 1) = FilesOf(n)
               /\ e.name \in CapturedNames =>
                    FilesOf(n + 1) = {f \in FilesOf(n) : f.name # e.name}
                                        \cup {[name |-> e.name, content |-> e.pieces]}
<1> DEFINE E(j) == archive.entries[j]
           F(j) == [name |-> E(j).name, content |-> E(j).pieces]
<1>1. \A j \in 1..n : j \in LastOf(n + 1) <=> j \in LastOf(n) /\ E(n + 1).name # E(j).name
  <2> SUFFICES ASSUME NEW j \in 1..n
               PROVE  j \in LastOf(n + 1) <=> j \in LastOf(n) /\ E(n + 1).name # E(j).name
    OBVIOUS
  <2>1. j + 1..n + 1 = (j + 1..n) \cup {n + 1}
    OBVIOUS
  <2> QED
    BY <2>1 DEF LastOf
<1>2. n + 1 \in LastOf(n + 1) <=> E(n + 1).name \in CapturedNames
  <2>1. (n + 1) + 1..n + 1 = {}
    OBVIOUS
  <2> QED
    BY <2>1 DEF LastOf
<1>3. LastOf(n + 1) \subseteq (1..n) \cup {n + 1} /\ LastOf(n) \subseteq 1..n
  BY DEF LastOf
<1>4. ASSUME E(n + 1).name \notin CapturedNames
      PROVE  FilesOf(n + 1) = FilesOf(n)
  <2>1. \A j \in LastOf(n) : E(j).name \in CapturedNames
    BY DEF LastOf
  <2>2. LastOf(n + 1) = LastOf(n)
    BY <1>1, <1>2, <1>3, <1>4, <2>1
  <2> QED
    BY <2>2 DEF FilesOf
<1>5. ASSUME E(n + 1).name \in CapturedNames
      PROVE  FilesOf(n + 1) = {f \in FilesOf(n) : f.name # E(n + 1).name} \cup {F(n + 1)}
  <2>1. LastOf(n + 1) = {j \in LastOf(n) : E(j).name # E(n + 1).name} \cup {n + 1}
    BY <1>1, <1>2, <1>3, <1>5
  <2>2. FilesOf(n + 1) = {F(j) : j \in LastOf(n + 1)} /\ FilesOf(n) = {F(j) : j \in LastOf(n)}
    BY DEF FilesOf
  <2>3. \A j : F(j).name = E(j).name
    OBVIOUS
  <2> QED
    BY <2>1, <2>2, <2>3
<1> QED
  BY <1>4, <1>5

-----------------------------------------------------------------------------
LEMMA InitInv == Init => Inv
<1> SUFFICES ASSUME Init PROVE Inv
  OBVIOUS
<1>1. TypeOK
  <2>1. archive.entries \in Seq(Entry)
    BY ArchivesAssumption DEF Init
  <2>2. Len(archive.entries) \in Nat
    BY <2>1
  <2> QED
    BY <2>2 DEF Init, TypeOK, Running
<1>2. FilesOf(0) = {}
  BY DEF FilesOf, LastOf
<1> QED
  BY <1>1, <1>2, Limits DEF Init, Inv, ReadSoFar, HandedOver, Ended, Complete, Checked,
     TimerCleared, Running, Settled

LEMMA NextEntryInv ==
    ASSUME Inv, NextEntry
    PROVE  Inv'
<1> DEFINE e == archive.entries[fileCount + 1]
<1>1. /\ fileCount \in Nat /\ fileCount + 1 \in 1..Len(archive.entries)
      /\ e \in Entry /\ e.size \in Nat /\ e.pieces \in Seq(Nat) /\ totalSize \in Nat
  BY EntriesType DEF NextEntry, Inv, TypeOK
<1>2. CASE HeaderRefused(e, fileCount + 1, totalSize + e.size)
  <2>1. stage' = "refused" /\ UNCHANGED <<totalSize, tally, entryVars>>
    BY <1>2 DEF NextEntry
  <2>2. TypeOK'
    BY <1>1, <2>1 DEF NextEntry, Inv, TypeOK, CapturedNames, entryVars, Destroyed
  <2> QED
    BY <2>1, <2>2 DEF Inv, ReadSoFar, HandedOver, Complete, Checked, TimerCleared,
       Running, Settled
<1>3. CASE ~HeaderRefused(e, fileCount + 1, totalSize + e.size)
  <2>1. /\ stage = "between" /\ stage' = "reading"
        /\ fileCount' = fileCount + 1
        /\ totalSize' = totalSize + e.size
        /\ branch' = BranchOf(e) /\ position' = 0 /\ captured' = 0 /\ pieces' = <<>>
        /\ timer' = IF timer = "none" THEN "pending" ELSE timer
        /\ tally' \in {tally, tally + e.size}
        /\ UNCHANGED <<archive, licenseText, files>>
    BY <1>3 DEF NextEntry
  <2>2. TypeOK'
    BY <1>1, <2>1 DEF Inv, TypeOK, BranchOf, CapturedNames, Running
  <2>3. ReadSoFar'
    <3>1. Current' = e
      BY <2>1 DEF Current
    <3>2. BranchOf(e) = "capture" <=> e.name \in CapturedNames
      BY InspectorType DEF BranchOf, Inv
    <3> QED
      BY <1>1, <2>1, <3>1, <3>2 DEF ReadSoFar, CapturedNames
  <2>4. HandedOver'
    <3>1. files = FilesOf(fileCount)
      BY <2>1 DEF Inv, HandedOver, Ended, Running
    <3>2. Ended' = fileCount
      BY <1>1, <2>1 DEF Ended
    <3>3. FilesOf(Ended)' = FilesOf(fileCount)
      BY <2>1, <3>2 DEF FilesOf, LastOf, CapturedNames
    <3> QED
      BY <2>1, <3>1, <3>3 DEF HandedOver
  <2>5. Checked'
    <3>1. /\ fileCount + 1 <= MaxFiles /\ Acceptable(e) /\ e.size <= MaxFileSize
          /\ totalSize + e.size <= MaxTotalSize
      BY <1>1, <1>3, Limits DEF HeaderRefused
    <3>2. 1..fileCount + 1 = (1..fileCount) \cup {fileCount + 1}
      BY <1>1
    <3> QED
      BY <2>1, <3>1, <3>2 DEF Inv, Checked, Acceptable, Running
  <2> QED
    BY <2>1, <2>2, <2>3, <2>4, <2>5 DEF Inv, Complete, TimerCleared, Settled
<1> QED
  BY <1>2, <1>3

LEMMA DataInv ==
    ASSUME Inv, Data
    PROVE  Inv'
<1> DEFINE piece == Current.pieces[position + 1]
<1>1. /\ stage = "reading" /\ fileCount \in 1..Len(archive.entries)
      /\ Current \in Entry /\ Current.pieces \in Seq(Nat)
      /\ position \in Nat /\ position < Len(Current.pieces) /\ piece \in Nat
      /\ captured \in Nat /\ pieces \in Seq(Nat)
  <2>1. fileCount \in 1..Len(archive.entries)
    BY EntriesType DEF Data, Inv, ReadSoFar
  <2>2. Current \in Entry /\ Current.pieces \in Seq(Nat)
    BY <2>1, EntriesType DEF Current, Inv
  <2> QED
    BY <2>1, <2>2 DEF Data, Inv, TypeOK
<1>2. /\ UNCHANGED <<archive, fileCount, totalSize, branch, licenseText, files, tally, timer>>
      /\ position' = position + 1
      /\ stage' \in {"reading", "refused"}
      /\ captured' \in Nat
      /\ pieces' \in {pieces, Append(pieces, piece)}
      /\ branch = "capture" /\ stage' = "reading" => pieces' = Append(pieces, piece)
  <2>1. captured + piece \in Nat
    BY <1>1
  <2>2. CASE branch = "license"
    BY <1>1, <2>1, <2>2 DEF Data
  <2>3. CASE branch = "capture"
    BY <1>1, <2>1, <2>3 DEF Data
  <2>4. CASE branch = "skip"
    BY <1>1, <2>4 DEF Data
  <2> QED
    BY <2>2, <2>3, <2>4 DEF Inv, TypeOK
<1>3. /\ Append(pieces, piece) \in Seq(Nat)
      /\ Len(Append(pieces, piece)) = Len(pieces) + 1
      /\ \A i \in 1..Len(pieces) : Append(pieces, piece)[i] = pieces[i]
      /\ Append(pieces, piece)[Len(pieces) + 1] = piece
  BY <1>1, AppendProperties
<1>4. TypeOK'
  <2> HIDE DEF piece
  <2>1. pieces' \in Seq(Nat)
    BY <1>1, <1>2, <1>3
  <2>2. position' \in Nat
    BY <1>1, <1>2
  <2> QED
    BY <1>1, <1>2, <2>1, <2>2 DEF Inv, TypeOK, CapturedNames, Running, Destroyed
<1>5. ReadSoFar'
  <2>1. Current' = Current
    BY <1>2 DEF Current
  <2>2. ASSUME branch = "capture", stage' = "reading"
        PROVE  /\ Len(pieces') = position + 1
               /\ \A i \in 1..position + 1 : pieces'[i] = Current.pieces[i]
    <3>1. Len(pieces) = position /\ \A i \in 1..position : pieces[i] = Current.pieces[i]
      BY <1>1, <2>2 DEF Inv, ReadSoFar
    <3>2. 1..position + 1 = (1..position) \cup {position + 1}
      <4>1. \A n \in Nat : 1..n + 1 = (1..n) \cup {n + 1}
        OBVIOUS
      <4>2. position \in Nat
        BY <1>1
      <4> QED
        BY <4>1, <4>2
    <3>3. pieces' = Append(pieces, piece)
      BY <1>2, <2>2
    <3> HIDE DEF piece
    <3>4. Len(pieces') = position + 1
      BY <1>3, <3>1, <3>3
    <3>5. \A i \in 1..position : pieces'[i] = Current.pieces[i]
      BY <1>3, <3>1, <3>3
    <3>6. pieces'[position + 1] = Current.pieces[position + 1]
      BY <1>3, <3>1, <3>3 DEF piece
    <3> QED
      BY <3>2, <3>4, <3>5, <3>6
  <2> HIDE DEF piece
  <2> QED
    BY <1>1, <1>2, <2>1, <2>2 DEF Inv, ReadSoFar, CapturedNames
<1>6. HandedOver' /\ Checked' /\ Complete'
  BY <1>1, <1>2 DEF Inv, HandedOver, Ended, FilesOf, LastOf, CapturedNames, Checked, Complete,
     Acceptable, Running
<1>7. TimerCleared'
  BY <1>2 DEF TimerCleared, Settled
<1> QED
  BY <1>4, <1>5, <1>6, <1>7 DEF Inv

LEMMA EndInv ==
    ASSUME Inv, End
    PROVE  Inv'
<1> DEFINE n == fileCount - 1
<1>1. /\ stage = "reading" /\ stage' = "between" /\ position = Len(Current.pieces)
      /\ UNCHANGED <<archive, fileCount, totalSize, entryVars, tally, timer>>
      /\ fileCount \in 1..Len(archive.entries)
      /\ n \in Nat /\ n + 1 = fileCount
      /\ Current \in Entry /\ Current.pieces \in Seq(Nat) /\ pieces \in Seq(Nat)
  <2>1. fileCount \in 1..Len(archive.entries)
    BY EntriesType DEF End, Inv, ReadSoFar
  <2>2. Current \in Entry /\ Current.pieces \in Seq(Nat)
    BY <2>1, EntriesType DEF Current, Inv
  <2> QED
    BY <2>1, <2>2 DEF End, Inv, TypeOK
<1>2. branch = "capture" <=> Current.name \in CapturedNames
  BY <1>1 DEF Inv, ReadSoFar
<1>3. branch = "capture" => pieces = Current.pieces
  <2> SUFFICES ASSUME branch = "capture" PROVE pieces = Current.pieces
    OBVIOUS
  <2>1. Len(pieces) = Len(Current.pieces) /\ \A i \in 1..Len(pieces) : pieces[i] = Current.pieces[i]
    BY <1>1 DEF Inv, ReadSoFar
  <2> QED
    BY <1>1, <2>1, SeqEqual
<1>4. files' = FilesOf(fileCount)
  <2>1. files = FilesOf(n)
    BY <1>1 DEF Inv, HandedOver, Ended, Running
  <2>2. Current = archive.entries[n + 1]
    BY <1>1 DEF Current
  <2> QED
    BY <1>1, <1>2, <1>3, <2>1, <2>2, FilesOfNext DEF End
<1>5. TypeOK'
  <2>1. licenseText' \subseteq Seq(Nat)
    BY <1>1 DEF End, Inv, TypeOK
  <2>2. \A f \in files' : f.name \in CapturedNames /\ f.content \in Seq(Nat)
    BY <1>1, <1>2, InspectorType DEF End, Inv, TypeOK
  <2> QED
    BY <1>1, <2>1, <2>2 DEF Inv, TypeOK, CapturedNames, entryVars, Running
<1>6. HandedOver'
  BY <1>1, <1>4 DEF HandedOver, Ended, FilesOf, LastOf, CapturedNames
<1> QED
  BY <1>1, <1>5, <1>6 DEF Inv, ReadSoFar, Complete, Checked, Acceptable, TimerCleared, Running,
     Settled

(* The ends of the stream: of all entries, of a broken archive, by the timer. *)
LEMMA StopInv ==
    ASSUME Inv, Finish \/ Break \/ Error \/ TimerFires \/ UNCHANGED vars
    PROVE  Inv'
<1>1. UNCHANGED <<archive, fileCount, totalSize, entryVars, licenseText, files, tally>>
  BY DEF Finish, Break, Error, TimerFires, vars
<1>2. TypeOK'
  BY DEF Finish, Break, Error, TimerFires, vars, entryVars, Inv, TypeOK, CapturedNames, Running,
     Destroyed, Settled
<1>3. /\ stage' = "reading" => stage = "reading"
      /\ stage' = "between" => stage = "between"
      /\ stage' = "accepted" =>
            stage \in {"between", "accepted"}
            /\ (stage = "between" => fileCount = Len(archive.entries))
      /\ stage' \in Settled => timer' = "none"
  BY DEF Finish, Break, Error, TimerFires, vars, Inv, TimerCleared, Running, Destroyed, Settled
<1>4. ReadSoFar'
  BY <1>1, <1>3 DEF Inv, ReadSoFar, Current, CapturedNames, entryVars
<1>5. HandedOver'
  BY <1>1, <1>3 DEF Inv, HandedOver, Ended, FilesOf, LastOf, CapturedNames, Running
<1>6. Complete' /\ Checked' /\ TimerCleared'
  BY <1>1, <1>3 DEF Inv, Complete, Checked, Acceptable, TimerCleared, Running
<1> QED
  BY <1>2, <1>4, <1>5, <1>6 DEF Inv

(* The inductive invariant of the pass. *)
THEOREM Invariance == Spec => []Inv
<1>1. Inv /\ [Next]_vars => Inv'
  BY NextEntryInv, DataInv, EndInv, StopInv DEF Next, StreamStep
<1> QED
  BY InitInv, <1>1, PTL DEF Spec

(* Every variable of the pass keeps its type, for any archives and limits. *)
THEOREM TypeCorrect == Spec => []TypeOK
BY Invariance, PTL DEF Inv

(* What validateUefnPackage and validateRobloxPackage read after the pass is *)
(* what an extraction of the archive leaves behind, entire.                  *)
THEOREM ScanReadsTheExtracted == Spec => []ScannedIsExtracted
<1>1. Inv => ScannedIsExtracted
  <2> SUFFICES ASSUME Inv, stage = "accepted"
               PROVE  files = FilesOf(Len(archive.entries))
    <3>1. DOMAIN archive.entries = 1..Len(archive.entries)
      BY EntriesType DEF Inv
    <3> QED
      BY <3>1 DEF ScannedIsExtracted, FilesOf, LastOf
  <2> QED
    BY DEF Inv, HandedOver, Ended, Complete
<1> QED
  BY <1>1, Invariance, PTL

(* The header checks cover every entry of an accepted archive: none is passed *)
(* over, whichever listeners the entries got.                                 *)
AcceptedIsChecked ==
    stage = "accepted" =>
        /\ Len(archive.entries) <= MaxFiles
        /\ totalSize <= MaxTotalSize
        /\ \A i \in 1..Len(archive.entries) :
            Acceptable(archive.entries[i]) /\ archive.entries[i].size <= MaxFileSize

THEOREM AllChecked == Spec => []AcceptedIsChecked
<1>1. Inv => AcceptedIsChecked
  BY DEF Inv, Checked, Complete, AcceptedIsChecked
<1> QED
  BY <1>1, Invariance, PTL

(* No timer survives the pass (clearTimeout on finish and on error). *)
THEOREM TimerGone == Spec => []TimerCleared
BY Invariance, PTL DEF Inv

(* Neither the timer nor a late failure changes how the pass ends. *)
THEOREM OneOutcome == Spec => OutcomeIsFinal
<1>1. Inv /\ [Next]_vars => [/\ stage \in Settled => stage' = stage
                             /\ stage = "refused" => stage' \in {"refused", "rejected"}]_vars
  BY DEF Inv, TimerCleared, Next, StreamStep, NextEntry, Data, End, Finish, Break, Error,
     TimerFires, vars, Running, Destroyed, Settled
<1> QED
  BY <1>1, Invariance, PTL DEF Spec, OutcomeIsFinal

-----------------------------------------------------------------------------
(* The verdict.  The pass compares running sums with its limits as it goes: *)
(* the invariant says what they are sums of, that everything that ended is  *)
(* within the limits, and that what was refused is not.                     *)

Passing == stage \in Running \cup {"accepted"}

Counted == Passing => totalSize = RunningTotals(Sizes(archive.entries))[fileCount]

CaptureCounted ==
    stage = "reading" =>
        /\ branch # "skip" => captured = RunningTotals(Current.pieces)[position]
        /\ branch = "capture" => captured <= MaxCapture

(* What LicensePart describes, of the first n pieces. *)
IsLicensePart(part, text, n) ==
    /\ part \in {SubSeq(text, 1, k) : k \in 0..n}
    /\ Total(part) <= MaxLicense
    /\ \A k \in Len(part) + 1..n : Total(SubSeq(text, 1, k)) > MaxLicense

LicenseRead ==
    stage = "reading" =>
        /\ branch = "license" <=> Current.name \in LicenseNames /\ licenseText = {}
        /\ branch = "license" => IsLicensePart(pieces, Current.pieces, position)

SmallEnough ==
    Passing => \A i \in 1..Ended :
        archive.entries[i].name \in CapturedNames => Total(archive.entries[i].pieces) <= MaxCapture

(* The license text after the first n entries. *)
LicenseUpTo(n) ==
    LET seen == Licenses \cap 1..n
    IN  IF seen = {} THEN {} ELSE {LicensePart(archive.entries[Min(seen)].pieces)}

LicenseTaken == Passing => licenseText = LicenseUpTo(Ended)

RefusedForCause == stage \in {"refused", "rejected"} => ~WithinLimits(archive)

AcceptedWhole == stage = "accepted" => archive.intact

VerdictInv ==
    /\ Counted
    /\ CaptureCounted
    /\ LicenseRead
    /\ SmallEnough
    /\ LicenseTaken
    /\ RefusedForCause
    /\ AcceptedWhole

LEMMA SizesType ==
    ASSUME TypeOK
    PROVE  /\ Sizes(archive.entries) \in Seq(Nat)
           /\ Len(Sizes(archive.entries)) = Len(archive.entries)
           /\ \A i \in 1..Len(archive.entries) : Sizes(archive.entries)[i] = archive.entries[i].size
<1>1. DOMAIN archive.entries = 1..Len(archive.entries)
  BY EntriesType
<1>2. Sizes(archive.entries) \in [1..Len(archive.entries) -> Nat]
  BY <1>1, EntriesType DEF Sizes
<1>3. Sizes(archive.entries) \in Seq(Nat)
  BY <1>2, EntriesType
<1>4. Len(Sizes(archive.entries)) = Len(archive.entries)
  BY <1>2, <1>3, EntriesType
<1> QED
  BY <1>1, <1>3, <1>4 DEF Sizes

(* The cut of a text at the cap is one of its first parts, and only one. *)
LEMMA LicensePartIs ==
    ASSUME NEW text \in Seq(Nat), NEW part, IsLicensePart(part, text, Len(text))
    PROVE  LicensePart(text) = part
<1> DEFINE n == Len(text)
<1>1. n \in Nat
  OBVIOUS
<1>2. \A q : IsLicensePart(q, text, n) =>
        \E k \in 0..n : q = SubSeq(text, 1, k) /\ Len(q) = k
  BY <1>1 DEF IsLicensePart
<1>3. ASSUME NEW q, IsLicensePart(q, text, n) PROVE q = part
  <2>1. PICK a \in 0..n : part = SubSeq(text, 1, a) /\ Len(part) = a
    BY <1>2
  <2>2. PICK b \in 0..n : q = SubSeq(text, 1, b) /\ Len(q) = b
    BY <1>2, <1>3
  <2>3. Total(part) \in Nat /\ Total(q) \in Nat
    BY <2>1, <2>2, TotalOfPart, RunningTotalsType
  <2>4. ~(a < b)
    <3>1. a < b => b \in Len(part) + 1..n
      BY <1>1, <2>1
    <3> QED
      BY <1>3, <2>2, <2>3, <3>1, Limits DEF IsLicensePart
  <2>5. ~(b < a)
    <3>1. b < a => a \in Len(q) + 1..n
      BY <1>1, <2>2
    <3> QED
      BY <1>3, <2>1, <2>3, <3>1, Limits DEF IsLicensePart
  <2>6. a = b
    BY <1>1, <2>4, <2>5
  <2> QED
    BY <2>1, <2>2, <2>6
<1>4. LicensePart(text) = CHOOSE q : IsLicensePart(q, text, n)
  BY DEF LicensePart, IsLicensePart
<1>5. \E q : IsLicensePart(q, text, n)
  OBVIOUS
<1>6. IsLicensePart(LicensePart(text), text, n)
  BY <1>4, <1>5
<1> QED
  BY <1>3, <1>6

(* The license listener's step: a piece is kept as long as the sum is below *)
(* the cap, and none is after one was dropped.                              *)
LEMMA LicensePartNext ==
    ASSUME NEW text \in Seq(Nat), NEW n \in 0..Len(text), n < Len(text), NEW part,
           IsLicensePart(part, text, n)
    PROVE  LET count == RunningTotals(text)[n] + text[n + 1]
           IN  /\ count <= MaxLicense => IsLicensePart(Append(part, text[n + 1]), text, n + 1)
               /\ count > MaxLicense => IsLicensePart(part, text, n + 1)
<1> DEFINE T(k) == RunningTotals(text)[k]
<1>1. n \in Nat /\ Len(text) \in Nat /\ n + 1 \in 0..Len(text) /\ 0..n \subseteq 0..Len(text)
  OBVIOUS
<1>2. T(n + 1) = T(n) + text[n + 1]
  BY RunningTotalsEquations
<1>3. \A k \in 0..Len(text) : T(k) \in Nat /\ Total(SubSeq(text, 1, k)) = T(k)
  BY RunningTotalsType, TotalOfPart
<1>4. T(n) <= T(n + 1)
  BY <1>1, RunningTotalsGrow
<1>5. PICK k \in 0..n : part = SubSeq(text, 1, k) /\ Len(part) = k
  BY <1>1 DEF IsLicensePart
<1> HIDE DEF T
<1>6. ASSUME T(n + 1) <= MaxLicense
      PROVE  IsLicensePart(Append(part, text[n + 1]), text, n + 1)
  <2>1. T(n) <= MaxLicense
    BY <1>1, <1>3, <1>4, <1>6, Limits
  <2>2. k = n
    <3>1. k < n => n \in Len(part) + 1..n
      BY <1>1, <1>5
    <3>2. ~(k < n)
      BY <1>1, <1>3, <2>1, <3>1, Limits DEF IsLicensePart
    <3> QED
      BY <1>1, <1>5, <3>2
  <2>3. Append(part, text[n + 1]) = SubSeq(text, 1, n + 1)
    BY <1>1, <1>5, <2>2
  <2>4. Len(SubSeq(text, 1, n + 1)) = n + 1
    BY <1>1
  <2>5. Total(SubSeq(text, 1, n + 1)) <= MaxLicense
    BY <1>1, <1>3, <1>6
  <2>6. SubSeq(text, 1, n + 1) \in {SubSeq(text, 1, j) : j \in 0..n + 1}
    BY <1>1
  <2>7. Len(SubSeq(text, 1, n + 1)) + 1..n + 1 = {}
    BY <1>1, <2>4
  <2> QED
    BY <2>3, <2>5, <2>6, <2>7 DEF IsLicensePart
<1>7. ASSUME T(n + 1) > MaxLicense
      PROVE  IsLicensePart(part, text, n + 1)
  <2>1. part \in {SubSeq(text, 1, j) : j \in 0..n + 1}
    BY <1>1, <1>5
  <2>2. Total(part) <= MaxLicense
    BY DEF IsLicensePart
  <2>3. ASSUME NEW j \in Len(part) + 1..n + 1 PROVE Total(SubSeq(text, 1, j)) > MaxLicense
    <3>1. CASE j = n + 1
      BY <1>1, <1>3, <1>7, <3>1
    <3>2. CASE j \in Len(part) + 1..n
      BY <3>2 DEF IsLicensePart
    <3> QED
      BY <1>1, <1>5, <3>1, <3>2
  <2> QED
    BY <2>1, <2>2, <2>3 DEF IsLicensePart
<1> QED
  BY <1>2, <1>6, <1>7 DEF T

LEMMA LicenseUpToNext ==
    ASSUME NEW n \in Nat, TypeOK, n + 1 <= Len(archive.entries)
    PROVE  LET e == archive.entries[n + 1]
           IN  LicenseUpTo(n + 1) = IF e.name \in LicenseNames /\ LicenseUpTo(n) = {}
                                    THEN {LicensePart(e.pieces)} ELSE LicenseUpTo(n)
<1> DEFINE e == archive.entries[n + 1]
           seen(k) == Licenses \cap 1..k
<1>1. DOMAIN archive.entries = 1..Len(archive.entries) /\ Len(archive.entries) \in Nat
  BY EntriesType
<1>2. seen(n + 1) = IF e.name \in LicenseNames THEN seen(n) \cup {n + 1} ELSE seen(n)
  BY <1>1 DEF Licenses
<1>3. LicenseUpTo(n) = {} <=> seen(n) = {}
  BY DEF LicenseUpTo
<1>4. CASE e.name \notin LicenseNames
  BY <1>2, <1>4 DEF LicenseUpTo
<1>5. CASE e.name \in LicenseNames /\ seen(n) = {}
  <2>1. seen(n + 1) = {n + 1}
    BY <1>2, <1>5
  <2>2. Min(seen(n + 1)) = n + 1
    BY <2>1 DEF Min
  <2> QED
    BY <1>3, <1>5, <2>1, <2>2 DEF LicenseUpTo
<1>6. CASE e.name \in LicenseNames /\ seen(n) # {}
  <2>1. seen(n) \in SUBSET Nat /\ \A i \in seen(n) : i <= n
    BY DEF Licenses
  <2>2. PICK m \in seen(n) : \A i \in seen(n) : m <= i
    <3> HIDE DEF seen
    <3> QED
      BY <1>6, <2>1, LeastNumber
  <2>3. seen(n + 1) = seen(n) \cup {n + 1}
    BY <1>2, <1>6
  <2> HIDE DEF seen
  <2>4. Min(seen(n)) = m
    BY <2>1, <2>2 DEF Min
  <2>5. m \in seen(n + 1) /\ \A i \in seen(n + 1) : m <= i
    BY <2>1, <2>2, <2>3
  <2>6. Min(seen(n + 1)) = m
    BY <2>1, <2>3, <2>5 DEF Min
  <2> QED
    BY <1>3, <1>6, <2>3, <2>4, <2>6 DEF LicenseUpTo, seen
<1> QED
  BY <1>4, <1>5, <1>6

-----------------------------------------------------------------------------
LEMMA InitVerdict == ASSUME Init, TypeOK PROVE VerdictInv
<1>1. RunningTotals(Sizes(archive.entries))[0] = 0
  BY SizesType, RunningTotalsEquations
<1>2. LicenseUpTo(0) = {}
  BY DEF LicenseUpTo
<1> QED
  BY <1>1, <1>2 DEF Init, VerdictInv, Counted, CaptureCounted, LicenseRead, SmallEnough,
     LicenseTaken, RefusedForCause, AcceptedWhole, Ended, Passing, Running

(* A header that fails a check belongs to an archive beyond the limits: the *)
(* running total is no larger than the archive's.                           *)
LEMMA HeaderCause ==
    ASSUME TypeOK, Counted, Passing, fileCount < Len(archive.entries),
           HeaderRefused(archive.entries[fileCount + 1], fileCount + 1,
                         totalSize + archive.entries[fileCount + 1].size)
    PROVE  ~WithinLimits(archive)
<1> DEFINE n == fileCount + 1
           e == archive.entries[n]
           sizes == Sizes(archive.entries)
<1>1. /\ fileCount \in Nat /\ n \in 1..Len(archive.entries) /\ Len(archive.entries) \in Nat
      /\ DOMAIN archive.entries = 1..Len(archive.entries)
      /\ e.size \in Nat
  BY EntriesType
<1>2. sizes \in Seq(Nat) /\ Len(sizes) = Len(archive.entries) /\ sizes[n] = e.size
  BY <1>1, SizesType
<1>3. totalSize + e.size = RunningTotals(sizes)[n]
  <2>1. RunningTotals(sizes)[n] = RunningTotals(sizes)[fileCount] + sizes[n]
    BY <1>1, <1>2, RunningTotalsEquations
  <2> QED
    BY <1>2, <2>1 DEF Counted
<1>4. RunningTotals(sizes)[n] <= Total(sizes)
  BY <1>1, <1>2, RunningTotalsGrow DEF Total
<1>5. RunningTotals(sizes)[n] \in Nat /\ Total(sizes) \in Nat
  BY <1>1, <1>2, RunningTotalsType, TotalType
<1> HIDE DEF sizes
<1>6. CASE n > MaxFiles
  BY <1>1, <1>6, Limits DEF WithinLimits
<1>7. CASE ~Acceptable(e) \/ e.size > MaxFileSize
  BY <1>1, <1>7, Limits DEF WithinLimits
<1>8. CASE totalSize + e.size > MaxTotalSize
  BY <1>3, <1>4, <1>5, <1>8, Limits DEF WithinLimits, sizes
<1> QED
  BY <1>6, <1>7, <1>8 DEF HeaderRefused

LEMMA NextEntryVerdict ==
    ASSUME Inv, VerdictInv, NextEntry
    PROVE  VerdictInv'
<1> DEFINE n == fileCount + 1
           e == archive.entries[n]
<1>1. /\ stage = "between" /\ fileCount < Len(archive.entries) /\ UNCHANGED <<archive, licenseText>>
      /\ fileCount' = n
      /\ fileCount \in Nat /\ n \in 1..Len(archive.entries)
      /\ e.size \in Nat /\ e.pieces \in Seq(Nat)
  BY EntriesType DEF NextEntry, Inv, TypeOK
<1>2. CASE HeaderRefused(e, n, totalSize + e.size)
  <2>1. stage' = "refused"
    BY <1>2 DEF NextEntry
  <2>2. ~WithinLimits(archive)
    BY <1>1, <1>2, HeaderCause DEF Inv, VerdictInv, Passing, Running
  <2>3. ~WithinLimits(archive)'
    BY <1>1, <2>2 DEF WithinLimits, Acceptable, CapturedNames, MaxCapture
  <2> QED
    BY <2>1, <2>3 DEF VerdictInv, Counted, CaptureCounted, LicenseRead, SmallEnough,
       LicenseTaken, RefusedForCause, AcceptedWhole, Passing, Running
<1>3. CASE ~HeaderRefused(e, n, totalSize + e.size)
  <2>1. /\ stage' = "reading" /\ totalSize' = totalSize + e.size
        /\ branch' = BranchOf(e) /\ position' = 0 /\ captured' = 0 /\ pieces' = <<>>
    BY <1>3 DEF NextEntry
  <2>2. Current' = e /\ Ended = fileCount /\ Ended' = fileCount
    BY <1>1, <2>1 DEF Current, Ended
  <2>3. Counted'
    <3>1. RunningTotals(Sizes(archive.entries))[n]
            = RunningTotals(Sizes(archive.entries))[fileCount] + e.size
      BY <1>1, SizesType, RunningTotalsEquations DEF Inv
    <3>2. totalSize = RunningTotals(Sizes(archive.entries))[fileCount]
      BY <1>1 DEF VerdictInv, Counted, Passing, Running
    <3> QED
      BY <1>1, <2>1, <3>1, <3>2 DEF Counted, Sizes
  <2>4. CaptureCounted'
    <3>1. RunningTotals(e.pieces)[0] = 0
      BY <1>1, RunningTotalsEquations
    <3>2. MaxCapture \in Nat /\ MaxCapture' = MaxCapture
      BY <1>1, InspectorType DEF Inv, MaxCapture
    <3> QED
      BY <2>1, <2>2, <3>1, <3>2 DEF CaptureCounted
  <2>5. LicenseRead'
    <3>1. BranchOf(e) = "license" <=> e.name \in LicenseNames /\ licenseText = {}
      BY DEF BranchOf
    <3>2. IsLicensePart(<<>>, e.pieces, 0)
      <4>1. SubSeq(e.pieces, 1, 0) = <<>> /\ Len(<<>>) + 1..0 = {}
        BY <1>1
      <4> QED
        BY <4>1, TotalOfNone, Limits DEF IsLicensePart
    <3> QED
      BY <1>1, <2>1, <2>2, <3>1, <3>2 DEF LicenseRead
  <2>6. SmallEnough' /\ LicenseTaken'
    BY <1>1, <2>1, <2>2 DEF VerdictInv, SmallEnough, LicenseTaken, LicenseUpTo, Licenses,
       CapturedNames, MaxCapture, Passing, Running
  <2> QED
    BY <2>1, <2>3, <2>4, <2>5, <2>6 DEF VerdictInv, RefusedForCause, AcceptedWhole
<1> QED
  BY <1>2, <1>3

LEMMA DataVerdict ==
    ASSUME Inv, VerdictInv, Data
    PROVE  VerdictInv'
<1> DEFINE text == Current.pieces
           piece == text[position + 1]
<1>1. /\ stage = "reading" /\ fileCount \in 1..Len(archive.entries)
      /\ text \in Seq(Nat) /\ position \in 0..Len(text) /\ position < Len(text)
      /\ Len(text) \in Nat /\ piece \in Nat
  <2>1. fileCount \in 1..Len(archive.entries)
    BY EntriesType DEF Data, Inv, ReadSoFar
  <2>2. text \in Seq(Nat)
    BY <2>1, EntriesType DEF Current, Inv
  <2> QED
    BY <2>1, <2>2 DEF Data, Inv, TypeOK
<1>2. UNCHANGED <<archive, fileCount, totalSize, branch, licenseText>> /\ position' = position + 1
  BY DEF Data
<1>3. Current' = Current /\ MaxCapture' = MaxCapture /\ MaxCapture \in Nat
  BY <1>2, InspectorType DEF Current, MaxCapture, Inv
<1>4. /\ RunningTotals(text)[position + 1] = RunningTotals(text)[position] + piece
      /\ RunningTotals(text)[position + 1] \in Nat
  <2>1. position + 1 \in 0..Len(text)
    BY <1>1
  <2> QED
    BY <1>1, <2>1, RunningTotalsEquations, RunningTotalsType
<1> HIDE DEF text, piece
<1>5. CASE branch = "license"
  <2>1. /\ captured' = captured + piece /\ stage' = stage
        /\ pieces' = IF captured + piece <= MaxLicense THEN Append(pieces, piece) ELSE pieces
    BY <1>5 DEF Data, text, piece
  <2>2. captured = RunningTotals(text)[position]
    BY <1>1, <1>5 DEF VerdictInv, CaptureCounted, text
  <2>3. IsLicensePart(pieces, text, position)
    BY <1>1, <1>5 DEF VerdictInv, LicenseRead, text
  <2>4. IsLicensePart(pieces', text, position + 1)
    <3>1. CASE captured + piece <= MaxLicense
      BY <1>1, <2>1, <2>2, <2>3, <3>1, LicensePartNext DEF piece
    <3>2. CASE captured + piece > MaxLicense
      <4>1. ~(captured + piece <= MaxLicense)
        BY <1>4, <2>2, <3>2, Limits
      <4> QED
        BY <1>1, <2>1, <2>2, <2>3, <3>2, <4>1, LicensePartNext DEF piece
    <3> QED
      BY <1>4, <2>2, <3>1, <3>2, Limits
  <2>5. CaptureCounted' /\ LicenseRead'
    BY <1>1, <1>2, <1>3, <1>4, <1>5, <2>1, <2>2, <2>4 DEF VerdictInv, CaptureCounted, LicenseRead,
       text
  <2>6. Counted' /\ SmallEnough' /\ LicenseTaken'
    BY <1>2, <2>1 DEF VerdictInv, Counted, SmallEnough, LicenseTaken, LicenseUpTo, Licenses,
       CapturedNames, MaxCapture, Ended, Passing
  <2> QED
    BY <1>1, <2>1, <2>5, <2>6 DEF VerdictInv, RefusedForCause, AcceptedWhole
<1>6. CASE branch = "capture" /\ captured + piece > MaxCapture
  <2>1. stage' = "refused"
    BY <1>6 DEF Data, text, piece
  <2>2. Total(text) > MaxCapture
    <3>1. RunningTotals(text)[position + 1] > MaxCapture
      BY <1>1, <1>4, <1>6 DEF VerdictInv, CaptureCounted, text
    <3>2. RunningTotals(text)[position + 1] <= Total(text)
      BY <1>1, RunningTotalsGrow DEF Total
    <3> QED
      BY <1>1, <1>3, <1>4, <3>1, <3>2, TotalType
  <2>3. Current.name \in CapturedNames
    BY <1>1, <1>6 DEF Inv, ReadSoFar
  <2>4. ~WithinLimits(archive)
    <3>1. DOMAIN archive.entries = 1..Len(archive.entries)
      BY EntriesType DEF Inv
    <3>2. ~(Total(text) <= MaxCapture)
      BY <1>1, <1>3, <2>2, TotalType
    <3> QED
      BY <1>1, <2>3, <3>1, <3>2 DEF WithinLimits, Current, text
  <2>5. ~WithinLimits(archive)'
    BY <1>2, <2>4 DEF WithinLimits, Acceptable, CapturedNames, MaxCapture
  <2> QED
    BY <2>1, <2>5 DEF VerdictInv, Counted, CaptureCounted, LicenseRead, SmallEnough,
       LicenseTaken, RefusedForCause, AcceptedWhole, Passing, Running
<1>7. CASE \/ branch = "capture" /\ ~(captured + piece > MaxCapture)
           \/ branch = "skip"
  <2>1. /\ stage' = stage
        /\ captured' = IF branch = "skip" THEN captured ELSE captured + piece
    BY <1>7 DEF Data, text, piece
  <2>2. CaptureCounted'
    <3>1. CASE branch = "skip"
      BY <1>2, <3>1 DEF CaptureCounted
    <3>2. CASE branch = "capture"
      <4>1. captured' = RunningTotals(text)[position + 1]
        BY <1>1, <1>4, <2>1, <3>2 DEF VerdictInv, CaptureCounted, text
      <4>2. captured' <= MaxCapture
        BY <1>3, <1>4, <1>7, <2>1, <3>2, <4>1
      <4> QED
        BY <1>2, <1>3, <4>1, <4>2 DEF CaptureCounted, text
    <3> QED
      BY <1>7, <3>1, <3>2
  <2>3. LicenseRead'
    BY <1>1, <1>2, <1>3, <1>7 DEF VerdictInv, LicenseRead
  <2>4. Counted' /\ SmallEnough' /\ LicenseTaken'
    BY <1>2, <2>1 DEF VerdictInv, Counted, SmallEnough, LicenseTaken, LicenseUpTo, Licenses,
       CapturedNames, MaxCapture, Ended, Passing
  <2> QED
    BY <1>1, <2>1, <2>2, <2>3, <2>4 DEF VerdictInv, RefusedForCause, AcceptedWhole
<1> QED
  BY <1>5, <1>6, <1>7 DEF Inv, TypeOK

LEMMA EndVerdict ==
    ASSUME Inv, VerdictInv, End
    PROVE  VerdictInv'
<1> DEFINE n == fileCount - 1
           e == archive.entries[fileCount]
<1>1. /\ stage = "reading" /\ stage' = "between" /\ position = Len(e.pieces)
      /\ UNCHANGED <<archive, fileCount, totalSize, entryVars>>
      /\ fileCount \in 1..Len(archive.entries) /\ n \in Nat /\ n + 1 = fileCount
      /\ Current = e /\ e.pieces \in Seq(Nat)
  <2>1. fileCount \in 1..Len(archive.entries)
    BY EntriesType DEF End, Inv, ReadSoFar
  <2>2. e.pieces \in Seq(Nat) /\ Len(archive.entries) \in Nat
    BY <2>1, EntriesType DEF Inv
  <2> QED
    BY <2>1, <2>2 DEF End, Current
<1>2. Ended = n /\ Ended' = fileCount
  BY <1>1 DEF Ended
<1>3. SmallEnough'
  <2>1. e.name \in CapturedNames => Total(e.pieces) <= MaxCapture
    BY <1>1 DEF Inv, ReadSoFar, VerdictInv, CaptureCounted, Total
  <2>2. \A i \in 1..n : archive.entries[i].name \in CapturedNames =>
            Total(archive.entries[i].pieces) <= MaxCapture
    BY <1>1, <1>2 DEF VerdictInv, SmallEnough, Passing, Running
  <2>3. \A i \in 1..fileCount : i = fileCount \/ i \in 1..n
    BY <1>1
  <2> QED
    BY <1>1, <1>2, <2>1, <2>2, <2>3 DEF SmallEnough, CapturedNames, MaxCapture
<1>4. LicenseTaken'
  <2>1. licenseText = LicenseUpTo(n)
    BY <1>1, <1>2 DEF VerdictInv, LicenseTaken, Passing, Running
  <2>2. branch = "license" <=> e.name \in LicenseNames /\ licenseText = {}
    BY <1>1 DEF VerdictInv, LicenseRead
  <2>3. branch = "license" => pieces = LicensePart(e.pieces)
    <3>1. branch = "license" => IsLicensePart(pieces, e.pieces, Len(e.pieces))
      BY <1>1 DEF VerdictInv, LicenseRead
    <3> QED
      BY <1>1, <3>1, LicensePartIs
  <2>4. licenseText' = LicenseUpTo(fileCount)
    <3>1. licenseText' = IF branch = "license" THEN {pieces} ELSE licenseText
      BY DEF End
    <3>2. n + 1 <= Len(archive.entries)
      BY <1>1
    <3> HIDE DEF n
    <3>3. LicenseUpTo(n + 1) = IF archive.entries[n + 1].name \in LicenseNames /\ LicenseUpTo(n) = {}
                               THEN {LicensePart(archive.entries[n + 1].pieces)} ELSE LicenseUpTo(n)
      BY <1>1, <3>2, LicenseUpToNext DEF Inv
    <3> QED
      BY <1>1, <2>1, <2>2, <2>3, <3>1, <3>3
  <2> QED
    BY <1>1, <1>2, <2>4 DEF LicenseTaken, LicenseUpTo, Licenses
<1>5. Counted'
  BY <1>1 DEF VerdictInv, Counted, Passing, Running
<1> QED
  BY <1>1, <1>3, <1>4, <1>5 DEF VerdictInv, CaptureCounted, LicenseRead, RefusedForCause,
     AcceptedWhole

LEMMA StopVerdict ==
    ASSUME Inv, VerdictInv, Finish \/ Break \/ Error \/ TimerFires \/ UNCHANGED vars
    PROVE  VerdictInv'
<1>1. UNCHANGED <<archive, fileCount, totalSize, entryVars, licenseText, files, tally>>
  BY DEF Finish, Break, Error, TimerFires, vars
<1>2. /\ stage' = "reading" => stage = "reading"
      /\ Passing' => Passing /\ Ended' = Ended
      /\ stage' = "accepted" => archive.intact
      /\ stage' \in {"refused", "rejected"} => stage \in {"refused", "rejected"} \/ ~archive.intact
  BY DEF Finish, Break, Error, TimerFires, vars, VerdictInv, AcceptedWhole, Passing, Ended, Running,
     Destroyed
<1>3. Counted' /\ SmallEnough' /\ LicenseTaken'
  BY <1>1, <1>2 DEF VerdictInv, Counted, SmallEnough, LicenseTaken, LicenseUpTo, Licenses,
     CapturedNames, MaxCapture
<1>4. CaptureCounted' /\ LicenseRead'
  BY <1>1, <1>2 DEF VerdictInv, CaptureCounted, LicenseRead, Current, MaxCapture, entryVars
<1>5. RefusedForCause'
  <2>1. ~archive.intact => ~WithinLimits(archive)
    BY DEF WithinLimits
  <2> QED
    BY <1>1, <1>2, <2>1 DEF VerdictInv, RefusedForCause, WithinLimits, Acceptable, CapturedNames,
       MaxCapture
<1>6. AcceptedWhole'
  BY <1>1, <1>2 DEF AcceptedWhole
<1> QED
  BY <1>3, <1>4, <1>5, <1>6 DEF VerdictInv

LEMMA VerdictInvariance == Spec => []VerdictInv
<1>1. Init => VerdictInv
  BY InitInv, InitVerdict DEF Inv
<1>2. Inv /\ VerdictInv /\ [Next]_vars => VerdictInv'
  BY NextEntryVerdict, DataVerdict, EndVerdict, StopVerdict DEF Next, StreamStep
<1> QED
  BY <1>1, <1>2, Invariance, PTL DEF Spec

(* An archive is accepted only if it is within all limits as a whole, and    *)
(* refused only if it is not: the running checks neither miss nor overstate. *)
THEOREM ExactVerdict == Spec => []VerdictIsExact
<1>1. Inv /\ VerdictInv => VerdictIsExact
  <2> SUFFICES ASSUME Inv, VerdictInv, stage = "accepted"
               PROVE  WithinLimits(archive)
    BY DEF VerdictInv, RefusedForCause, VerdictIsExact
  <2>1. /\ archive.intact
        /\ fileCount = Len(archive.entries) /\ Ended = fileCount
        /\ DOMAIN archive.entries = 1..Len(archive.entries)
    BY EntriesType DEF Inv, VerdictInv, AcceptedWhole, Complete, Ended
  <2>2. Len(archive.entries) <= MaxFiles
    BY <2>1 DEF Inv, Checked
  <2>3. Total(Sizes(archive.entries)) <= MaxTotalSize
    BY <2>1, SizesType DEF Inv, Checked, VerdictInv, Counted, Passing, Total
  <2>4. \A i \in DOMAIN archive.entries :
          /\ Acceptable(archive.entries[i])
          /\ archive.entries[i].size <= MaxFileSize
          /\ archive.entries[i].name \in CapturedNames =>
                Total(archive.entries[i].pieces) <= MaxCapture
    BY <2>1 DEF Inv, Checked, VerdictInv, SmallEnough, Passing
  <2> QED
    BY <2>1, <2>2, <2>3, <2>4 DEF WithinLimits
<1> QED
  BY <1>1, Invariance, VerdictInvariance, PTL

(* The license text that is rated is the first license's, cut at the cap. *)
THEOREM FirstLicense == Spec => []LicenseIsTheFirst
<1>1. Inv /\ VerdictInv => LicenseIsTheFirst
  <2> SUFFICES ASSUME Inv, VerdictInv, stage = "accepted"
               PROVE  licenseText = IF Licenses = {} THEN {}
                                    ELSE {LicensePart(archive.entries[Min(Licenses)].pieces)}
    BY DEF LicenseIsTheFirst
  <2>1. Ended = Len(archive.entries)
    BY DEF Inv, Complete, Ended
  <2>2. Licenses \cap 1..Ended = Licenses
    BY <2>1, EntriesType DEF Inv, Licenses
  <2> QED
    BY <2>2 DEF VerdictInv, LicenseTaken, LicenseUpTo, Passing
<1> QED
  BY <1>1, Invariance, VerdictInvariance, PTL
=============================================================================
