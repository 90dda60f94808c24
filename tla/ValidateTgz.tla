----------------------------- MODULE ValidateTgz -----------------------------
(***************************************************************************)
(* The one pass over an uploaded archive (src/rules/validateTgz.ts, with   *)
(* the inspectors of uefnRules.ts and robloxRules.ts): callbacks for each  *)
(* entry, its data and its end, for the end or the failure of the stream,  *)
(* and for a timer that the first entry starts.                            *)
(*                                                                         *)
(* tar-stream is not in this repository: it delivers one entry at a time,  *)
(* its data in pieces and then its end, and goes on when next() is called. *)
(* destroy() stops deliveries and emits one error event a little later.    *)
(* Every call of destroy() and next() in the code is a change of stage.    *)
(***************************************************************************)
EXTENDS Integers, SequencesExt, Totals, TarEntries

CONSTANTS
    Names,
    LicenseNames,     \* top-level LICENSE, LICENSE.txt or LICENSE.md, in any case
    Platforms,        \* of the manifest an archive is uploaded with
    Inspector,        \* each platform's TgzEntryInspector: [allowed, captured, cap, tallied]
    Archives,         \* [platform, entries, intact]: a broken one fails to unpack
    MaxFiles, MaxTotalSize, MaxFileSize,
    MaxLicense        \* MAX_CAPTURED_LICENSE_BYTES

(* allowed: the names and types inspectName lets pass; captured and cap:    *)
(* shouldCapture or shouldCaptureBinary, with the limit on a captured file, *)
(* "disjoint from the license branch"; tallied: those whose size onEntry    *)
(* adds up.                                                                 *)
ASSUME InspectorAssumption ==
    /\ LicenseNames \subseteq Names
    /\ Inspector \in [Platforms -> [allowed : SUBSET (Names \X Types),
                                   captured : SUBSET (Names \ LicenseNames), cap : Nat,
                                   tallied : SUBSET (Names \X Types)]]

(* safePath: what the checks for traversal and depth say of the name.      *)
(* pieces: the sizes of the pieces the content arrives in; they stand for  *)
(* the content itself.                                                     *)
Entry == [name : Names, type : Types, safePath : BOOLEAN, size : Nat, pieces : Seq(Nat)]

ASSUME ArchivesAssumption ==
    \A a \in Archives :
        a.platform \in Platforms /\ a.entries \in Seq(Entry) /\ a.intact \in BOOLEAN

ASSUME LimitsAssumption == {MaxFiles, MaxTotalSize, MaxFileSize, MaxLicense} \subseteq Nat

VARIABLES
    archive,
    stage,        \* between entries, reading one, destroyed, or settled
    fileCount,
    totalSize,
    branch,       \* what the current entry's listeners do with its data
    position,     \* pieces of the current entry delivered
    captured,     \* bytes of the current entry counted by its listener
    pieces,       \* pieces of the current entry kept by its listener
    licenseText,  \* the captured license text: a set of at most one
    files,        \* the captured files: set of [name, content], one per name
    tally,        \* onEntry's sum of sizes: luauSourceBytes
    timer         \* "none", "pending" or "fired"

entryVars == <<branch, position, captured, pieces>>
vars == <<archive, stage, fileCount, totalSize, entryVars, licenseText, files, tally, timer>>

Running == {"between", "reading"}

(* destroy() was called, by a failed check or by the timer. *)
Destroyed == {"refused", "timedOut"}

Settled == {"accepted", "rejected", "expired"}

Init ==
    /\ archive \in Archives
    /\ stage = "between"
    /\ fileCount = 0
    /\ totalSize = 0
    /\ branch = "skip"
    /\ position = 0
    /\ captured = 0
    /\ pieces = <<>>
    /\ licenseText = {}
    /\ files = {}
    /\ tally = 0
    /\ timer = "none"

-----------------------------------------------------------------------------
Current == archive.entries[fileCount]

CapturedNames == Inspector[archive.platform].captured

MaxCapture == Inspector[archive.platform].cap

Acceptable(e) == e.safePath /\ <<e.name, e.type>> \in Inspector[archive.platform].allowed

(* Mutant: the running total forgets the entry at hand. *)
HeaderRefusedLate(e, count, total) ==
    \/ count > MaxFiles
    \/ ~Acceptable(e)
    \/ e.size > MaxFileSize
    \/ total - e.size > MaxTotalSize

(* The checks on an entry's header, given the entries that came before it. *)
HeaderRefused(e, count, total) ==
    \/ count > MaxFiles
    \/ ~Acceptable(e)
    \/ e.size > MaxFileSize
    \/ total > MaxTotalSize

(* Mutant: a later license entry replaces the captured text. *)
LastLicense(e) ==
    IF e.name \in LicenseNames THEN "license"
    ELSE IF e.name \in CapturedNames THEN "capture"
    ELSE "skip"

(* Which listeners an entry gets; the first license entry is captured. *)
BranchOf(e) ==
    IF e.name \in LicenseNames /\ licenseText = {} THEN "license"
    ELSE IF e.name \in CapturedNames THEN "capture"
    ELSE "skip"

(* The first entry starts the timer.  A failed check leaves the total as it  *)
(* was: nothing reads it any more.                                           *)
NextEntry ==
    LET e == archive.entries[fileCount + 1]
        total == totalSize + e.size
    IN  /\ stage = "between"
        /\ fileCount < Len(archive.entries)
        /\ timer' = IF timer = "none" THEN "pending" ELSE timer
        /\ fileCount' = fileCount + 1
        /\ \/ /\ HeaderRefused(e, fileCount + 1, total)
              /\ stage' = "refused"
              /\ UNCHANGED <<totalSize, tally, entryVars>>
           \/ /\ ~HeaderRefused(e, fileCount + 1, total)
              /\ stage' = "reading"
              /\ totalSize' = total
              /\ tally' = IF <<e.name, e.type>> \in Inspector[archive.platform].tallied
                          THEN tally + e.size ELSE tally
              /\ branch' = BranchOf(e)
              /\ position' = 0
              /\ captured' = 0
              /\ pieces' = <<>>
        /\ UNCHANGED <<archive, licenseText, files>>

(* Mutant: a captured file past the cap is cut off, as a license is. *)
DataTruncates ==
    LET piece == Current.pieces[position + 1]
        count == captured + piece
    IN  /\ stage = "reading"
        /\ position < Len(Current.pieces)
        /\ position' = position + 1
        /\ captured' = count
        /\ pieces' = IF count <= MaxCapture THEN Append(pieces, piece) ELSE pieces
        /\ UNCHANGED <<archive, stage, fileCount, totalSize, branch, licenseText, files, tally, timer>>

(* The license listener drops what goes past its cap, the capture listener *)
(* fails the archive; the rest is resumed and dropped.                     *)
Data ==
    LET piece == Current.pieces[position + 1]
        count == captured + piece
    IN  /\ stage = "reading"
        /\ position < Len(Current.pieces)
        /\ position' = position + 1
        /\ \/ /\ branch = "license"
              /\ captured' = count
              /\ pieces' = IF count <= MaxLicense THEN Append(pieces, piece) ELSE pieces
              /\ UNCHANGED stage
           \/ /\ branch = "capture"
              /\ captured' = count
              /\ IF count > MaxCapture
                 THEN stage' = "refused" /\ UNCHANGED pieces
                 ELSE pieces' = Append(pieces, piece) /\ UNCHANGED stage
           \/ branch = "skip" /\ UNCHANGED <<captured, pieces, stage>>
        /\ UNCHANGED <<archive, fileCount, totalSize, branch, licenseText, files, tally, timer>>

(* Mutant: the license listener does not call next(). *)
EndForgetsNext ==
    /\ stage = "reading"
    /\ position = Len(Current.pieces)
    /\ stage' = IF branch = "license" THEN "waiting" ELSE "between"
    /\ UNCHANGED <<archive, fileCount, totalSize, entryVars, licenseText, files, tally, timer>>

(* The entry ends: its capture is handed over, and next() is called. *)
End ==
    /\ stage = "reading"
    /\ position = Len(Current.pieces)
    /\ stage' = "between"
    /\ licenseText' = IF branch = "license" THEN {pieces} ELSE licenseText
    /\ files' = IF branch = "capture"
                THEN {f \in files : f.name # Current.name}
                        \cup {[name |-> Current.name, content |-> pieces]}
                ELSE files
    /\ UNCHANGED <<archive, fileCount, totalSize, entryVars, tally, timer>>

(* Mutant: the timer is left running when the archive is done. *)
FinishKeepsTimer ==
    /\ stage = "between"
    /\ fileCount = Len(archive.entries)
    /\ archive.intact
    /\ stage' = "accepted"
    /\ UNCHANGED <<archive, fileCount, totalSize, entryVars, licenseText, files, tally, timer>>

Finish ==
    /\ stage = "between"
    /\ fileCount = Len(archive.entries)
    /\ archive.intact
    /\ stage' = "accepted"
    /\ timer' = "none"
    /\ UNCHANGED <<archive, fileCount, totalSize, entryVars, licenseText, files, tally>>

(* A broken archive fails wherever the break is. *)
Break ==
    /\ stage \in Running
    /\ ~archive.intact
    /\ stage' = "refused"
    /\ UNCHANGED <<archive, fileCount, totalSize, entryVars, licenseText, files, tally, timer>>

(* Mutant: the timer settles the outcome whatever happened before. *)
TimerOverrules ==
    /\ timer = "pending"
    /\ timer' = "fired"
    /\ stage' = "timedOut"
    /\ UNCHANGED <<archive, fileCount, totalSize, entryVars, licenseText, files, tally>>

(* destroy() of a destroyed stream does nothing. *)
TimerFires ==
    /\ timer = "pending"
    /\ timer' = "fired"
    /\ stage' = IF stage \in Running THEN "timedOut" ELSE stage
    /\ UNCHANGED <<archive, fileCount, totalSize, entryVars, licenseText, files, tally>>

(* The error event clears the timer, and the pipeline rejects. *)
Error ==
    /\ stage \in Destroyed
    /\ stage' = IF stage = "refused" THEN "rejected" ELSE "expired"
    /\ timer' = "none"
    /\ UNCHANGED <<archive, fileCount, totalSize, entryVars, licenseText, files, tally>>

StreamStep == NextEntry \/ Data \/ End \/ Finish \/ Break \/ Error

Next == StreamStep \/ TimerFires

Spec == Init /\ [][Next]_vars

(* The event loop goes on delivering what the streams have; it need not get *)
(* to the timer.                                                           *)
FairSpec == Spec /\ WF_vars(StreamStep)

-----------------------------------------------------------------------------
TypeOK ==
    /\ archive \in Archives
    /\ stage \in Running \cup Destroyed \cup Settled
    /\ fileCount \in 0..Len(archive.entries)
    /\ totalSize \in Nat
    /\ branch \in {"license", "capture", "skip"}
    /\ position \in Nat
    /\ captured \in Nat
    /\ pieces \in Seq(Nat)
    /\ licenseText \subseteq Seq(Nat)
    /\ \A f \in files : f.name \in CapturedNames /\ f.content \in Seq(Nat)
    /\ tally \in Nat
    /\ timer \in {"none", "pending", "fired"}

Sizes(entries) == [i \in DOMAIN entries |-> entries[i].size]

(* What the options promise of an archive, said of the archive as a whole. *)
WithinLimits(a) ==
    /\ a.intact
    /\ Len(a.entries) <= MaxFiles
    /\ Total(Sizes(a.entries)) <= MaxTotalSize
    /\ \A i \in DOMAIN a.entries :
        LET e == a.entries[i]
        IN  /\ Acceptable(e)
            /\ e.size <= MaxFileSize
            /\ e.name \in CapturedNames => Total(e.pieces) <= MaxCapture

(* An archive is accepted only if it is whole and within all limits, and it  *)
(* is rejected only if it is not; the timer alone may refuse a good archive. *)
VerdictIsExact ==
    /\ stage = "accepted" => WithinLimits(archive)
    /\ stage = "rejected" => ~WithinLimits(archive)

(* What the scan after the pass reads is what an extraction of the accepted *)
(* archive leaves behind: of each captured name, the last entry's content,  *)
(* whole ("a truncated file could hide content past the cap").              *)
ScannedIsExtracted ==
    stage = "accepted" =>
        files = {[name |-> archive.entries[i].name, content |-> archive.entries[i].pieces] :
                    i \in {j \in DOMAIN archive.entries :
                            /\ archive.entries[j].name \in CapturedNames
                            /\ \A k \in j + 1..Len(archive.entries) :
                                archive.entries[k].name # archive.entries[j].name}}

(* The longest part of a license the cap lets through, piece by piece. *)
LicensePart(text) ==
    CHOOSE part \in {SubSeq(text, 1, n) : n \in 0..Len(text)} :
        /\ Total(part) <= MaxLicense
        /\ \A n \in Len(part) + 1..Len(text) : Total(SubSeq(text, 1, n)) > MaxLicense

Licenses == {i \in DOMAIN archive.entries : archive.entries[i].name \in LicenseNames}

(* The license text that is rated is that of the first top-level license  *)
(* entry, cut at the cap, and none if there is no such entry.             *)
LicenseIsTheFirst ==
    stage = "accepted" =>
        licenseText = IF Licenses = {} THEN {}
                      ELSE {LicensePart(archive.entries[Min(Licenses)].pieces)}

(* No timer outlives the validation: the one the first entry started cannot *)
(* fire, or keep the process busy, after the promise settled.               *)
TimerCleared == stage \in Settled => timer = "none"

(* One outcome: neither the timer nor a late failure changes it. *)
OutcomeIsFinal ==
    [][/\ stage \in Settled => stage' = stage
       /\ stage = "refused" => stage' \in {"refused", "rejected"}]_vars

(* Every listener calls next() or destroy(): the validation settles even if *)
(* the timer never fires.                                                   *)
Settles == <>(stage \in Settled)

(* validateTgz.ts: "the top-level LICENSE file's text is captured here".    *)
(* A file is captured although a directory of such a name comes before it.  *)
LicenseIsAFile ==
    LET licenseFiles == {i \in Licenses : archive.entries[i].type \in RegularTypes}
    IN  stage = "accepted" /\ licenseFiles # {} =>
            \E i \in licenseFiles : licenseText = {LicensePart(archive.entries[i].pieces)}
=============================================================================
