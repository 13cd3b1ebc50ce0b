-------------------------- MODULE OnboardingProofs --------------------------
(***************************************************************************)
(* Theorems of Onboarding, for any requests, values, uploads and           *)
(* corrections: no save is lost but to an overlapping one, and row,        *)
(* policies, storage and links of a registration agree.                    *)
(*                                                                         *)
(* A request acts on what it read or stored several steps before.  The     *)
(* invariant has one part for each kind: a save that nobody overtook holds *)
(* the row's own values beside those posted (DataInv); a recorded policy   *)
(* is one of those uploaded (PolicyInv); an object without a row is in the *)
(* hands of its upload (StorageInv); a link that is not mailed is in the   *)
(* hands of the request for the correction (LinksInv).  Where no policy is *)
(* required no request holds an insurance or an upload (AskedInv), which   *)
(* is an invariant of its own.                                             *)
(***************************************************************************)
EXTENDS Onboarding, FiniteSetTheorems, TLAPS

USE OnboardingAssumption

RequestType == [step : Steps, row : Rows, posted : SUBSET Sections, stale : BOOLEAN,
                document : Documents \cup {Nothing}, link : {0} \cup Corrections]

Uploading == {"put", "add", "drop"}

\* A save holds values for what was posted, and for the rest those of the row
\* unless it is stale; a submission has seen the row complete.
SaveHolds(r) ==
    At(r, "save") => /\ \A s \in requests[r].posted \cap Asked : requests[r].row[s] # Nothing
                     /\ requests[r].stale \/ \A s \in Sections \ requests[r].posted :
                                                   requests[r].row[s] = row[s]
DataInv ==
    /\ SavesAreKept /\ SubmittedIsComplete
    /\ \A r \in Requests : SaveHolds(r) /\ (At(r, "submit") => overtaken \/ Complete(row))

\* Nobody holds what is not asked for.
AskedInv ==
    ~required => /\ row["insurance"] = Nothing /\ Recorded = {}
                 /\ \A r \in Requests : /\ requests[r].row["insurance"] = Nothing
                                        /\ requests[r].step \notin Uploading

Current == {d \in Documents : documents[d] = "uploaded"}
PolicyInv == IF Recorded = {} \/ removed THEN Current = {} ELSE \E d \in Recorded : Current = {d}

\* An upload at work has an object of its own, recorded by nobody else.
UploadHolds(r) ==
    /\ requests[r].document # Nothing <=> requests[r].step \in Uploading
    /\ requests[r].step \in {"put", "add"} => documents[requests[r].document] = "none"
    /\ At(r, "add") => requests[r].document \in stored
    /\ At(r, "drop") => cut \/ documents[requests[r].document] = "none"
OwnDocuments ==
    \A r, q \in Requests :
        requests[r].document # Nothing /\ requests[q].document = requests[r].document => q = r
StorageInv ==
    /\ \A r \in Requests : UploadHolds(r)
    /\ OwnDocuments
    /\ ~cut => /\ Recorded \subseteq stored
               /\ \A d \in stored \ Recorded : \E r \in Requests : requests[r].document = d

\* A correction's link is mailed once, by the request that asked for it.
Linking == {"link", "mail"}
LinkHolds(r) ==
    /\ requests[r].step \in Linking => requests[r].link \in (1 .. asked) \ mailed
    /\ At(r, "check") => requests[r].link \in mailed /\ links[requests[r].link] = "used"
OwnLinks ==
    \A r, q \in Requests :
        requests[r].step \in Linking /\ requests[q].step \in Linking
            /\ requests[q].link = requests[r].link => q = r
LinksInv ==
    /\ mailed \subseteq 1 .. asked
    /\ \A r \in Requests : LinkHolds(r)
    /\ OwnLinks
    /\ ~cut => \A c \in 1 .. asked : c \in mailed \/ \E r \in Requests :
                                         requests[r].step \in Linking /\ requests[r].link = c

IInv == TypeOK /\ DataInv /\ PolicyInv /\ StorageInv /\ LinksInv

----------------------------------------------------------------------------
(* What the invariant gives *)

LEMMA PolicyIsSound == ASSUME TypeOK, PolicyInv PROVE OneCurrentPolicy
<1>1. Current = {} => Cardinality(Current) = 0
  BY FS_EmptySet
<1>2. \A d : Current = {d} => Cardinality(Current) = 1
  BY FS_Singleton
<1> HIDE DEF Current
<1>3. Cardinality(Current) = IF Recorded = {} \/ removed THEN 0 ELSE 1
  BY <1>1, <1>2 DEF PolicyInv
<1> QED
  BY <1>3 DEF OneCurrentPolicy, Current

LEMMA StorageIsSound == ASSUME TypeOK, StorageInv PROVE StorageMatches
<1>1. ASSUME ~cut, \A r \in Requests : At(r, "idle") PROVE stored \subseteq Recorded
  <2>1. \A r \in Requests : requests[r].document = Nothing
    BY <1>1 DEF StorageInv, UploadHolds, At, Uploading
  <2>2. Nothing \notin stored
    BY DEF TypeOK
  <2> QED
    BY <1>1, <2>1, <2>2 DEF StorageInv
<1> QED
  BY <1>1 DEF StorageMatches, StorageInv

LEMMA LinksAreSound == ASSUME TypeOK, LinksInv PROVE LinksSound
<1>1. ASSUME ~cut, \A r \in Requests : At(r, "idle") PROVE mailed = 1 .. asked
  <2>1. \A r \in Requests : requests[r].step \notin Linking
    BY <1>1 DEF At, Linking
  <2> QED
    BY <1>1, <2>1 DEF LinksInv
<1>2. \A r \in Requests : At(r, "check") => links[requests[r].link] = "used"
  BY DEF LinksInv, LinkHolds
<1> QED
  BY <1>1, <1>2 DEF LinksSound

LEMMA IInvIsSound == IInv /\ AskedInv => SavesAreKept /\ RegistrationSound
BY PolicyIsSound, StorageIsSound, LinksAreSound
   DEF IInv, DataInv, AskedInv, NothingUnasked, RegistrationSound

----------------------------------------------------------------------------
(* The initial states *)

LEMMA IdleType == Idle \in RequestType
BY DEF Idle, RequestType, Steps, Rows, Blank

LEMMA InitIInv == Init => IInv
<1> SUFFICES ASSUME Init PROVE IInv
  OBVIOUS
<1>1. /\ requests \in [Requests -> RequestType]
      /\ \A r \in Requests : requests[r].step = "idle" /\ requests[r].document = Nothing
  BY IdleType DEF Init, Idle
<1>2. TypeOK
  <2>1. row \in Rows
    BY DEF Init, Prefilled, Blank, Rows
  <2>2. status \in Editable /\ asked \in 0 .. MaxCorrections
    BY DEF Init, Editable
  <2> QED
    BY <1>1, <2>1, <2>2 DEF Init, TypeOK, RequestType
<1>3. DataInv
  BY <1>1 DEF Init, DataInv, SavesAreKept, SubmittedIsComplete, Locked, SaveHolds, At
<1>4. PolicyInv
  BY DEF Init, PolicyInv, Current, Recorded
<1>5. StorageInv
  BY <1>1 DEF Init, StorageInv, UploadHolds, OwnDocuments, Uploading, At, Recorded
<1>6. LinksInv
  BY <1>1 DEF Init, LinksInv, LinkHolds, OwnLinks, Linking, At
<1> QED
  BY <1>2, <1>3, <1>4, <1>5, <1>6 DEF IInv

----------------------------------------------------------------------------
(* What a step of one request leaves alone *)

\* Request r is x from now on, the others are as they were.
Becomes(r, x) ==
    /\ requests' \in [Requests -> RequestType]
    /\ requests'[r] = x
    /\ \A q \in Requests \ {r} : requests'[q] = requests[q]

LEMMA Ends == ASSUME TypeOK, NEW r \in Requests, End(r) PROVE Becomes(r, Idle)
BY IdleType DEF TypeOK, End, Becomes, RequestType

LEMMA GoesOn ==
  ASSUME TypeOK, NEW r \in Requests, NEW step \in Steps, Go(r, step)
  PROVE  Becomes(r, [requests[r] EXCEPT !.step = step])
BY DEF TypeOK, Go, Becomes, RequestType

LEMMA Begins ==
  ASSUME TypeOK, NEW r \in Requests, NEW x \in RequestType, Begin(r, x)
  PROVE  Becomes(r, x) /\ requests[r].step = "idle"
BY DEF TypeOK, Begin, At, Becomes, RequestType

LEMMA TypeFrame ==
  ASSUME TypeOK, NEW r \in Requests, NEW x, Becomes(r, x),
         status' \in Editable \cup Locked,
         UNCHANGED <<required, row, saved, overtaken>>,
         removed' \in BOOLEAN, session' \in BOOLEAN, cut' \in BOOLEAN,
         documents' \in [Documents -> {"none", "uploaded", "superseded", "deleted"}],
         stored' \subseteq Documents,
         links' \in [Corrections -> {"none", "live", "used", "revoked"}],
         asked' \in 0 .. MaxCorrections, mailed' \subseteq Corrections
  PROVE  TypeOK'
BY DEF TypeOK, Becomes, RequestType

LEMMA DataFrame ==
  ASSUME TypeOK, DataInv, NEW r \in Requests, NEW x, Becomes(r, x),
         UNCHANGED <<required, row, saved, overtaken>>,
         status' \in Locked => status \in Locked
             \/ ((required => row["insurance"] # Nothing) /\ (overtaken \/ Complete(row))),
         x.step # "save",
         x.step = "submit" => overtaken \/ Complete(row)
  PROVE  DataInv'
<1>1. SavesAreKept' /\ SubmittedIsComplete'
  BY DEF DataInv, SavesAreKept, SubmittedIsComplete, Complete, Asked
<1>2. ASSUME NEW q \in Requests
      PROVE  (SaveHolds(q) /\ (At(q, "submit") => overtaken \/ Complete(row)))'
  BY <1>2 DEF DataInv, SaveHolds, At, Becomes, Complete, Asked
<1> QED
  BY <1>1, <1>2 DEF DataInv

LEMMA PolicyFrame == ASSUME PolicyInv, UNCHANGED <<documents, removed>> PROVE PolicyInv'
BY DEF PolicyInv, Current, Recorded

LEMMA StorageFrame ==
  ASSUME TypeOK, StorageInv, NEW r \in Requests, NEW x, Becomes(r, x),
         UNCHANGED <<documents, stored>>, cut => cut',
         x.document = Nothing, x.step \notin Uploading,
         requests[r].step \in Uploading => cut'
  PROVE  StorageInv'
<1>1. \A q \in Requests : UploadHolds(q)'
  BY DEF StorageInv, UploadHolds, At, Becomes, Uploading
<1>2. OwnDocuments'
  BY DEF StorageInv, OwnDocuments, Becomes
<1>3. ASSUME ~cut'
      PROVE  /\ Recorded \subseteq stored
             /\ \A d \in stored \ Recorded : \E q \in Requests : requests'[q].document = d
  <2>1. requests[r].document = Nothing
    BY <1>3 DEF StorageInv, UploadHolds
  <2>2. Nothing \notin stored
    BY DEF TypeOK
  <2> QED
    BY <1>3, <2>1, <2>2 DEF StorageInv, Becomes
<1>4. Recorded' = Recorded /\ stored' = stored
  BY DEF Recorded
<1> QED
  BY <1>1, <1>2, <1>3, <1>4 DEF StorageInv

LEMMA LinksFrame ==
  ASSUME TypeOK, LinksInv, NEW r \in Requests, NEW x, Becomes(r, x),
         UNCHANGED corrections, cut => cut',
         x.step \notin Linking \cup {"check"},
         requests[r].step \in Linking => cut'
  PROVE  LinksInv'
<1>1. \A q \in Requests : LinkHolds(q)'
  BY DEF LinksInv, LinkHolds, At, Becomes, Linking, corrections
<1>2. OwnLinks'
  BY DEF LinksInv, OwnLinks, Becomes
<1>3. ASSUME ~cut', NEW c \in 1 .. asked, c \notin mailed
      PROVE  \E q \in Requests : requests'[q].step \in Linking /\ requests'[q].link = c
  <2>1. PICK q \in Requests : requests[q].step \in Linking /\ requests[q].link = c
    BY <1>3 DEF LinksInv
  <2> QED
    BY <1>3, <2>1 DEF Becomes
<1> QED
  BY <1>1, <1>2, <1>3 DEF LinksInv, corrections

\* Most steps move their request on without touching uploads or links.
LEMMA QuietStep ==
  ASSUME IInv, NEW r \in Requests, NEW x, Becomes(r, x),
         UNCHANGED <<required, row, removed, uploads, corrections, saved, overtaken>>,
         session' \in BOOLEAN, cut' \in BOOLEAN, cut => cut',
         status' \in Editable \cup Locked,
         status' \in Locked => status \in Locked
             \/ ((required => row["insurance"] # Nothing) /\ (overtaken \/ Complete(row))),
         x.document = Nothing,
         x.step \notin Uploading \cup Linking \cup {"check", "save"},
         x.step = "submit" => overtaken \/ Complete(row),
         requests[r].step \in Uploading \cup Linking => cut'
  PROVE  IInv'
<1>1. TypeOK'
  BY TypeFrame DEF IInv, TypeOK, uploads, corrections
<1>2. DataInv'
  BY DataFrame DEF IInv
<1>3. PolicyInv' /\ StorageInv' /\ LinksInv'
  BY PolicyFrame, StorageFrame, LinksFrame DEF IInv, uploads
<1> QED
  BY <1>1, <1>2, <1>3 DEF IInv

----------------------------------------------------------------------------
(* The steps, action by action *)

LEMMA IdleQuiet == Idle.step = "idle" /\ Idle.document = Nothing
BY DEF Idle

LEMMA StatusKept ==
  ASSUME IInv, status' = status
  PROVE  status' \in Editable \cup Locked /\ (status' \in Locked => status \in Locked)
BY DEF IInv, TypeOK

LEMMA EndEarlyStep == ASSUME IInv, NEW r \in Requests, EndEarly(r) PROVE IInv'
<1>1. Becomes(r, Idle)
  BY Ends DEF IInv, EndEarly
<1>2. cut' /\ session' \in BOOLEAN
  BY DEF IInv, TypeOK, EndEarly
<1> QED
  BY <1>1, <1>2, IdleQuiet, StatusKept, QuietStep
     DEF EndEarly, Uploading, Linking

LEMMA StartSubmitStep == ASSUME IInv, NEW r \in Requests, StartSubmit(r) PROVE IInv'
<1> DEFINE x == [Idle EXCEPT !.step = "submit"]
<1>1. x \in RequestType /\ x.step = "submit" /\ x.document = Nothing
  BY DEF Idle, RequestType, Steps, Rows, Blank
<1>2. Begin(r, x) /\ Complete(row)
  BY DEF StartSubmit
<1> HIDE DEF x
<1>3. Becomes(r, x) /\ requests[r].step = "idle"
  BY <1>1, <1>2, Begins DEF IInv
<1>4. session' \in BOOLEAN /\ cut' \in BOOLEAN
  BY DEF IInv, TypeOK, StartSubmit, history
<1> QED
  BY <1>1, <1>2, <1>3, <1>4, StatusKept, QuietStep
     DEF StartSubmit, history, Uploading, Linking

LEMMA StartResumeStep == ASSUME IInv, NEW r \in Requests, StartResume(r) PROVE IInv'
<1>1. PICK step \in {"approve", "session"} : Begin(r, [Idle EXCEPT !.step = step])
  BY DEF StartResume
<1> DEFINE x == [Idle EXCEPT !.step = step]
<1>2. x \in RequestType /\ x.step = step /\ x.document = Nothing
  BY DEF Idle, RequestType, Steps, Rows, Blank
<1> HIDE DEF x
<1>3. Becomes(r, x) /\ requests[r].step = "idle"
  BY <1>1, <1>2, Begins DEF IInv, x
<1>4. session' \in BOOLEAN /\ cut' \in BOOLEAN
  BY DEF IInv, TypeOK, StartResume, history
<1> QED
  BY <1>2, <1>3, <1>4, StatusKept, QuietStep
     DEF StartResume, history, Uploading, Linking

LEMMA StartSessionStep == ASSUME IInv, NEW r \in Requests, StartSession(r) PROVE IInv'
<1>1. Becomes(r, Idle) /\ requests[r].step = "session"
  BY Ends DEF IInv, StartSession, At
<1>2. session' \in BOOLEAN /\ cut' \in BOOLEAN
  BY DEF IInv, TypeOK, StartSession, history
<1> QED
  BY <1>1, <1>2, IdleQuiet, StatusKept, QuietStep
     DEF StartSession, history, Uploading, Linking

LEMMA AutoApproveStep == ASSUME IInv, NEW r \in Requests, AutoApprove(r) PROVE IInv'
<1>1. Becomes(r, Idle) /\ requests[r].step = "approve"
  BY Ends DEF IInv, AutoApprove, At
<1>2. session' \in BOOLEAN /\ cut' \in BOOLEAN
  BY DEF IInv, TypeOK, AutoApprove, history
<1>3. /\ status' \in Editable \cup Locked
      /\ status' \in Locked => status \in Locked
  BY DEF IInv, TypeOK, AutoApprove, Locked
<1> QED
  BY <1>1, <1>2, <1>3, IdleQuiet, QuietStep
     DEF AutoApprove, history, Uploading, Linking

\* The submission finds the row complete, unless a stale save came between.
LEMMA SubmitStep == ASSUME IInv, NEW r \in Requests, Submit(r) PROVE IInv'
<1>1. PICK x : Becomes(r, x) /\ x.step \in {"idle", "approve"} /\ x.document = Nothing
  <2>1. CASE Submittable
    <3>1. Becomes(r, [requests[r] EXCEPT !.step = "approve"])
      BY <2>1, GoesOn DEF IInv, Submit, AfterSubmit, Steps
    <3>2. requests[r] \in RequestType /\ requests[r].document = Nothing
      BY DEF IInv, TypeOK, RequestType, StorageInv, UploadHolds, Submit, At, Uploading
    <3> QED
      BY <3>1, <3>2 DEF RequestType
  <2>2. CASE ~Submittable
    BY <2>2, Ends, IdleQuiet DEF IInv, Submit
  <2> QED
    BY <2>1, <2>2
<1>2. session' \in BOOLEAN /\ cut' \in BOOLEAN /\ requests[r].step = "submit"
  BY DEF IInv, TypeOK, Submit, history, At
<1>3. /\ status' \in Editable \cup Locked
      /\ status' \in Locked => status \in Locked
             \/ ((required => row["insurance"] # Nothing) /\ (overtaken \/ Complete(row)))
  BY DEF IInv, TypeOK, DataInv, Submit, Submittable, Locked
<1> QED
  BY <1>1, <1>2, <1>3, QuietStep DEF Submit, history, Uploading, Linking

LEMMA CheckCorrectionStep == ASSUME IInv, NEW r \in Requests, CheckCorrection(r) PROVE IInv'
<1>1. PICK x : Becomes(r, x) /\ x.step \in {"idle", "session"} /\ x.document = Nothing
  <2>1. CASE Go(r, "session")
    <3>1. Becomes(r, [requests[r] EXCEPT !.step = "session"])
      BY <2>1, GoesOn DEF IInv, Steps
    <3>2. requests[r] \in RequestType /\ requests[r].document = Nothing
      BY DEF IInv, TypeOK, RequestType, StorageInv, UploadHolds, CheckCorrection, At, Uploading
    <3> QED
      BY <3>1, <3>2 DEF RequestType
  <2>2. CASE End(r)
    BY <2>2, Ends, IdleQuiet DEF IInv
  <2> QED
    BY <2>1, <2>2 DEF CheckCorrection
<1>2. session' \in BOOLEAN /\ cut' \in BOOLEAN /\ requests[r].step = "check"
  BY DEF IInv, TypeOK, CheckCorrection, history, At
<1> QED
  BY <1>1, <1>2, StatusKept, QuietStep DEF CheckCorrection, history, Uploading, Linking

\* A save starts from the row as it is.
LEMMA StartSaveStep == ASSUME IInv, NEW r \in Requests, StartSave(r) PROVE IInv'
<1>1. PICK S \in SUBSET Sections, v \in Values :
        Begin(r, [Idle EXCEPT !.step = "save", !.posted = S,
                              !.row = [s \in Sections |-> IF s \in S THEN Entered(s, v) ELSE AsRead[s]]])
  BY DEF StartSave, Forms
<1> DEFINE values == [s \in Sections |-> IF s \in S THEN Entered(s, v) ELSE row[s]]
           x == [Idle EXCEPT !.step = "save", !.posted = S, !.row = values]
<1>2. values \in Rows
  BY DEF IInv, TypeOK, Rows, Entered
<1>3. /\ \A s \in S \cap Asked : values[s] # Nothing
      /\ \A s \in Sections \ S : values[s] = row[s]
  BY DEF Entered, Asked
<1> HIDE DEF values
<1>4. /\ x \in RequestType /\ x.step = "save" /\ x.posted = S /\ x.row = values
      /\ x.document = Nothing
  BY <1>2 DEF Idle, RequestType, Steps
<1>5. Begin(r, x)
  BY <1>1 DEF AsRead, values
<1> HIDE DEF x
<1>6. Becomes(r, x) /\ requests[r].step = "idle"
  BY <1>4, <1>5, Begins DEF IInv
<1>7. UNCHANGED <<status, required, row, removed, session, uploads, corrections, history>>
  BY DEF StartSave
<1>8. TypeOK'
  BY <1>6, <1>7 DEF IInv, TypeOK, RequestType, Becomes, uploads, corrections, history
<1>9. DataInv'
  <2>1. SavesAreKept' /\ SubmittedIsComplete'
    BY <1>7 DEF IInv, DataInv, SavesAreKept, SubmittedIsComplete, Complete, Asked, history
  <2>2. SaveHolds(r)' /\ ~At(r, "submit")'
    BY <1>3, <1>4, <1>6, <1>7 DEF SaveHolds, Asked, At, Becomes
  <2>3. \A q \in Requests \ {r} : (SaveHolds(q) /\ (At(q, "submit") => overtaken \/ Complete(row)))'
    BY <1>6, <1>7 DEF IInv, DataInv, SaveHolds, At, Becomes, Complete, Asked, history
  <2> QED
    BY <2>1, <2>2, <2>3 DEF DataInv
<1>10. PolicyInv' /\ StorageInv' /\ LinksInv'
  BY <1>4, <1>6, <1>7, PolicyFrame, StorageFrame, LinksFrame
     DEF IInv, uploads, history, Uploading, Linking
<1> QED
  BY <1>8, <1>9, <1>10 DEF IInv

\* What becomes stale holds nothing back: the other saves are told.
LEMMA SaveStep == ASSUME IInv, NEW r \in Requests, Save(r) PROVE IInv'
<1>1. CASE ~Savable
  <2>1. Becomes(r, Idle) /\ requests[r].step = "save"
    BY <1>1, Ends DEF IInv, Save, At
  <2>2. UNCHANGED <<status, required, row, saved, overtaken, removed, session, uploads, corrections, cut>>
    BY <1>1 DEF Save
  <2>3. session' \in BOOLEAN /\ cut' \in BOOLEAN
    BY <2>2 DEF IInv, TypeOK
  <2> QED
    BY <2>1, <2>2, <2>3, IdleQuiet, StatusKept, QuietStep DEF Uploading, Linking
<1>2. CASE Savable
  <2> DEFINE S == requests[r].posted
             values == requests[r].row
  <2>1. /\ row' = values /\ status \in Editable /\ status' = Touched
        /\ saved' = [s \in Sections |-> IF s \in S THEN values[s] ELSE saved[s]]
        /\ overtaken' = (overtaken \/ requests[r].stale)
        /\ requests' = [q \in Requests |-> IF q = r THEN Idle
                            ELSE [requests[q] EXCEPT !.stale = @ \/ requests[q].step = "save"]]
        /\ UNCHANGED <<required, removed, session, uploads, corrections, cut>>
        /\ requests[r].step = "save"
    BY <1>2 DEF Save, Savable, At
  <2>2. /\ requests[r] \in RequestType
        /\ values \in Rows /\ S \subseteq Sections /\ requests[r].stale \in BOOLEAN
        /\ row \in Rows /\ saved \in Rows /\ overtaken \in BOOLEAN
    BY DEF IInv, TypeOK, RequestType
  <2>3. /\ \A s \in S \cap Asked : values[s] # Nothing
        /\ requests[r].stale \/ \A s \in Sections \ S : values[s] = row[s]
    BY <2>1 DEF IInv, DataInv, SaveHolds, Asked, At
  <2> HIDE DEF S, values
  <2>4. saved' \in Rows /\ status' \in Editable
    BY <2>1, <2>2 DEF Rows, Touched, Editable
  <2>5. ASSUME NEW q \in Requests, q # r
        PROVE  /\ requests'[q] \in RequestType
               /\ requests'[q].step = requests[q].step
               /\ requests'[q].row = requests[q].row
               /\ requests'[q].posted = requests[q].posted
               /\ requests'[q].document = requests[q].document
               /\ requests'[q].link = requests[q].link
               /\ requests[q].step = "save" => requests'[q].stale
    <3> DEFINE b == requests[q].stale \/ requests[q].step = "save"
    <3>1. requests'[q] = [requests[q] EXCEPT !.stale = b] /\ requests[q] \in RequestType
      BY <2>1, <2>5 DEF IInv, TypeOK, RequestType
    <3>2. b \in BOOLEAN /\ (requests[q].step = "save" => b)
      OBVIOUS
    <3> HIDE DEF b
    <3> QED
      BY <3>1, <3>2 DEF RequestType
  <2>6. requests'[r] = Idle /\ requests' \in [Requests -> RequestType]
    <3>1. requests'[r] = Idle
      BY <2>1
    <3>2. \A q \in Requests : requests'[q] \in RequestType
      BY <2>5, <3>1, IdleType
    <3>3. requests' = [q \in Requests |-> requests'[q]]
      BY <2>1, Zenon
    <3> QED
      BY <3>1, <3>2, <3>3
  <2>7. TypeOK'
    <3>1. overtaken' \in BOOLEAN
      BY <2>1, <2>2
    <3> QED
      BY <2>1, <2>2, <2>4, <2>6, <3>1
         DEF IInv, TypeOK, RequestType, uploads, corrections
  <2>8. DataInv'
    <3>1. SavesAreKept'
      <4>1. CASE overtaken \/ requests[r].stale
        BY <2>1, <4>1 DEF SavesAreKept
      <4>2. CASE ~overtaken /\ ~requests[r].stale
        <5>1. row = saved
          BY <4>2 DEF IInv, DataInv, SavesAreKept
        <5>2. \A s \in Sections : saved'[s] = values[s]
          BY <2>1, <2>2, <2>3, <4>2, <5>1 DEF Rows
        <5>3. saved' = values
          BY <2>2, <2>4, <5>2 DEF Rows
        <5> QED
          BY <2>1, <5>3 DEF SavesAreKept
      <4> QED
        BY <4>1, <4>2
    <3>2. SubmittedIsComplete'
      BY <2>4 DEF SubmittedIsComplete, Locked, Editable
    <3>3. \A q \in Requests : SaveHolds(q)'
      <4>1. SaveHolds(r)'
        BY <2>6, IdleQuiet DEF SaveHolds, At
      <4>2. ASSUME NEW q \in Requests, q # r, At(q, "save")' PROVE SaveHolds(q)'
        <5>1. SaveHolds(q) /\ At(q, "save") /\ Asked' = Asked
          BY <2>1, <2>5, <4>2 DEF IInv, DataInv, At, Asked
        <5>2. \A s \in requests'[q].posted \cap Asked' : requests'[q].row[s] # Nothing
          BY <2>5, <4>2, <5>1 DEF SaveHolds
        <5> QED
          BY <2>5, <4>2, <5>1, <5>2 DEF SaveHolds, At
      <4> QED
        BY <4>1, <4>2 DEF SaveHolds
    <3>4. ASSUME NEW q \in Requests, At(q, "submit")'
          PROVE  overtaken' \/ Complete(row')
      <4>1. q # r /\ At(q, "submit")
        BY <2>5, <2>6, <3>4, IdleQuiet DEF At
      <4>2. CASE overtaken \/ requests[r].stale
        BY <2>1, <4>2
      <4>3. CASE ~overtaken /\ ~requests[r].stale
        BY <2>1, <2>3, <4>1, <4>3 DEF IInv, DataInv, Complete, Asked, Sections
      <4> QED
        BY <4>2, <4>3
    <3> QED
      BY <2>1, <3>1, <3>2, <3>3, <3>4 DEF DataInv, Complete, Asked
  <2>9. PolicyInv'
    BY <2>1, PolicyFrame DEF IInv, uploads
  <2>10. \A q \in Requests : requests'[q].document = requests[q].document
    BY <2>1, <2>5, <2>6, IdleQuiet DEF IInv, StorageInv, UploadHolds, Uploading
  <2>11. StorageInv'
    <3>1. \A q \in Requests : UploadHolds(q)'
      BY <2>1, <2>5, <2>6, IdleQuiet DEF IInv, StorageInv, UploadHolds, Uploading, At, uploads
    <3>2. OwnDocuments'
      BY <2>10 DEF IInv, StorageInv, OwnDocuments
    <3> QED
      BY <2>1, <2>10, <3>1, <3>2 DEF IInv, StorageInv, Recorded, uploads
  <2>12. LinksInv'
    <3>1. \A q \in Requests : LinkHolds(q)'
      BY <2>1, <2>5, <2>6, IdleQuiet DEF IInv, LinksInv, LinkHolds, Linking, At, corrections
    <3>2. \A q \in Requests : requests'[q].step \in Linking <=> requests[q].step \in Linking
      BY <2>1, <2>5, <2>6, IdleQuiet DEF Linking
    <3>3. \A q \in Requests : requests[q].step \in Linking => requests'[q].link = requests[q].link
      BY <2>1, <2>5 DEF Linking
    <3> QED
      BY <2>1, <3>1, <3>2, <3>3 DEF IInv, LinksInv, OwnLinks, corrections
  <2> QED
    BY <2>7, <2>8, <2>9, <2>11, <2>12 DEF IInv
<1> QED
  BY <1>1, <1>2

\* Steps of an upload leave the registration's data and links alone.
LEMMA UploadFrame ==
  ASSUME IInv, NEW r \in Requests, NEW x, Becomes(r, x),
         UNCHANGED <<status, required, row, removed, session, corrections, saved, overtaken>>,
         cut' \in BOOLEAN, cut => cut', stored' \subseteq Documents,
         documents' \in [Documents -> {"none", "uploaded", "superseded", "deleted"}],
         x.step \in Uploading \cup {"idle"}, requests[r].step \in Uploading \cup {"idle"}
  PROVE  TypeOK' /\ DataInv' /\ LinksInv'
<1>1. TypeOK'
  BY TypeFrame DEF IInv, TypeOK, corrections
<1>2. DataInv'
  BY DataFrame DEF IInv, Uploading
<1>3. LinksInv'
  BY LinksFrame DEF IInv, Uploading, Linking
<1> QED
  BY <1>1, <1>2, <1>3

LEMMA StartUploadStep == ASSUME IInv, NEW r \in Requests, StartUpload(r) PROVE IInv'
<1>1. PICK d \in Documents :
        /\ documents[d] = "none" /\ d \notin stored
        /\ \A q \in Requests : requests[q].document # d
        /\ Begin(r, [Idle EXCEPT !.step = "put", !.document = d])
  BY DEF StartUpload
<1> DEFINE x == [Idle EXCEPT !.step = "put", !.document = d]
<1>2. x \in RequestType /\ x.step = "put" /\ x.document = d
  BY DEF Idle, RequestType, Steps, Rows, Blank
<1> HIDE DEF x
<1>3. Becomes(r, x) /\ requests[r].step = "idle"
  BY <1>1, <1>2, Begins DEF IInv, x
<1>4. UNCHANGED <<status, required, row, removed, session, uploads, corrections, history>>
  BY DEF StartUpload
<1>5. TypeOK' /\ DataInv' /\ LinksInv'
  BY <1>2, <1>3, <1>4, UploadFrame DEF IInv, TypeOK, Uploading, uploads, history
<1>6. PolicyInv'
  BY <1>4, PolicyFrame DEF IInv, uploads
<1>7. StorageInv'
  <2>1. \A q \in Requests : UploadHolds(q)'
    BY <1>1, <1>2, <1>3, <1>4 DEF IInv, StorageInv, UploadHolds, Becomes, Uploading, At, uploads, history
  <2>2. OwnDocuments'
    BY <1>1, <1>2, <1>3 DEF IInv, StorageInv, OwnDocuments, Becomes
  <2>3. requests[r].document = Nothing /\ Nothing \notin stored
    BY <1>3 DEF IInv, TypeOK, StorageInv, UploadHolds, Uploading
  <2> QED
    BY <1>3, <1>4, <2>1, <2>2, <2>3 DEF IInv, StorageInv, Recorded, Becomes, uploads, history
<1> QED
  BY <1>5, <1>6, <1>7 DEF IInv

LEMMA PutStep == ASSUME IInv, NEW r \in Requests, Put(r) PROVE IInv'
<1> DEFINE d == requests[r].document
           x == [requests[r] EXCEPT !.step = "add"]
<1>1. /\ requests[r] \in RequestType /\ requests[r].step = "put" /\ d \in Documents
      /\ documents[d] = "none"
  BY DEF IInv, TypeOK, RequestType, StorageInv, UploadHolds, Put, At, Uploading
<1>2. x.step = "add" /\ x.document = d
  BY <1>1 DEF RequestType
<1>3. Becomes(r, x)
  BY GoesOn DEF IInv, Put, Steps
<1>4. /\ stored' = stored \cup {d}
      /\ UNCHANGED <<status, required, row, removed, session, documents, corrections, history>>
  BY DEF Put
<1> HIDE DEF x, d
<1>5. TypeOK' /\ DataInv' /\ LinksInv'
  BY <1>1, <1>2, <1>3, <1>4, UploadFrame DEF IInv, TypeOK, Uploading, history
<1>6. PolicyInv'
  BY <1>4, PolicyFrame DEF IInv
<1>7. StorageInv'
  <2>1. \A q \in Requests : UploadHolds(q)'
    BY <1>1, <1>2, <1>3, <1>4 DEF IInv, StorageInv, UploadHolds, Becomes, Uploading, At, history
  <2>2. \A q \in Requests : requests'[q].document = requests[q].document
    BY <1>2, <1>3 DEF Becomes, d
  <2>3. OwnDocuments'
    BY <2>2 DEF IInv, StorageInv, OwnDocuments
  <2>4. requests[r].document = d
    BY DEF d
  <2> QED
    BY <1>4, <2>1, <2>2, <2>3, <2>4 DEF IInv, StorageInv, Recorded, history
<1> QED
  BY <1>5, <1>6, <1>7 DEF IInv

\* The new policy takes the place of those before it.
LEMMA AddDocumentStep == ASSUME IInv, NEW r \in Requests, AddDocument(r) PROVE IInv'
<1> DEFINE d == requests[r].document
<1>1. /\ requests[r] \in RequestType /\ requests[r].step = "add" /\ d \in Documents
      /\ documents[d] = "none" /\ d \in stored
      /\ documents \in [Documents -> {"none", "uploaded", "superseded", "deleted"}]
      /\ stored \subseteq Documents /\ cut \in BOOLEAN
  BY DEF IInv, TypeOK, RequestType, StorageInv, UploadHolds, AddDocument, At, Uploading
<1>2. PICK x : Becomes(r, x) /\ x \in {Idle, [requests[r] EXCEPT !.step = "drop"]}
               /\ (x = Idle => Uploadable)
  <2>1. CASE End(r) /\ Uploadable
    BY <2>1, Ends DEF IInv
  <2>2. CASE Go(r, "drop")
    <3>1. Becomes(r, [requests[r] EXCEPT !.step = "drop"])
      BY <2>2, GoesOn DEF IInv, Steps
    <3>2. [requests[r] EXCEPT !.step = "drop"].step = "drop" /\ Idle.step = "idle"
      BY <1>1 DEF RequestType, Idle
    <3> QED
      BY <3>1, <3>2
  <2> QED
    BY <2>1, <2>2 DEF AddDocument
<1>3. \/ x.step = "idle" /\ x.document = Nothing /\ Uploadable /\ x = Idle
      \/ x.step = "drop" /\ x.document = d /\ x # Idle
  BY <1>1, <1>2 DEF RequestType, Idle
<1>4. /\ UNCHANGED <<status, required, row, removed, session, stored, corrections, saved, overtaken>>
      /\ cut' \in BOOLEAN /\ (cut => cut')
      /\ \/ Uploadable /\ documents' = [Superseded EXCEPT ![d] = "uploaded"]
         \/ ~Uploadable /\ documents' = documents
      /\ x.step = "drop" => cut' \/ documents' = documents
  <2>1. requests'[r].step = x.step
    BY <1>2 DEF Becomes
  <2>2. End(r) => requests'[r].step = "idle"
    BY Ends, IdleQuiet DEF IInv, Becomes
  <2> QED
    BY <1>1, <2>1, <2>2 DEF AddDocument
<1> HIDE DEF d
<1>5. /\ documents' \in [Documents -> {"none", "uploaded", "superseded", "deleted"}]
      /\ \A e \in Documents \ {d} : documents'[e] = "none" <=> documents[e] = "none"
      /\ \/ /\ Uploadable /\ documents'[d] = "uploaded"
            /\ \A e \in Documents \ {d} : documents'[e] # "uploaded"
         \/ ~Uploadable /\ documents' = documents
  <2>1. CASE Uploadable /\ documents' = [Superseded EXCEPT ![d] = "uploaded"]
    BY <1>1, <2>1 DEF Superseded
  <2>2. CASE ~Uploadable /\ documents' = documents
    BY <1>1, <2>2
  <2> QED
    BY <1>4, <2>1, <2>2
<1>6. TypeOK' /\ DataInv' /\ LinksInv'
  BY <1>1, <1>2, <1>3, <1>4, <1>5, UploadFrame DEF IInv, TypeOK, Uploading
<1>7. PolicyInv'
  <2>1. CASE Uploadable
    <3>1. d \in Recorded' /\ Current' = {d} /\ ~removed'
      BY <1>1, <1>4, <1>5, <2>1 DEF Recorded, Current, Uploadable
    <3> QED
      BY <3>1 DEF PolicyInv
  <2>2. CASE ~Uploadable
    BY <1>4, <1>5, <2>2, PolicyFrame DEF IInv
  <2> QED
    BY <2>1, <2>2
<1>8. StorageInv'
  <2>1. ASSUME NEW q \in Requests, q # r PROVE requests[q].document # d
    BY <1>1, <2>1 DEF IInv, StorageInv, OwnDocuments, d
  <2>2. ASSUME NEW q \in Requests, q # r PROVE UploadHolds(q)'
    <3>1. requests'[q] = requests[q] /\ UploadHolds(q) /\ requests[q].document # d
      BY <1>2, <2>1, <2>2 DEF IInv, StorageInv, Becomes
    <3>2. requests[q].document \in Documents \cup {Nothing}
      BY DEF IInv, TypeOK
    <3> QED
      BY <1>4, <1>5, <3>1, <3>2 DEF UploadHolds, At, Uploading
  <2>3. UploadHolds(r)'
    BY <1>1, <1>2, <1>3, <1>4 DEF UploadHolds, Becomes, At, Uploading
  <2>4. OwnDocuments'
    BY <1>2, <1>3, <2>1 DEF IInv, StorageInv, OwnDocuments, Becomes
  <2>5. ASSUME ~cut'
        PROVE  /\ Recorded' \subseteq stored
               /\ \A e \in stored \ Recorded' : \E q \in Requests : requests'[q].document = e
    <3>1. ~cut /\ Recorded \subseteq stored /\ Recorded' \subseteq Recorded \cup {d}
      BY <1>4, <1>5, <2>5 DEF IInv, StorageInv, Recorded
    <3>2. ASSUME NEW e \in stored, e \notin Recorded'
          PROVE  \E q \in Requests : requests'[q].document = e
      <4>1. CASE e = d
        <5>1. ~Uploadable
          BY <1>1, <1>5, <3>2, <4>1 DEF Recorded
        <5>2. requests'[r].document = d
          BY <1>2, <1>3, <5>1 DEF Becomes
        <5> QED
          BY <4>1, <5>2
      <4>2. CASE e # d
        <5>1. e \in stored \ Recorded
          BY <1>1, <1>5, <3>2, <4>2 DEF Recorded
        <5>2. PICK q \in Requests : requests[q].document = e
          BY <3>1, <5>1 DEF IInv, StorageInv
        <5>3. q # r
          BY <4>2, <5>2 DEF d
        <5> QED
          BY <1>2, <5>2, <5>3 DEF Becomes
      <4> QED
        BY <4>1, <4>2
    <3> QED
      BY <1>1, <3>1, <3>2
  <2> QED
    BY <1>4, <2>2, <2>3, <2>4, <2>5 DEF StorageInv
<1> QED
  BY <1>6, <1>7, <1>8 DEF IInv

LEMMA DropObjectStep == ASSUME IInv, NEW r \in Requests, DropObject(r) PROVE IInv'
<1>1. Becomes(r, Idle) /\ requests[r].step = "drop"
  BY Ends DEF IInv, DropObject, At
<1>2. /\ stored' = stored \ {requests[r].document}
      /\ UNCHANGED <<status, required, row, removed, session, documents, corrections, history>>
  BY DEF DropObject, Dropped
<1>3. TypeOK' /\ DataInv' /\ LinksInv'
  BY <1>1, <1>2, IdleQuiet, UploadFrame DEF IInv, TypeOK, Uploading, history
<1>4. PolicyInv'
  BY <1>2, PolicyFrame DEF IInv
<1>5. StorageInv'
  <2>1. \A q \in Requests \ {r} : requests[q].document # requests[r].document
    BY <1>1 DEF IInv, StorageInv, OwnDocuments, UploadHolds, Uploading
  <2>2. \A q \in Requests : UploadHolds(q)'
    BY <1>1, <1>2, <2>1, IdleQuiet
       DEF IInv, StorageInv, UploadHolds, Becomes, Uploading, At, history
  <2>3. OwnDocuments'
    BY <1>1, IdleQuiet DEF IInv, StorageInv, OwnDocuments, Becomes
  <2>4. cut \/ requests[r].document \notin Recorded
    BY <1>1 DEF IInv, StorageInv, UploadHolds, At, Recorded
  <2> QED
    BY <1>1, <1>2, <2>2, <2>3, <2>4 DEF IInv, StorageInv, Recorded, Becomes, history
<1> QED
  BY <1>3, <1>4, <1>5 DEF IInv

\* Steps of a correction leave the data and the uploads alone.
LEMMA LinkFrame ==
  ASSUME IInv, NEW r \in Requests, NEW x, Becomes(r, x),
         UNCHANGED <<required, row, removed, session, uploads, history>>,
         status' \in Editable \cup Locked,
         status' \in Locked => status \in Locked,
         links' \in [Corrections -> {"none", "live", "used", "revoked"}],
         asked' \in 0 .. MaxCorrections, mailed' \subseteq Corrections,
         x.document = Nothing,
         x.step \in Linking \cup {"check", "idle"}, requests[r].step \in Linking \cup {"idle"}
  PROVE  TypeOK' /\ DataInv' /\ PolicyInv' /\ StorageInv'
<1>1. TypeOK'
  BY TypeFrame DEF IInv, TypeOK, uploads, history
<1>2. DataInv'
  BY DataFrame DEF IInv, Linking, history
<1>3. PolicyInv' /\ StorageInv'
  BY PolicyFrame, StorageFrame DEF IInv, Linking, Uploading, uploads, history
<1> QED
  BY <1>1, <1>2, <1>3

LEMMA RequestCorrectionStep ==
  ASSUME IInv, NEW r \in Requests, RequestCorrection(r) PROVE IInv'
<1> DEFINE x == [Idle EXCEPT !.step = "link", !.link = asked + 1]
<1>1. /\ asked \in Nat /\ asked + 1 \in Corrections /\ asked' = asked + 1
      /\ links \in [Corrections -> {"none", "live", "used", "revoked"}] /\ mailed \subseteq Corrections
      /\ Begin(r, x)
  BY DEF IInv, TypeOK, RequestCorrection, Corrections
<1>2. x \in RequestType /\ x.step = "link" /\ x.link = asked + 1 /\ x.document = Nothing
  BY <1>1 DEF Idle, RequestType, Steps, Rows, Blank
<1> HIDE DEF x
<1>3. Becomes(r, x) /\ requests[r].step = "idle"
  BY <1>1, <1>2, Begins DEF IInv
<1>4. /\ UNCHANGED <<required, row, removed, session, uploads, links, mailed, history>>
      /\ status' = "correction_requested"
  BY DEF RequestCorrection
<1>5. TypeOK' /\ DataInv' /\ PolicyInv' /\ StorageInv'
  BY <1>1, <1>2, <1>3, <1>4, LinkFrame DEF Editable, Locked, Linking, Corrections
<1>6. LinksInv'
  <2>1. mailed \subseteq 1 .. asked /\ \A q \in Requests : LinkHolds(q)
    BY DEF IInv, LinksInv
  <2>2. \A q \in Requests : LinkHolds(q)'
    BY <1>1, <1>2, <1>3, <1>4, <2>1 DEF LinkHolds, Becomes, Linking, At
  <2>3. \A q \in Requests : requests[q].step \in Linking => requests[q].link # asked + 1
    BY <1>1, <2>1 DEF LinkHolds
  <2>4. OwnLinks'
    BY <1>2, <1>3, <2>3 DEF IInv, LinksInv, OwnLinks, Becomes
  <2>5. ASSUME ~cut, NEW c \in 1 .. asked + 1, c \notin mailed
        PROVE  \E q \in Requests : requests'[q].step \in Linking /\ requests'[q].link = c
    <3>1. CASE c = asked + 1
      BY <1>2, <1>3, <3>1 DEF Becomes, Linking
    <3>2. CASE c # asked + 1
      <4>1. c \in 1 .. asked
        BY <1>1, <3>2
      <4>2. PICK q \in Requests : requests[q].step \in Linking /\ requests[q].link = c
        BY <2>5, <4>1 DEF IInv, LinksInv
      <4> QED
        BY <1>3, <4>2 DEF Becomes, Linking
    <3> QED
      BY <3>1, <3>2
  <2>6. mailed' \subseteq 1 .. asked'
    BY <1>1, <1>4, <2>1
  <2> QED
    BY <1>1, <1>4, <2>2, <2>4, <2>5, <2>6 DEF LinksInv, history
<1> QED
  BY <1>5, <1>6 DEF IInv

LEMMA CreateLinkStep ==
  ASSUME IInv, NEW r \in Requests, CreateCustomerResumeToken(r) PROVE IInv'
<1> DEFINE x == [requests[r] EXCEPT !.step = "mail"]
           c == requests[r].link
<1>1. /\ requests[r] \in RequestType /\ requests[r].step = "link" /\ requests[r].document = Nothing
      /\ c \in (1 .. asked) \ mailed
      /\ links \in [Corrections -> {"none", "live", "used", "revoked"}]
      /\ asked \in 0 .. MaxCorrections /\ mailed \subseteq Corrections
      /\ mailed \subseteq 1 .. asked
  BY DEF IInv, TypeOK, RequestType, StorageInv, UploadHolds, Uploading, LinksInv, LinkHolds,
         Linking, CreateCustomerResumeToken, At
<1>2. x.step = "mail" /\ x.link = c /\ x.document = Nothing
  BY <1>1 DEF RequestType
<1>3. Becomes(r, x)
  BY GoesOn DEF IInv, CreateCustomerResumeToken, Steps
<1>4. /\ UNCHANGED <<status, required, row, removed, session, uploads, asked, mailed, history>>
      /\ links' = [links EXCEPT ![c] = "live"]
  BY DEF CreateCustomerResumeToken
<1> HIDE DEF x
<1>5. TypeOK' /\ DataInv' /\ PolicyInv' /\ StorageInv'
  BY <1>1, <1>2, <1>3, <1>4, StatusKept, LinkFrame DEF Linking, IInv, TypeOK
<1>6. LinksInv'
  <2>1. \A q \in Requests \ {r} : LinkHolds(q)'
    BY <1>1, <1>3, <1>4 DEF IInv, LinksInv, LinkHolds, Becomes, At
  <2>2. LinkHolds(r)'
    BY <1>1, <1>2, <1>3, <1>4 DEF LinkHolds, Becomes, At
  <2>3. \A q \in Requests : /\ requests'[q].step \in Linking <=> requests[q].step \in Linking
                            /\ requests'[q].link = requests[q].link
    BY <1>1, <1>2, <1>3 DEF Becomes, Linking
  <2>4. OwnLinks'
    BY <2>3 DEF IInv, LinksInv, OwnLinks
  <2> QED
    BY <1>1, <1>4, <2>1, <2>2, <2>3, <2>4 DEF IInv, LinksInv, history
<1> QED
  BY <1>5, <1>6 DEF IInv

LEMMA MailLinkStep == ASSUME IInv, NEW r \in Requests, MailLink(r) PROVE IInv'
<1> DEFINE c == requests[r].link
<1>1. /\ requests[r].step = "mail" /\ c \in (1 .. asked) \ mailed
      /\ asked \in 0 .. MaxCorrections /\ mailed \subseteq Corrections /\ mailed \subseteq 1 .. asked
  BY DEF IInv, TypeOK, LinksInv, LinkHolds, Linking, MailLink, At
<1>2. Becomes(r, Idle)
  BY Ends DEF IInv, MailLink
<1>3. /\ UNCHANGED <<status, required, row, removed, session, uploads, links, asked, history>>
      /\ mailed' = mailed \cup {c}
  BY DEF MailLink
<1>4. c \in Corrections
  BY <1>1 DEF Corrections
<1>5. TypeOK' /\ DataInv' /\ PolicyInv' /\ StorageInv'
  BY <1>1, <1>2, <1>3, <1>4, IdleQuiet, StatusKept, LinkFrame DEF Linking, IInv, TypeOK
<1>6. LinksInv'
  <2>1. \A q \in Requests \ {r} : requests[q].step \in Linking => requests[q].link # c
    BY <1>1 DEF IInv, LinksInv, OwnLinks, Linking
  <2>2. \A q \in Requests : LinkHolds(q)'
    BY <1>1, <1>2, <1>3, <2>1, IdleQuiet DEF IInv, LinksInv, LinkHolds, Becomes, Linking, At
  <2>3. OwnLinks'
    BY <1>2, IdleQuiet DEF IInv, LinksInv, OwnLinks, Becomes, Linking
  <2>4. ASSUME ~cut, NEW e \in 1 .. asked, e \notin mailed \cup {c}
        PROVE  \E q \in Requests : requests'[q].step \in Linking /\ requests'[q].link = e
    <3>1. PICK q \in Requests : requests[q].step \in Linking /\ requests[q].link = e
      BY <2>4 DEF IInv, LinksInv
    <3> QED
      BY <1>2, <2>4, <3>1 DEF Becomes
  <2> HIDE DEF c
  <2> QED
    BY <1>1, <1>3, <2>2, <2>3, <2>4 DEF LinksInv, history
<1> QED
  BY <1>5, <1>6 DEF IInv

\* Whoever follows a link finds it used from then on, by all others too.
LEMMA ConsumeStep ==
  ASSUME IInv, NEW r \in Requests, ConsumeCustomerResumeToken(r) PROVE IInv'
<1>1. PICK c \in mailed : /\ links' = Consumed(c)
                          /\ Begin(r, [Idle EXCEPT !.step = "check", !.link = c])
  BY DEF ConsumeCustomerResumeToken
<1> DEFINE x == [Idle EXCEPT !.step = "check", !.link = c]
<1>2. /\ c \in Corrections /\ mailed \subseteq 1 .. asked /\ mailed \subseteq Corrections
      /\ links \in [Corrections -> {"none", "live", "used", "revoked"}]
      /\ asked \in 0 .. MaxCorrections
  BY DEF IInv, TypeOK, LinksInv
<1>3. x \in RequestType /\ x.step = "check" /\ x.link = c /\ x.document = Nothing
  BY <1>2 DEF Idle, RequestType, Steps, Rows, Blank
<1> HIDE DEF x
<1>4. Becomes(r, x) /\ requests[r].step = "idle"
  BY <1>1, <1>3, Begins DEF IInv, x
<1>5. /\ UNCHANGED <<status, required, row, removed, session, uploads, asked, mailed, history>>
      /\ links' = [links EXCEPT ![c] = "used"]
  BY <1>1 DEF ConsumeCustomerResumeToken, Consumed
<1>6. TypeOK' /\ DataInv' /\ PolicyInv' /\ StorageInv'
  BY <1>2, <1>3, <1>4, <1>5, StatusKept, LinkFrame DEF Linking, IInv, TypeOK
<1>7. LinksInv'
  <2>1. \A q \in Requests : LinkHolds(q)'
    BY <1>2, <1>3, <1>4, <1>5 DEF IInv, LinksInv, LinkHolds, Becomes, Linking, At
  <2>2. \A q \in Requests : /\ requests'[q].step \in Linking <=> requests[q].step \in Linking
                            /\ requests[q].step \in Linking => requests'[q].link = requests[q].link
    BY <1>3, <1>4 DEF Becomes, Linking
  <2>3. OwnLinks'
    BY <2>2 DEF IInv, LinksInv, OwnLinks
  <2> QED
    BY <1>5, <2>1, <2>2, <2>3 DEF IInv, LinksInv, history
<1> QED
  BY <1>6, <1>7 DEF IInv

----------------------------------------------------------------------------
(* Steps in which no request moves *)

LEMMA ElseStep == ASSUME IInv, Review \/ SessionExpires \/ UNCHANGED vars PROVE IInv'
<1>1. /\ UNCHANGED <<required, row, removed, uploads, corrections, requests, history>>
      /\ status' \in Editable \cup Locked
      /\ status' \in Locked => status \in Locked
      /\ session' \in BOOLEAN
  BY DEF IInv, TypeOK, Review, Reviewable, SessionExpires, vars, Locked
<1>2. TypeOK'
  BY <1>1 DEF IInv, TypeOK, uploads, corrections, history
<1>3. DataInv'
  BY <1>1 DEF IInv, DataInv, SavesAreKept, SubmittedIsComplete, SaveHolds, At, Complete, Asked, history
<1>4. PolicyInv' /\ StorageInv' /\ LinksInv'
  BY <1>1 DEF IInv, PolicyInv, Current, StorageInv, UploadHolds, OwnDocuments, Recorded, At,
              LinksInv, LinkHolds, OwnLinks, uploads, corrections, history
<1> QED
  BY <1>2, <1>3, <1>4 DEF IInv

LEMMA RemoveStep == ASSUME IInv, Remove PROVE IInv'
<1>1. /\ UNCHANGED <<status, required, row, stored, asked, mailed, requests, history>>
      /\ removed' = TRUE /\ session' = FALSE
      /\ documents' = [d \in Documents |-> IF documents[d] = "none" THEN "none" ELSE "deleted"]
      /\ links' = [c \in Corrections |-> IF links[c] = "live" THEN "revoked" ELSE links[c]]
  BY DEF Remove
<1>2. /\ documents' \in [Documents -> {"none", "uploaded", "superseded", "deleted"}]
      /\ \A d \in Documents : documents'[d] \in {"none", "deleted"}
      /\ \A d \in Documents : documents'[d] = "none" <=> documents[d] = "none"
  BY <1>1 DEF IInv, TypeOK
<1>3. /\ links' \in [Corrections -> {"none", "live", "used", "revoked"}]
      /\ \A c \in Corrections : links[c] = "used" => links'[c] = "used"
  BY <1>1 DEF IInv, TypeOK
<1>4. removed' \in BOOLEAN /\ session' \in BOOLEAN
  BY <1>1
<1>5. TypeOK'
  BY <1>1, <1>2, <1>3, <1>4 DEF IInv, TypeOK, history
<1>6. DataInv'
  BY <1>1 DEF IInv, DataInv, SavesAreKept, SubmittedIsComplete, SaveHolds, At, Complete, Asked, history
<1>7. PolicyInv'
  <2>1. Current' = {}
    BY <1>2 DEF Current
  <2> QED
    BY <1>1, <2>1 DEF PolicyInv
<1>8. StorageInv'
  <2>1. Recorded' = Recorded
    BY <1>2 DEF Recorded
  <2>2. \A r \in Requests : requests[r].document \in Documents \cup {Nothing}
    BY DEF IInv, TypeOK
  <2>3. \A r \in Requests : UploadHolds(r)'
    BY <1>1, <1>2, <2>2 DEF IInv, StorageInv, UploadHolds, Uploading, At, history
  <2>4. OwnDocuments'
    BY <1>1 DEF IInv, StorageInv, OwnDocuments
  <2> QED
    BY <1>1, <2>1, <2>3, <2>4 DEF IInv, StorageInv, history
<1>9. LinksInv'
  <2>1. mailed \subseteq Corrections
    BY DEF IInv, TypeOK
  <2>2. \A r \in Requests : LinkHolds(r)'
    BY <1>1, <1>3, <2>1 DEF IInv, LinksInv, LinkHolds, At
  <2> QED
    BY <1>1, <2>2 DEF IInv, LinksInv, OwnLinks, history
<1> QED
  BY <1>5, <1>6, <1>7, <1>8, <1>9 DEF IInv

LEMMA StepIInv == IInv /\ [Next]_vars => IInv'
<1> SUFFICES ASSUME IInv, [Next]_vars PROVE IInv'
  OBVIOUS
<1>1. ASSUME NEW r \in Requests, Start(r) PROVE IInv'
  BY <1>1, StartSaveStep, StartUploadStep, StartSubmitStep, StartResumeStep,
     RequestCorrectionStep, ConsumeStep DEF Start
<1>2. ASSUME NEW r \in Requests, Continue(r) PROVE IInv'
  BY <1>2, SaveStep, PutStep, AddDocumentStep, DropObjectStep, SubmitStep, AutoApproveStep,
     StartSessionStep, CreateLinkStep, MailLinkStep, CheckCorrectionStep DEF Continue
<1> QED
  BY <1>1, <1>2, EndEarlyStep, ElseStep, RemoveStep DEF Next

----------------------------------------------------------------------------
(* Where no policy is required *)

LEMMA InitAsked == Init => AskedInv
BY DEF Init, AskedInv, Prefilled, Blank, Sections, Recorded, Idle, Uploading

\* A request keeps what it holds, or holds nothing of what is not asked for.
LEMMA AskedFrame ==
  ASSUME TypeOK, AskedInv, NEW r \in Requests, NEW x, Becomes(r, x),
         UNCHANGED <<required, row, documents>>,
         required \/ (x.row["insurance"] = Nothing /\ x.step \notin Uploading)
  PROVE  AskedInv'
BY DEF AskedInv, Becomes, Recorded

LEMMA IdleAsked == Idle.row["insurance"] = Nothing /\ Idle.step \notin Uploading
BY DEF Idle, Blank, Sections, Uploading

LEMMA EndAsked ==
  ASSUME TypeOK, AskedInv, NEW r \in Requests, End(r), UNCHANGED <<required, row, documents>>
  PROVE  AskedInv'
BY Ends, AskedFrame, IdleAsked

LEMMA GoAsked ==
  ASSUME TypeOK, AskedInv, NEW r \in Requests, NEW step \in Steps \ Uploading, Go(r, step),
         UNCHANGED <<required, row, documents>>
  PROVE  AskedInv'
<1> DEFINE x == [requests[r] EXCEPT !.step = step]
<1>1. requests[r] \in RequestType
  BY DEF TypeOK, RequestType
<1>2. x.row = requests[r].row /\ x.step = step
  BY <1>1 DEF RequestType
<1>3. Becomes(r, x)
  BY GoesOn
<1> HIDE DEF x
<1>4. required \/ x.row["insurance"] = Nothing
  BY <1>2 DEF AskedInv
<1> QED
  BY <1>2, <1>3, <1>4, AskedFrame

LEMMA BeginAsked ==
  ASSUME TypeOK, AskedInv, NEW r \in Requests, NEW x \in RequestType, Begin(r, x),
         x.row = Idle.row, x.step \notin Uploading, UNCHANGED <<required, row, documents>>
  PROVE  AskedInv'
BY Begins, AskedFrame, IdleAsked

LEMMA StartAsked == ASSUME TypeOK, AskedInv, NEW r \in Requests, Start(r) PROVE AskedInv'
<1>1. CASE StartSave(r)
  <2>1. PICK S \in Forms, v \in Values :
          Begin(r, [Idle EXCEPT !.step = "save", !.posted = S,
                                !.row = [s \in Sections |-> IF s \in S THEN Entered(s, v) ELSE AsRead[s]]])
    BY <1>1 DEF StartSave
  <2> DEFINE values == [s \in Sections |-> IF s \in S THEN Entered(s, v) ELSE row[s]]
             x == [Idle EXCEPT !.step = "save", !.posted = S, !.row = values]
  <2>2. values \in Rows /\ S \subseteq Sections
    BY DEF TypeOK, Rows, Entered, Forms
  <2>3. required \/ values["insurance"] = Nothing
    BY DEF AskedInv, Entered, Sections
  <2> HIDE DEF values
  <2>4. x \in RequestType /\ x.row = values /\ x.step = "save"
    BY <2>2 DEF Idle, RequestType, Steps
  <2>5. Begin(r, x)
    BY <2>1 DEF AsRead, values
  <2> HIDE DEF x
  <2> QED
    BY <1>1, <2>3, <2>4, <2>5, Begins, AskedFrame DEF StartSave, uploads, Uploading
<1>2. CASE StartUpload(r)
  BY <1>2 DEF StartUpload, AskedInv
<1>3. CASE StartSubmit(r) \/ StartResume(r)
  <2>1. PICK step \in {"submit", "approve", "session"} : Begin(r, [Idle EXCEPT !.step = step])
    BY <1>3 DEF StartSubmit, StartResume
  <2> DEFINE x == [Idle EXCEPT !.step = step]
  <2>2. x \in RequestType /\ x.row = Idle.row /\ x.step = step
    BY IdleType DEF Idle, RequestType, Steps
  <2>3. Begin(r, x) /\ UNCHANGED <<required, row, documents>>
    BY <1>3, <2>1 DEF StartSubmit, StartResume, uploads
  <2> HIDE DEF x
  <2> QED
    BY <2>2, <2>3, BeginAsked DEF Uploading
<1>4. CASE RequestCorrection(r)
  <2> DEFINE x == [Idle EXCEPT !.step = "link", !.link = asked + 1]
  <2>1. asked + 1 \in Corrections
    BY <1>4 DEF TypeOK, RequestCorrection, Corrections
  <2>2. x \in RequestType /\ x.row = Idle.row /\ x.step = "link"
    BY <2>1, IdleType DEF Idle, RequestType, Steps
  <2>3. Begin(r, x) /\ UNCHANGED <<required, row, documents>>
    BY <1>4 DEF RequestCorrection, uploads
  <2> HIDE DEF x
  <2> QED
    BY <2>2, <2>3, BeginAsked DEF Uploading
<1>5. CASE ConsumeCustomerResumeToken(r)
  <2>1. PICK c \in Corrections : Begin(r, [Idle EXCEPT !.step = "check", !.link = c])
    BY <1>5 DEF TypeOK, ConsumeCustomerResumeToken
  <2> DEFINE x == [Idle EXCEPT !.step = "check", !.link = c]
  <2>2. x \in RequestType /\ x.row = Idle.row /\ x.step = "check"
    BY IdleType DEF Idle, RequestType, Steps
  <2>3. Begin(r, x) /\ UNCHANGED <<required, row, documents>>
    BY <1>5, <2>1 DEF ConsumeCustomerResumeToken, uploads
  <2> HIDE DEF x
  <2> QED
    BY <2>2, <2>3, BeginAsked DEF Uploading
<1> QED
  BY <1>1, <1>2, <1>3, <1>4, <1>5 DEF Start

LEMMA ContinueAsked == ASSUME TypeOK, AskedInv, NEW r \in Requests, Continue(r) PROVE AskedInv'
<1>1. CASE Save(r)
  <2>1. CASE Savable
    <3>1. /\ row' = requests[r].row /\ UNCHANGED <<required, documents>>
          /\ requests' = [q \in Requests |-> IF q = r THEN Idle
                              ELSE [requests[q] EXCEPT !.stale = @ \/ requests[q].step = "save"]]
      BY <1>1, <2>1 DEF Save, uploads
    <3>2. ASSUME NEW q \in Requests, q # r
          PROVE  requests'[q].row = requests[q].row /\ requests'[q].step = requests[q].step
      <4> DEFINE b == requests[q].stale \/ requests[q].step = "save"
      <4>1. requests'[q] = [requests[q] EXCEPT !.stale = b] /\ requests[q] \in RequestType
        BY <3>1, <3>2 DEF TypeOK, RequestType
      <4> HIDE DEF b
      <4> QED
        BY <4>1 DEF RequestType
    <3>3. requests'[r] = Idle
      BY <3>1
    <3> QED
      BY <3>1, <3>2, <3>3, IdleAsked DEF AskedInv, Recorded
  <2>2. CASE ~Savable
    BY <1>1, <2>2, EndAsked DEF Save, uploads
  <2> QED
    BY <2>1, <2>2
<1>2. CASE Put(r) \/ AddDocument(r) \/ DropObject(r)
  <2>1. requests[r].step \in Uploading /\ required' = required
    BY <1>2 DEF Put, AddDocument, DropObject, At, Uploading
  <2> QED
    BY <2>1 DEF AskedInv
<1>3. CASE Submit(r)
  BY <1>3, EndAsked, GoAsked DEF Submit, AfterSubmit, Steps, Uploading, uploads
<1>4. CASE AutoApprove(r) \/ StartSession(r) \/ MailLink(r)
  BY <1>4, EndAsked DEF AutoApprove, StartSession, MailLink, uploads
<1>5. CASE CreateCustomerResumeToken(r)
  BY <1>5, GoAsked DEF CreateCustomerResumeToken, Steps, Uploading, uploads
<1>6. CASE CheckCorrection(r)
  BY <1>6, EndAsked, GoAsked DEF CheckCorrection, Steps, Uploading, uploads
<1> QED
  BY <1>1, <1>2, <1>3, <1>4, <1>5, <1>6 DEF Continue

LEMMA StepAsked == IInv /\ AskedInv /\ [Next]_vars => AskedInv'
<1> SUFFICES ASSUME TypeOK, AskedInv, [Next]_vars PROVE AskedInv'
  BY DEF IInv
<1>1. ASSUME NEW r \in Requests, EndEarly(r) PROVE AskedInv'
  BY <1>1, EndAsked DEF EndEarly, uploads
<1>2. CASE Review \/ SessionExpires \/ UNCHANGED vars
  BY <1>2 DEF AskedInv, Recorded, Review, SessionExpires, uploads, vars
<1>3. CASE Remove
  <2>1. \A d \in Documents : documents'[d] # "none" => documents[d] # "none"
    BY <1>3 DEF Remove, TypeOK
  <2> QED
    BY <1>3, <2>1 DEF AskedInv, Recorded, Remove
<1> QED
  BY <1>1, <1>2, <1>3, StartAsked, ContinueAsked DEF Next

----------------------------------------------------------------------------
(* The theorems *)

\* What requests hold between their steps stays true.
THEOREM Invariant == Spec => [](IInv /\ AskedInv)
BY InitIInv, InitAsked, StepIInv, StepAsked, PTL DEF Spec

\* However the tabs of a customer interleave, an update is lost only to a save
\* that had read the row before it (the sections are merged with what
\* currentOnboarding returned).
THEOREM SavesStay == Spec => []SavesAreKept
<1>1. IInv /\ AskedInv => SavesAreKept
  BY IInvIsSound
<1> QED
  BY <1>1, Invariant, PTL

\* What is submitted has all that was asked for: the insurance where the accepted
\* version requires a policy, and where it does not there is neither insurance nor
\* policy; one policy is current, storage and rows agree and every correction is
\* mailed with one link, for any number of requests (Save, AddDocument, Submit).
THEOREM RegistrationIsSound == Spec => []RegistrationSound
<1>1. IInv /\ AskedInv => RegistrationSound
  BY IInvIsSound
<1> QED
  BY <1>1, Invariant, PTL

\* Save looks at the status in its own transaction, so that no save begun
\* before the submission changes what was submitted, and nothing undoes an
\* approval.
THEOREM SubmittedStaysFrozen == Spec => SubmittedIsFrozen
<1> DEFINE Frozen == /\ status \in Locked /\ status' \in Locked => row' = row
                     /\ status = "approved" => status' = "approved"
<1>1. ASSUME NEW r \in Requests, Start(r) \/ EndEarly(r) PROVE Frozen
  BY <1>1 DEF Start, StartSave, StartUpload, StartSubmit, StartResume, RequestCorrection,
              ConsumeCustomerResumeToken, EndEarly, Locked, Reviewable
<1>2. ASSUME NEW r \in Requests, Continue(r) PROVE Frozen
  BY <1>2 DEF Continue, Save, Savable, Put, AddDocument, DropObject, Submit, Submittable,
              AutoApprove, StartSession, CreateCustomerResumeToken, MailLink, CheckCorrection,
              Locked, Editable
<1>3. ASSUME Review \/ SessionExpires \/ Remove PROVE Frozen
  BY <1>3 DEF Review, Reviewable, SessionExpires, Remove, Locked
<1>4. Next => Frozen
  BY <1>1, <1>2, <1>3 DEF Next
<1>5. [Next]_vars => [Frozen]_vars
  BY <1>4
<1> QED
  BY <1>5, PTL DEF Spec, SubmittedIsFrozen

=============================================================================
