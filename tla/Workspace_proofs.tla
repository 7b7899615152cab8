-------------------------- MODULE Workspace_proofs --------------------------
(***************************************************************************)
(* Theorems on the CVs, the lists, the talent pools and the plan of Workspace. *)
(***************************************************************************)
EXTENDS Workspace, FiniteSetTheorems, TLAPS

\* CV rows, those marked as deleted included.
Rows == {cv \in Cv : cvs[cv] # None}

RowsInv ==
    /\ cvs \in [Cv -> CvRow \cup {None}]
    /\ req = [r \in Request |-> req[r]]

\* A key is drawn once, and the file of a row that is there is stored.
FilesInv ==
    /\ files \subseteq uploaded
    /\ \A cv \in Rows : cvs[cv].file \in uploaded
    /\ \A cv \in Cvs : cvs[cv].file \in files
    /\ \A cv, d \in Rows : cvs[cv].file = cvs[d].file => cv = d

Uploading(r) == req[r].pc \in {"countCvs", "insertCv"}

\* An upload holds a stored file that is nobody else's.
UploadsInv ==
    \A r \in Request : Uploading(r) =>
        /\ req[r].candidate \in Candidate
        /\ req[r].file \in files \cap File
        /\ At(r, "insertCv") => req[r].isPrimary \in BOOLEAN
        /\ \A cv \in Rows : cvs[cv].file # req[r].file
        /\ \A q \in Request : Uploading(q) /\ req[q].file = req[r].file => q = r

\* What the other handlers hold: the row, which may have been deleted; the CV of an
\* application; the file of a row that was.
UsesInv ==
    \A r \in Request :
        /\ req[r].pc \in {"setPrimary", "deleteCv", "attach"} => req[r].cv \in Rows
        /\ At(r, "findCv") => req[r].cv \in attached
        /\ At(r, "deleteFile") =>
             \E cv \in Rows : cvs[cv].deleted /\ cvs[cv].file = req[r].file

LinksInv ==
    /\ attached \subseteq Cvs
    /\ previews \subseteq {cvs[cv].file : cv \in attached}

CvInv == RowsInv /\ FilesInv /\ UploadsInv /\ UsesInv /\ LinksInv

\* What a recruiter's handler has found stays true until it writes.
SourcingInv ==
    /\ PoolsHoldApplicants
    /\ \A r \in Request :
         /\ req[r].pc \in {"hasApplied", "addCandidate"} => req[r].pool \in pools
         /\ At(r, "addCandidate") => req[r].candidate \in Applicants
         /\ At(r, "partner") => req[r].university \in universities

\* The records of which a handler replaces the await and keeps the rest.
HeldInv ==
    \A r \in Request :
        /\ At(r, "hasApplied") =>
             req[r] = [pc |-> "hasApplied", pool |-> req[r].pool, candidate |-> req[r].candidate]
        /\ At(r, "subscribe") =>
             req[r] = [pc |-> "subscribe", plan |-> req[r].plan] /\ req[r].plan \in Plan

IInv == CvInv /\ SourcingInv /\ HeldInv

\* Every row and every request of the initial state is well-formed.
LEMMA InitIInv == Init => IInv
<1> SUFFICES ASSUME Init PROVE IInv
  OBVIOUS
<1> USE DEF Init, CvTablesInit, SourcingTablesInit, RequestsInit, Idle
<1>1. RowsInv
  BY DEF RowsInv
<1>2. Rows = {} /\ Cvs = {}
  BY DEF Rows, Cvs
<1>3. CvInv
  BY <1>1, <1>2 DEF CvInv, FilesInv, UploadsInv, UsesInv, LinksInv, Uploading, At
<1>4. SourcingInv /\ HeldInv
  BY DEF SourcingInv, HeldInv, PoolsHoldApplicants, At
<1> QED
  BY <1>3, <1>4 DEF IInv

-----------------------------------------------------------------------------
\* A handler that goes on changes its own record only.
LEMMA Resumes ==
    ASSUME RowsInv, NEW r \in Request, NEW x, Goto(r, x)
    PROVE  /\ req' = [q \in Request |-> req'[q]]
           /\ req'[r] = x
           /\ \A q \in Request : q # r => req'[q] = req[q]
  BY DEF RowsInv, Goto

\* The awaits of handlers of CVs.
CvPcs == {"countCvs", "insertCv", "setPrimary", "deleteCv", "deleteFile", "attach", "findCv"}

\* A step to an await that is not about CVs leaves what is true of CVs.
LEMMA CvInvKept ==
    ASSUME CvInv, UNCHANGED cvTables, NEW r \in Request, NEW x, Goto(r, x), x.pc \notin CvPcs
    PROVE  CvInv'
<1> USE DEF CvInv
<1>1. /\ req' = [q \in Request |-> req'[q]]
      /\ req'[r] = x
      /\ \A q \in Request : q # r => req'[q] = req[q]
  BY Resumes
<1>2. Rows' = Rows /\ Cvs' = Cvs
  BY DEF Rows, Cvs, cvTables
<1>3. RowsInv' /\ FilesInv' /\ LinksInv'
  BY <1>1, <1>2 DEF RowsInv, FilesInv, LinksInv, cvTables
<1>4. UploadsInv'
  BY <1>1, <1>2 DEF UploadsInv, Uploading, At, CvPcs, cvTables
<1>5. UsesInv'
  BY <1>1, <1>2 DEF UsesInv, At, CvPcs, cvTables
<1> QED
  BY <1>3, <1>4, <1>5

\* A step that changes no CV may begin to use one that is there.
LEMMA CvUsed ==
    ASSUME CvInv, UNCHANGED cvTables, NEW r \in Request, NEW cv \in Rows, 
           NEW pc \in {"setPrimary", "deleteCv", "attach", "findCv"},
           pc = "findCv" => cv \in attached,
           Goto(r, [pc |-> pc, cv |-> cv])
    PROVE  CvInv'
<1> USE DEF CvInv
<1>1. /\ req' = [q \in Request |-> req'[q]]
      /\ req'[r] = [pc |-> pc, cv |-> cv]
      /\ \A q \in Request : q # r => req'[q] = req[q]
  BY Resumes
<1>2. Rows' = Rows /\ Cvs' = Cvs
  BY DEF Rows, Cvs, cvTables
<1>3. RowsInv' /\ FilesInv' /\ LinksInv'
  BY <1>1, <1>2 DEF RowsInv, FilesInv, LinksInv, cvTables
<1>4. UploadsInv'
  BY <1>1, <1>2 DEF UploadsInv, Uploading, At, cvTables
<1>5. UsesInv'
  BY <1>1, <1>2 DEF UsesInv, At, cvTables
<1> QED
  BY <1>3, <1>4, <1>5

\* Whoever has an application keeps it.
Applied == Applicants \subseteq Applicants'

\* A request that arrives at CandidatesService, applies with a CV or previews one.
LEMMA CvsBeginInv ==
    ASSUME CvInv, NEW r \in Request, CvsBegin(r)
    PROVE  CvInv' /\ Applied
<1> USE DEF CvInv
<1>1. ASSUME NEW c \in Candidate, UploadCvFile(r, c)
      PROVE  CvInv' /\ Applied
  <2>1. PICK f \in File \ uploaded :
          /\ files' = files \cup {f}
          /\ uploaded' = uploaded \cup {f}
          /\ Goto(r, [pc |-> "countCvs", candidate |-> c, file |-> f])
    BY <1>1 DEF UploadCvFile
  <2>2. /\ req' = [q \in Request |-> req'[q]]
        /\ req'[r] = [pc |-> "countCvs", candidate |-> c, file |-> f]
        /\ \A q \in Request : q # r => req'[q] = req[q]
    BY <2>1, Resumes
  <2>3. UNCHANGED <<cvs, attached, previews>>
    BY <1>1 DEF UploadCvFile
  <2>4. Rows' = Rows /\ Cvs' = Cvs /\ Cvs \subseteq Rows
    BY <2>3 DEF Rows, Cvs
  <2>5. RowsInv' /\ LinksInv' /\ FilesInv'
    BY <2>1, <2>2, <2>3, <2>4 DEF RowsInv, LinksInv, FilesInv
  <2>6. UploadsInv'
    BY <2>1, <2>2, <2>3, <2>4 DEF UploadsInv, Uploading, FilesInv, At
  <2>7. UsesInv'
    BY <2>2, <2>3, <2>4 DEF UsesInv, At
  <2>8. Applied
    BY <2>3 DEF Applied, Applicants
  <2> QED
    BY <2>5, <2>6, <2>7, <2>8
<1>2. ASSUME UNCHANGED cvTables
      PROVE  Applied
  BY <1>2 DEF Applied, Applicants, cvTables
<1>3. ASSUME UNCHANGED cvTables, Finish(r)
      PROVE  CvInv'
  BY <1>3, CvInvKept DEF Finish, Done, CvPcs
<1>4. ASSUME NEW cv \in Cv, NEW pc \in {"setPrimary", "deleteCv"}, OnOwnCv(r, cv, pc)
      PROVE  CvInv' /\ Applied
  <2>1. UNCHANGED cvTables /\ cv \in Rows
    BY <1>4 DEF OnOwnCv, Rows
  <2>2. CASE Goto(r, [pc |-> pc, cv |-> cv])
    BY <1>2, <2>1, <2>2, CvUsed
  <2>3. CASE Goto(r, Done)
    BY <1>2, <1>3, <2>1, <2>3 DEF Finish
  <2> QED
    BY <1>4, <2>2, <2>3 DEF OnOwnCv
<1>5. ASSUME NEW c \in Candidate, NEW asked \in Cv \cup {None}, ResolveCv(r, c, asked)
      PROVE  CvInv' /\ Applied
  <2>1. UNCHANGED cvTables
    BY <1>5 DEF ResolveCv
  <2>2. Resolved(c, asked) \subseteq Rows
    BY DEF Resolved, CvsOf, Cvs, Rows
  <2>3. ASSUME NEW cv \in Rows, Goto(r, [pc |-> "attach", cv |-> cv])
        PROVE  CvInv'
    BY <2>1, <2>3, CvUsed
  <2> QED
    BY <1>2, <1>3, <1>5, <2>1, <2>2, <2>3 DEF ResolveCv
<1>6. ASSUME NEW cv \in Cv, PreviewRead(r, cv)
      PROVE  CvInv' /\ Applied
  <2>1. UNCHANGED cvTables /\ cv \in attached /\ Goto(r, [pc |-> "findCv", cv |-> cv])
    BY <1>6 DEF PreviewRead
  <2>2. cv \in Rows
    BY <2>1 DEF LinksInv, Cvs, Rows
  <2> QED
    BY <1>2, <2>1, <2>2, CvUsed
<1> QED
  BY <1>1, <1>4, <1>5, <1>6 DEF CvsBegin, CandidatesController

\* A handler of CVs that goes on.
LEMMA ContinueCvInv ==
    ASSUME CvInv, NEW r \in Request, ContinueCv(r)
    PROVE  CvInv' /\ Applied
<1> USE DEF CvInv
<1>0. Cvs \subseteq Rows
  BY DEF Cvs, Rows
<1>1. ASSUME CountCvs(r)
      PROVE  CvInv' /\ Applied
  <2>1. /\ req' = [q \in Request |-> req'[q]]
        /\ req'[r] = [pc |-> "insertCv", candidate |-> req[r].candidate, file |-> req[r].file,
                      isPrimary |-> CvsOf(req[r].candidate) = {}]
        /\ \A q \in Request : q # r => req'[q] = req[q]
    BY <1>1, Resumes DEF CountCvs
  <2>2. UNCHANGED cvTables /\ Rows' = Rows /\ Cvs' = Cvs
    BY <1>1 DEF CountCvs, cvTables, Rows, Cvs
  <2>3. RowsInv' /\ LinksInv' /\ FilesInv' /\ Applied
    BY <2>1, <2>2 DEF RowsInv, LinksInv, FilesInv, cvTables, Applied, Applicants
  <2>4. /\ req'[r].candidate = req[r].candidate /\ req'[r].file = req[r].file
        /\ req'[r].isPrimary \in BOOLEAN /\ req'[r].pc = "insertCv"
        /\ req[r].pc = "countCvs"
    BY <1>1, <2>1 DEF CountCvs, At
  <2>5. UploadsInv'
    <3>1. \A q \in Request :
            /\ req'[q].pc \in {"countCvs", "insertCv"} <=> req[q].pc \in {"countCvs", "insertCv"}
            /\ Uploading(q) => /\ req'[q].candidate = req[q].candidate
                               /\ req'[q].file = req[q].file
      BY <2>1, <2>4 DEF Uploading
    <3>2. \A q \in Request : At(q, "insertCv")' => req'[q].isPrimary \in BOOLEAN
      BY <2>1, <2>4 DEF UploadsInv, Uploading, At
    <3>3. \A q \in Request : Uploading(q)' <=> Uploading(q)
      BY <3>1 DEF Uploading
    <3>4. ASSUME NEW q \in Request, Uploading(q)
          PROVE  /\ req'[q].candidate \in Candidate
                 /\ req'[q].file \in files \cap File
                 /\ \A cv \in Rows : cvs[cv].file # req'[q].file
                 /\ \A p \in Request : Uploading(p) /\ req'[p].file = req'[q].file => p = q
      BY <3>1, <3>4 DEF UploadsInv
    <3> QED
      BY <2>2, <3>2, <3>3, <3>4 DEF UploadsInv, Uploading, cvTables
  <2>6. UsesInv'
    BY <2>1, <2>2, <2>4 DEF UsesInv, At, cvTables
  <2> QED
    BY <2>3, <2>5, <2>6
<1>2. ASSUME InsertCv(r)
      PROVE  CvInv' /\ Applied
  <2>1. PICK cv \in Cv :
          /\ cvs[cv] = None
          /\ cvs' = [cvs EXCEPT ![cv] =
                [candidate |-> req[r].candidate, file |-> req[r].file,
                 isPrimary |-> req[r].isPrimary, deleted |-> FALSE]]
    BY <1>2 DEF InsertCv
  <2>2. /\ req' = [q \in Request |-> req'[q]]
        /\ req'[r] = Done
        /\ \A q \in Request : q # r => req'[q] = req[q]
    BY <1>2, Resumes DEF InsertCv, Finish
  <2>3. UNCHANGED <<files, uploaded, attached, previews>>
    BY <1>2 DEF InsertCv
  <2>4. /\ req[r].candidate \in Candidate
        /\ req[r].file \in files \cap File
        /\ req[r].isPrimary \in BOOLEAN
        /\ \A d \in Rows : cvs[d].file # req[r].file
    BY <1>2 DEF InsertCv, UploadsInv, Uploading, At
  <2> DEFINE row == [candidate |-> req[r].candidate, file |-> req[r].file,
                     isPrimary |-> req[r].isPrimary, deleted |-> FALSE]
  <2>41. row \in CvRow
    BY <2>4 DEF CvRow
  <2>42. row.file = req[r].file /\ ~ row.deleted
    OBVIOUS
  <2>43. cvs' = [cvs EXCEPT ![cv] = row]
    BY <2>1
  <2>5. /\ cvs' \in [Cv -> CvRow \cup {None}]
        /\ cvs'[cv] # None /\ cvs'[cv].file = req[r].file /\ ~ cvs'[cv].deleted
        /\ \A d \in Cv : d # cv => cvs'[d] = cvs[d]
    <3> HIDE DEF row
    <3> QED
      BY <2>41, <2>42, <2>43, CvAssumption DEF RowsInv
  <2>6. Rows' = Rows \cup {cv} /\ Cvs' = Cvs \cup {cv} /\ cv \notin Rows
    BY <2>1, <2>5 DEF Rows, Cvs
  <2>7. RowsInv'
    BY <2>2, <2>5 DEF RowsInv
  <2>8. FilesInv'
    BY <1>0, <2>3, <2>4, <2>5, <2>6 DEF FilesInv, Rows
  <2>9. UploadsInv'
    BY <1>2, <2>2, <2>3, <2>5, <2>6 DEF UploadsInv, Uploading, At, InsertCv, Done, Rows
  <2>10. UsesInv'
    BY <2>2, <2>3, <2>5, <2>6 DEF UsesInv, At, Done, Rows
  <2>11. LinksInv' /\ Applied
    BY <1>0, <2>3, <2>5, <2>6 DEF LinksInv, Rows, Applied, Applicants
  <2> QED
    BY <2>7, <2>8, <2>9, <2>10, <2>11
<1>3. ASSUME SetPrimaryCv(r)
      PROVE  CvInv' /\ Applied
  <2>1. CASE UNCHANGED cvs
    <3>1. UNCHANGED cvTables /\ Goto(r, Done)
      BY <1>3, <2>1 DEF SetPrimaryCv, cvTables, Finish
    <3>2. CvInv'
      BY <3>1, CvInvKept DEF Done, CvPcs
    <3> QED
      BY <3>1, <3>2 DEF Applied, Applicants, cvTables
  <2>2. CASE req[r].cv \in Cvs /\ MakePrimary(req[r].cv)
    <3>1. /\ req' = [q \in Request |-> req'[q]]
          /\ req'[r] = Done
          /\ \A q \in Request : q # r => req'[q] = req[q]
      BY <1>3, Resumes DEF SetPrimaryCv, Finish
    <3>2. UNCHANGED <<files, uploaded, attached, previews>>
      BY <1>3 DEF SetPrimaryCv
    <3>3. /\ cvs' \in [Cv -> CvRow \cup {None}]
          /\ \A d \in Cv : (cvs'[d] = None) <=> (cvs[d] = None)
          /\ \A d \in Rows : /\ cvs'[d].file = cvs[d].file
                             /\ cvs'[d].deleted = cvs[d].deleted
                             /\ cvs'[d].candidate = cvs[d].candidate
      <4> DEFINE theirs == CvsOf(cvs[req[r].cv].candidate)
                 row(d) == [cvs[d] EXCEPT !.isPrimary = (d = req[r].cv)]
      <4>1. cvs' = [d \in Cv |-> IF d \in theirs THEN row(d) ELSE cvs[d]]
        BY <2>2 DEF MakePrimary
      <4>2. ASSUME NEW d \in theirs
            PROVE  /\ d \in Rows /\ row(d) \in CvRow /\ row(d).file = cvs[d].file
                   /\ row(d).deleted = cvs[d].deleted
                   /\ row(d).candidate = cvs[d].candidate
        <5>1. d \in Rows /\ cvs[d] \in CvRow
          BY <4>2 DEF CvsOf, Cvs, Rows, RowsInv
        <5> QED
          BY <5>1 DEF CvRow
      <4> HIDE DEF theirs, row
      <4> QED
        BY <4>1, <4>2, CvAssumption DEF RowsInv, Rows
    <3>4. Rows' = Rows /\ Cvs' = Cvs
      BY <3>3 DEF Rows, Cvs
    <3>5. RowsInv'
      BY <3>1, <3>3 DEF RowsInv
    <3>6. FilesInv' /\ LinksInv' /\ Applied
      BY <1>0, <3>2, <3>3, <3>4 DEF FilesInv, LinksInv, Applied, Applicants
    <3>7. UploadsInv'
      BY <3>1, <3>2, <3>3, <3>4 DEF UploadsInv, Uploading, At, Done
    <3>8. UsesInv'
      BY <3>1, <3>2, <3>3, <3>4 DEF UsesInv, At, Done
    <3> QED
      BY <3>5, <3>6, <3>7, <3>8
  <2> QED
    BY <1>3, <2>1, <2>2 DEF SetPrimaryCv
<1>4. ASSUME DeleteCvRow(r)
      PROVE  CvInv' /\ Applied
  <2> DEFINE cv == req[r].cv
  <2>1. CASE cv \in Cvs \ attached
    <3>1. /\ req' = [q \in Request |-> req'[q]]
          /\ req'[r] = [pc |-> "deleteFile", file |-> cvs[cv].file]
          /\ \A q \in Request : q # r => req'[q] = req[q]
      BY <1>4, <2>1, Resumes DEF DeleteCvRow
    <3>2. UNCHANGED <<files, uploaded, attached, previews>>
      BY <1>4 DEF DeleteCvRow
    <3>3. /\ cvs' \in [Cv -> CvRow \cup {None}]
          /\ \A d \in Cv : (cvs'[d] = None) <=> (cvs[d] = None)
          /\ \A d \in Rows : /\ cvs'[d].file = cvs[d].file
                             /\ cvs'[d].deleted <=> (d = cv \/ cvs[d].deleted)
                             /\ cvs'[d].candidate = cvs[d].candidate
      <4>1. cvs[cv] \in CvRow /\ cv \in Cv
        BY <2>1 DEF RowsInv, Cvs
      <4> DEFINE row == [cvs[cv] EXCEPT !.deleted = TRUE]
      <4>2. /\ row \in CvRow
            /\ row.file = cvs[cv].file
            /\ row.deleted
            /\ row.candidate = cvs[cv].candidate
        BY <4>1 DEF CvRow
      <4>3. cvs' = [cvs EXCEPT ![cv] = row]
        BY <1>4, <2>1 DEF DeleteCvRow
      <4>4. \A d \in Cv : cvs'[d] = IF d = cv THEN row ELSE cvs[d]
        BY <4>3 DEF RowsInv
      <4> HIDE DEF row
      <4>5. cvs' \in [Cv -> CvRow \cup {None}]
        BY <4>2, <4>3 DEF RowsInv
      <4>6. \A d \in Cv : (cvs'[d] = None) <=> (cvs[d] = None)
        BY <4>1, <4>2, <4>4, CvAssumption
      <4> QED
        BY <4>2, <4>4, <4>5, <4>6 DEF Rows
    <3>4. Rows' = Rows /\ Cvs' = Cvs \ {cv} /\ cv \in Rows
      BY <1>0, <2>1, <3>3 DEF Rows, Cvs
    <3>5. RowsInv'
      BY <3>1, <3>3 DEF RowsInv
    <3>6. FilesInv' /\ LinksInv' /\ Applied
      BY <1>0, <2>1, <3>2, <3>3, <3>4 DEF FilesInv, LinksInv, Applied, Applicants
    <3>7. UploadsInv'
      BY <3>1, <3>2, <3>3, <3>4 DEF UploadsInv, Uploading, At
    <3>8. UsesInv'
      <4>1. cvs'[cv].deleted /\ cvs'[cv].file = req'[r].file
        BY <3>1, <3>3, <3>4
      <4>2. \A q \in Request : At(q, "deleteFile")' =>
              \E d \in Rows : cvs'[d].deleted /\ cvs'[d].file = req'[q].file
        BY <3>1, <3>3, <3>4, <4>1 DEF UsesInv, At
      <4>3. \A q \in Request :
              /\ req'[q].pc \in {"setPrimary", "deleteCv", "attach"} => req'[q].cv \in Rows
              /\ At(q, "findCv")' => req'[q].cv \in attached
        BY <3>1 DEF UsesInv, At
      <4> QED
        BY <3>2, <3>4, <4>2, <4>3 DEF UsesInv
    <3> QED
      BY <3>5, <3>6, <3>7, <3>8
  <2>2. CASE cv \notin Cvs \ attached
    <3>1. UNCHANGED cvTables /\ Goto(r, Done)
      BY <1>4, <2>2 DEF DeleteCvRow, cvTables, Finish
    <3>2. CvInv'
      BY <3>1, CvInvKept DEF Done, CvPcs
    <3> QED
      BY <3>1, <3>2 DEF Applied, Applicants, cvTables
  <2> QED
    BY <2>1, <2>2
<1>5. ASSUME DeleteCvFile(r)
      PROVE  CvInv' /\ Applied
  <2>1. /\ req' = [q \in Request |-> req'[q]]
        /\ req'[r] = Done
        /\ \A q \in Request : q # r => req'[q] = req[q]
    BY <1>5, Resumes DEF DeleteCvFile, Finish
  <2>2. files' = files \ {req[r].file} /\ UNCHANGED <<cvs, uploaded, attached, previews>>
    BY <1>5 DEF DeleteCvFile
  <2>3. Rows' = Rows /\ Cvs' = Cvs
    BY <2>2 DEF Rows, Cvs
  <2>4. PICK d \in Rows : cvs[d].deleted /\ cvs[d].file = req[r].file
    BY <1>5 DEF DeleteCvFile, UsesInv
  <2>5. d \notin Cvs
    BY <2>4 DEF Cvs
  <2>6. RowsInv' /\ LinksInv' /\ Applied
    BY <2>1, <2>2, <2>3 DEF RowsInv, LinksInv, Applied, Applicants
  <2>7. FilesInv'
    BY <1>0, <2>2, <2>3, <2>4, <2>5 DEF FilesInv
  <2>8. UploadsInv'
    BY <2>1, <2>2, <2>3, <2>4 DEF UploadsInv, Uploading, At, Done
  <2>9. UsesInv'
    BY <2>1, <2>2, <2>3 DEF UsesInv, At, Done
  <2> QED
    BY <2>6, <2>7, <2>8, <2>9
<1>6. ASSUME AttachCv(r)
      PROVE  CvInv' /\ Applied
  <2>1. /\ req' = [q \in Request |-> req'[q]]
        /\ req'[r] = Done
        /\ \A q \in Request : q # r => req'[q] = req[q]
    BY <1>6, Resumes DEF AttachCv, Finish
  <2>2. /\ attached' = attached \cup ({req[r].cv} \cap Cvs)
        /\ UNCHANGED <<cvs, files, uploaded, previews>>
    BY <1>6 DEF AttachCv
  <2>3. Rows' = Rows /\ Cvs' = Cvs
    BY <2>2 DEF Rows, Cvs
  <2>4. RowsInv' /\ FilesInv' /\ LinksInv' /\ Applied
    BY <2>1, <2>2, <2>3 DEF RowsInv, FilesInv, LinksInv, Applied, Applicants
  <2>5. UploadsInv'
    BY <2>1, <2>2, <2>3 DEF UploadsInv, Uploading, At, Done
  <2>6. UsesInv'
    BY <2>1, <2>2, <2>3 DEF UsesInv, At, Done
  <2> QED
    BY <2>4, <2>5, <2>6
<1>7. ASSUME PreviewLink(r)
      PROVE  CvInv' /\ Applied
  <2>1. /\ req' = [q \in Request |-> req'[q]]
        /\ req'[r] = Done
        /\ \A q \in Request : q # r => req'[q] = req[q]
    BY <1>7, Resumes DEF PreviewLink, Finish
  <2>2. /\ previews' = previews \cup {cvs[cv].file : cv \in {req[r].cv} \cap Cvs}
        /\ UNCHANGED <<cvs, files, uploaded, attached>>
    BY <1>7 DEF PreviewLink
  <2>3. Rows' = Rows /\ Cvs' = Cvs
    BY <2>2 DEF Rows, Cvs
  <2>4. req[r].cv \in attached
    BY <1>7 DEF PreviewLink, UsesInv
  <2>5. RowsInv' /\ FilesInv' /\ LinksInv' /\ Applied
    BY <2>1, <2>2, <2>3, <2>4 DEF RowsInv, FilesInv, LinksInv, Applied, Applicants
  <2>6. UploadsInv'
    BY <2>1, <2>2, <2>3 DEF UploadsInv, Uploading, At, Done
  <2>7. UsesInv'
    BY <2>1, <2>2, <2>3 DEF UsesInv, At, Done
  <2> QED
    BY <2>5, <2>6, <2>7
<1> QED
  BY <1>1, <1>2, <1>3, <1>4, <1>5, <1>6, <1>7 DEF ContinueCv

-----------------------------------------------------------------------------
\* The awaits of handlers of pools and partnerships.
SourcingPcs == {"hasApplied", "addCandidate", "removeCandidate", "partner"}

\* The awaits to which no part of the invariant is attached.
OtherPcs == {"done", "deleteRows", "insertRows", "removeTemplate", "pay"}

\* A step to an await of another service leaves what is true of pools.
LEMMA SourcingKept ==
    ASSUME RowsInv, SourcingInv, HeldInv, Applied, UNCHANGED sourcingTables,
           NEW r \in Request, NEW x, Goto(r, x), x.pc \in CvPcs \cup OtherPcs \cup {"lost"}
    PROVE  SourcingInv' /\ HeldInv'
<1>1. /\ req'[r] = x
      /\ \A q \in Request : q # r => req'[q] = req[q]
  BY Resumes
<1>2. x.pc \notin SourcingPcs \cup {"subscribe"}
  BY DEF CvPcs, OtherPcs, SourcingPcs
<1>3. PoolsHoldApplicants'
  BY DEF SourcingInv, PoolsHoldApplicants, sourcingTables, Applied
<1>4. SourcingInv'
  BY <1>1, <1>2, <1>3 DEF SourcingInv, sourcingTables, Applied, At, SourcingPcs
<1>5. HeldInv'
  BY <1>1, <1>2 DEF HeldInv, At, SourcingPcs
<1> QED
  BY <1>4, <1>5

\* A handler of CVs goes on to an await of its own, or ends.
LEMMA CvGoto ==
    ASSUME NEW r \in Request, CvsBegin(r) \/ ContinueCv(r)
    PROVE  \E x : Goto(r, x) /\ x.pc \in CvPcs \cup {"done"}
<1> DEFINE GoesOn(x) == Goto(r, x) /\ x.pc \in CvPcs \cup {"done"}
<1> USE DEF CvPcs
<1>1. Done.pc = "done"
  BY DEF Done
<1>2. ASSUME Finish(r)
      PROVE  \E x : GoesOn(x)
  BY <1>1, <1>2 DEF Finish
<1>3. ASSUME CvsBegin(r)
      PROVE  \E x : GoesOn(x)
  <2>1. CASE \E c \in Candidate : UploadCvFile(r, c)
    BY <2>1 DEF UploadCvFile
  <2>2. CASE \E cv \in Cv, pc \in {"setPrimary", "deleteCv"} : OnOwnCv(r, cv, pc)
    BY <1>1, <2>2 DEF OnOwnCv
  <2>3. CASE \E c \in Candidate, asked \in Cv \cup {None} : ResolveCv(r, c, asked)
    <3>1. PICK c \in Candidate, asked \in Cv \cup {None} : ResolveCv(r, c, asked)
      BY <2>3
    <3>2. ASSUME NEW cv, Goto(r, [pc |-> "attach", cv |-> cv])
          PROVE  \E x : GoesOn(x)
      BY <3>2
    <3> QED
      BY <1>2, <3>1, <3>2 DEF ResolveCv
  <2>4. CASE \E cv \in Cv : PreviewRead(r, cv)
    BY <2>4 DEF PreviewRead
  <2> QED
    BY <1>3, <2>1, <2>2, <2>3, <2>4 DEF CvsBegin, CandidatesController
<1>4. ASSUME ContinueCv(r)
      PROVE  \E x : GoesOn(x)
  <2>1. CASE CountCvs(r)
    BY <2>1 DEF CountCvs
  <2>2. CASE DeleteCvRow(r)
    BY <1>2, <2>2 DEF DeleteCvRow
  <2>3. CASE ~ CountCvs(r) /\ ~ DeleteCvRow(r)
    BY <1>2, <1>4, <2>3
       DEF ContinueCv, InsertCv, SetPrimaryCv, DeleteCvFile, AttachCv, PreviewLink
  <2> QED
    BY <2>1, <2>2, <2>3
<1> QED
  BY <1>3, <1>4

\* So does a handler of lists.
LEMMA ListGoto ==
    ASSUME NEW r \in Request, BeginList(r) \/ ContinueList(r)
    PROVE  \E x : Goto(r, x) /\ x.pc \in OtherPcs
<1>1. Done.pc = "done"
  BY DEF Done
<1>2. CASE \E l \in ProfileList, n \in 0 .. MaxRows : ReplaceProfileList(r, l, n)
  BY <1>2 DEF ReplaceProfileList, OtherPcs
<1>3. CASE PipelineTemplatesController(r)
  <2> PICK l \in TemplateList, n \in 1 .. MaxRows :
        CreateTemplate(r, l, n) \/ UpdateTemplate(r, l, n) \/ RemoveTemplateRead(r, l)
    BY <1>3 DEF PipelineTemplatesController
  <2>1. CASE CreateTemplate(r, l, n)
    BY <1>1, <2>1 DEF CreateTemplate, Finish, OtherPcs
  <2>2. CASE UpdateTemplate(r, l, n)
    BY <1>1, <2>2 DEF UpdateTemplate, OtherPcs
  <2>3. CASE RemoveTemplateRead(r, l)
    BY <1>1, <2>3 DEF RemoveTemplateRead, OtherPcs
  <2> QED
    BY <2>1, <2>2, <2>3
<1>4. CASE ContinueList(r)
  <2>1. CASE DeleteRows(r)
    BY <2>1 DEF DeleteRows, OtherPcs
  <2>2. CASE InsertRows(r) \/ RemoveTemplate(r)
    BY <1>1, <2>2 DEF InsertRows, RemoveTemplate, Finish, OtherPcs
  <2> QED
    BY <1>4, <2>1, <2>2 DEF ContinueList
<1> QED
  BY <1>2, <1>3, <1>4 DEF BeginList

\* The selection of a plan does not disturb CVs and pools.
LEMMA SubscriptionStepInv ==
    ASSUME IInv, NEW r \in Request, SubscriptionStep(r)
    PROVE  IInv'
<1> USE DEF IInv, CvInv
<1>1. UNCHANGED cvTables /\ UNCHANGED sourcingTables
  BY DEF SubscriptionStep
<1>2. Applied
  BY <1>1 DEF Applied, Applicants, cvTables
<1>3. ASSUME NEW x, Goto(r, x), x.pc \in OtherPcs
      PROVE  IInv'
  <2>1. CvInv'
    BY <1>1, <1>3, CvInvKept DEF OtherPcs, CvPcs
  <2>2. SourcingInv' /\ HeldInv'
    BY <1>1, <1>2, <1>3, SourcingKept
  <2> QED
    BY <2>1, <2>2
<1>4. Done.pc = "done"
  BY DEF Done
<1>5. ASSUME NEW p \in Plan, SelectPlan(r, p)
      PROVE  IInv'
  <2>1. Goto(r, [pc |-> "subscribe", plan |-> p])
    BY <1>5 DEF SelectPlan
  <2>2. /\ req'[r] = [pc |-> "subscribe", plan |-> p]
        /\ \A q \in Request : q # r => req'[q] = req[q]
    BY <2>1, Resumes
  <2>3. CvInv'
    BY <1>1, <2>1, CvInvKept DEF CvPcs
  <2>4. PoolsHoldApplicants'
    BY <1>1, <1>2 DEF SourcingInv, PoolsHoldApplicants, sourcingTables, Applied
  <2>5. SourcingInv'
    BY <1>1, <1>2, <2>2, <2>4 DEF SourcingInv, sourcingTables, Applied, At
  <2>6. HeldInv'
    BY <2>2 DEF HeldInv, At
  <2> QED
    BY <2>3, <2>5, <2>6
<1>6. ASSUME Subscribe(r)
      PROVE  IInv'
  <2>1. [req[r] EXCEPT !.pc = "pay"].pc = "pay"
    BY <1>6 DEF Subscribe, HeldInv, At
  <2> QED
    BY <1>3, <1>4, <1>6, <2>1 DEF Subscribe, OtherPcs
<1>7. ASSUME CreatePayment(r)
      PROVE  IInv'
  BY <1>3, <1>4, <1>7 DEF CreatePayment, Finish, OtherPcs
<1> QED
  BY <1>5, <1>6, <1>7 DEF SubscriptionStep, ContinueSubscription

\* A step of a recruiter's handler: what it found is still there when it writes.
LEMMA SourcingStepInv ==
    ASSUME IInv, NEW r \in Request, SourcingStep(r)
    PROVE  IInv'
<1> USE DEF IInv, CvInv
<1>1. UNCHANGED cvTables
  BY DEF SourcingStep
<1>2. Applicants' = Applicants
  BY <1>1 DEF Applicants, cvTables
<1>3. ASSUME NEW x, Goto(r, x), x.pc \in SourcingPcs \cup {"done"},
             /\ pools \subseteq pools' /\ universities \subseteq universities'
             /\ PoolsHoldApplicants'
             /\ x.pc \in {"hasApplied", "addCandidate"} => x.pool \in pools'
             /\ x.pc = "addCandidate" => x.candidate \in Applicants
             /\ x.pc = "partner" => x.university \in universities'
             /\ x.pc = "hasApplied" =>
                  x = [pc |-> "hasApplied", pool |-> x.pool, candidate |-> x.candidate]
      PROVE  IInv'
  <2>1. /\ req'[r] = x
        /\ \A q \in Request : q # r => req'[q] = req[q]
    BY <1>3, Resumes
  <2>2. CvInv'
    BY <1>1, <1>3, CvInvKept DEF CvPcs, SourcingPcs
  <2>3. SourcingInv'
    BY <1>2, <1>3, <2>1 DEF SourcingInv, At
  <2>4. HeldInv'
    BY <1>3, <2>1 DEF HeldInv, At, SourcingPcs
  <2> QED
    BY <2>2, <2>3, <2>4
<1>4. /\ Done.pc = "done"
      /\ Done.pc \notin {"hasApplied", "addCandidate", "partner"}
  BY DEF Done
<1>5. ASSUME Finish(r), pools \subseteq pools', universities \subseteq universities',
             PoolsHoldApplicants'
      PROVE  IInv'
  BY <1>3, <1>4, <1>5 DEF Finish
<1>6. PoolsHoldApplicants
  BY DEF SourcingInv
<1>7. ASSUME UNCHANGED sourcingTables
      PROVE  /\ pools' = pools /\ universities' = universities
             /\ PoolsHoldApplicants'
  BY <1>2, <1>6, <1>7 DEF sourcingTables, PoolsHoldApplicants
<1>8. ASSUME CreatePool(r)
      PROVE  IInv'
  BY <1>2, <1>5, <1>6, <1>8 DEF CreatePool, PoolsHoldApplicants
<1>9. ASSUME NEW p \in Pool, NEW c \in Person, NEW pc \in {"hasApplied", "removeCandidate"},
             RequirePool(r, p, c, pc)
      PROVE  IInv'
  <2>1. Goto(r, [pc |-> pc, pool |-> p, candidate |-> c]) /\ p \in pools
    BY <1>9 DEF RequirePool
  <2> QED
    BY <1>3, <1>7, <1>9, <2>1 DEF RequirePool, SourcingPcs
<1>10. ASSUME HasApplied(r, Applicants)
       PROVE  IInv'
  <2>1. CASE req[r].candidate \in Applicants
    <3>1. req[r] = [pc |-> "hasApplied", pool |-> req[r].pool, candidate |-> req[r].candidate]
      BY <1>10 DEF HasApplied, HeldInv
    <3> DEFINE x == [req[r] EXCEPT !.pc = "addCandidate"]
    <3>2. /\ x.pc = "addCandidate" /\ x.pool = req[r].pool
          /\ x.candidate = req[r].candidate
      BY <3>1
    <3>3. Goto(r, x)
      BY <1>10, <2>1 DEF HasApplied
    <3>4. x.pool \in pools
      BY <1>10, <3>2 DEF HasApplied, SourcingInv, At
    <3> HIDE DEF x
    <3> QED
      BY <1>3, <1>7, <1>10, <2>1, <3>2, <3>3, <3>4 DEF HasApplied, SourcingPcs
  <2>2. CASE req[r].candidate \notin Applicants
    BY <1>5, <1>7, <1>10, <2>2 DEF HasApplied, Finish
  <2> QED
    BY <2>1, <2>2
<1>11. ASSUME AddCandidate(r)
       PROVE  IInv'
  <2>1. req[r].pool \in pools /\ req[r].candidate \in Applicants
    BY <1>11 DEF AddCandidate, SourcingInv, At
  <2>2. PoolsHoldApplicants'
    BY <1>2, <1>6, <1>11, <2>1 DEF AddCandidate, PoolsHoldApplicants
  <2> QED
    BY <1>5, <1>11, <2>2 DEF AddCandidate
<1>12. ASSUME RemoveCandidate(r)
       PROVE  IInv'
  BY <1>2, <1>5, <1>6, <1>12 DEF RemoveCandidate, PoolsHoldApplicants
<1>13. ASSUME NEW u \in University, CreateUniversity(r, u) \/ RemovePartnership(r, u)
       PROVE  IInv'
  BY <1>2, <1>5, <1>6, <1>13 DEF CreateUniversity, RemovePartnership, PoolsHoldApplicants
<1>14. ASSUME NEW u \in University, PartnershipRead(r, u)
       PROVE  IInv'
  <2>1. CASE u \in universities
    <3>1. Goto(r, [pc |-> "partner", university |-> u])
      BY <1>14, <2>1 DEF PartnershipRead
    <3> QED
      BY <1>3, <1>7, <1>14, <2>1, <3>1 DEF PartnershipRead, SourcingPcs
  <2>2. CASE u \notin universities
    BY <1>5, <1>7, <1>14, <2>2 DEF PartnershipRead, Finish
  <2> QED
    BY <2>1, <2>2
<1>15. ASSUME CreatePartnership(r)
       PROVE  IInv'
  <2>1. req[r].university \in universities
    BY <1>15 DEF CreatePartnership, SourcingInv, At
  <2>2. PoolsHoldApplicants'
    BY <1>2, <1>6, <1>15, <2>1 DEF CreatePartnership, PoolsHoldApplicants
  <2> QED
    BY <1>5, <1>15, <2>2 DEF CreatePartnership
<1> QED
  BY <1>8, <1>9, <1>10, <1>11, <1>12, <1>13, <1>14, <1>15
     DEF SourcingStep, TalentPoolsController, UniversitiesController, ContinueSourcing

\* Every step keeps the inductive invariant.
LEMMA StepIInv == IInv /\ [Next]_vars => IInv'
<1> SUFFICES ASSUME IInv, [Next]_vars PROVE IInv'
  OBVIOUS
<1> USE DEF IInv, CvInv
<1>1. ASSUME NEW r \in Request, CvsBegin(r) \/ ContinueCvs(r)
      PROVE  IInv'
  <2>1. UNCHANGED sourcingTables
    BY <1>1 DEF CvsBegin, ContinueCvs
  <2>2. CvInv' /\ Applied
    BY <1>1, CvsBeginInv, ContinueCvInv DEF ContinueCvs
  <2>3. PICK x : Goto(r, x) /\ x.pc \in CvPcs \cup OtherPcs
    BY <1>1, CvGoto DEF ContinueCvs, OtherPcs
  <2> QED
    BY <2>1, <2>2, <2>3, SourcingKept
<1>2. ASSUME NEW r \in Request, NEW x, Goto(r, x), x.pc \in OtherPcs \cup {"lost"},
             UNCHANGED cvTables, UNCHANGED sourcingTables
      PROVE  IInv'
  <2>1. CvInv'
    BY <1>2, CvInvKept DEF OtherPcs, CvPcs
  <2>2. Applied
    BY <1>2 DEF Applied, Applicants, cvTables
  <2> QED
    BY <1>2, <2>1, <2>2, SourcingKept
<1>3. ASSUME NEW r \in Request, ListStep(r)
      PROVE  IInv'
  <2>1. PICK x : Goto(r, x) /\ x.pc \in OtherPcs
    BY <1>3, ListGoto DEF ListStep
  <2> QED
    BY <1>2, <1>3, <2>1 DEF ListStep
<1>4. ASSUME NEW r \in Request, Fail(r)
      PROVE  IInv'
  <2>1. Lost.pc = "lost"
    BY DEF Lost
  <2> QED
    BY <1>2, <1>4, <2>1 DEF Fail, Fails
<1>5. ASSUME previews' \subseteq previews, UNCHANGED <<cvs, files, uploaded, attached, req>>,
             UNCHANGED sourcingTables
      PROVE  IInv'
  <2>1. Rows' = Rows /\ Cvs' = Cvs /\ Applicants' = Applicants
    BY <1>5 DEF Rows, Cvs, Applicants
  <2>2. RowsInv' /\ FilesInv' /\ LinksInv'
    BY <1>5, <2>1 DEF RowsInv, FilesInv, LinksInv
  <2>3. UploadsInv' /\ UsesInv'
    BY <1>5, <2>1 DEF UploadsInv, UsesInv, Uploading, At
  <2>4. SourcingInv' /\ HeldInv'
    BY <1>5, <2>1 DEF SourcingInv, HeldInv, PoolsHoldApplicants, sourcingTables, At
  <2> QED
    BY <2>2, <2>3, <2>4
<1>6. ASSUME Clock \/ UNCHANGED vars
      PROVE  IInv'
  BY <1>5, <1>6 DEF Clock, LinkExpires, vars, cvTables
<1>7. ASSUME NEW r \in Request, SubscriptionStep(r) \/ SourcingStep(r)
      PROVE  IInv'
  BY <1>7, SubscriptionStepInv, SourcingStepInv
<1> QED
  BY <1>1, <1>3, <1>4, <1>6, <1>7 DEF Next, Quiescent

-----------------------------------------------------------------------------
\* A step of r that does not cut it off.
Goes(r) ==
    /\ req[r].pc # "lost" /\ req'[r].pc # "lost"
    /\ \A q \in Request : q # r => req'[q] = req[q]

\* Only a failure cuts a request off.
LEMMA StepGoes ==
    ASSUME IInv, NEW r \in Request,
           \/ CvsBegin(r) \/ ContinueCvs(r) \/ ListStep(r)
           \/ SubscriptionStep(r) \/ SourcingStep(r)
    PROVE  Goes(r)
<1> USE DEF IInv, CvInv
<1>1. /\ Idle.pc # "lost" /\ Done.pc # "lost"
      /\ \A pc : At(r, pc) => req[r].pc = pc
  BY DEF Idle, Done, At
<1>2. ASSUME NEW x, Goto(r, x), x.pc # "lost", req[r].pc # "lost"
      PROVE  Goes(r)
  BY <1>2, Resumes DEF Goes
<1>3. ASSUME CvsBegin(r) \/ ContinueCvs(r)
      PROVE  Goes(r)
  <2>1. PICK x : Goto(r, x) /\ x.pc \in CvPcs \cup {"done"}
    BY <1>3, CvGoto DEF ContinueCvs
  <2>2. req[r].pc # "lost"
    BY <1>1, <1>3
       DEF CvsBegin, ContinueCvs, ContinueCv, CandidatesController, UploadCvFile, OnOwnCv,
           ResolveCv, PreviewRead, Arrives, CountCvs, InsertCv, SetPrimaryCv, DeleteCvRow,
           DeleteCvFile, AttachCv, PreviewLink
  <2> QED
    BY <1>2, <2>1, <2>2 DEF CvPcs
<1>4. ASSUME ListStep(r)
      PROVE  Goes(r)
  <2>1. PICK x : Goto(r, x) /\ x.pc \in OtherPcs
    BY <1>4, ListGoto DEF ListStep
  <2>2. req[r].pc # "lost"
    BY <1>1, <1>4
       DEF ListStep, BeginList, ContinueList, PipelineTemplatesController, ReplaceProfileList,
           CreateTemplate, UpdateTemplate, RemoveTemplateRead, Arrives, DeleteRows,
           InsertRows, RemoveTemplate
  <2> QED
    BY <1>2, <2>1, <2>2 DEF OtherPcs
<1>5. ASSUME SubscriptionStep(r)
      PROVE  Goes(r)
  <2>1. ASSUME Subscribe(r)
        PROVE  Goes(r)
    <3>1. [req[r] EXCEPT !.pc = "pay"].pc = "pay" /\ req[r].pc = "subscribe"
      BY <2>1 DEF Subscribe, HeldInv, At
    <3> QED
      BY <1>1, <1>2, <2>1, <3>1 DEF Subscribe
  <2>2. ASSUME NEW p \in Plan, SelectPlan(r, p)
        PROVE  Goes(r)
    BY <1>1, <1>2, <2>2 DEF SelectPlan, Arrives
  <2>3. ASSUME CreatePayment(r)
        PROVE  Goes(r)
    BY <1>1, <1>2, <2>3 DEF CreatePayment, Finish
  <2> QED
    BY <1>5, <2>1, <2>2, <2>3 DEF SubscriptionStep, ContinueSubscription
<1>6. ASSUME SourcingStep(r)
      PROVE  Goes(r)
  <2>1. ASSUME HasApplied(r, Applicants)
        PROVE  Goes(r)
    <3>1. [req[r] EXCEPT !.pc = "addCandidate"].pc = "addCandidate" /\ req[r].pc = "hasApplied"
      BY <2>1 DEF HasApplied, HeldInv, At
    <3> QED
      BY <1>1, <1>2, <2>1, <3>1 DEF HasApplied
  <2>2. ASSUME NEW p \in Pool, NEW c \in Person, NEW pc \in {"hasApplied", "removeCandidate"},
               RequirePool(r, p, c, pc)
        PROVE  Goes(r)
    BY <1>1, <1>2, <2>2 DEF RequirePool, Arrives
  <2>3. ASSUME NEW u \in University, PartnershipRead(r, u)
        PROVE  Goes(r)
    BY <1>1, <1>2, <2>3 DEF PartnershipRead, Arrives
  <2>4. ASSUME Finish(r), req[r].pc # "lost"
        PROVE  Goes(r)
    BY <1>1, <1>2, <2>4 DEF Finish
  <2>5. ASSUME NEW u \in University, CreateUniversity(r, u) \/ RemovePartnership(r, u)
        PROVE  Goes(r)
    BY <1>1, <2>4, <2>5 DEF CreateUniversity, RemovePartnership, Arrives
  <2>6. ASSUME CreatePool(r) \/ AddCandidate(r) \/ RemoveCandidate(r) \/ CreatePartnership(r)
        PROVE  Goes(r)
    BY <1>1, <2>4, <2>6
       DEF CreatePool, AddCandidate, RemoveCandidate, CreatePartnership, Arrives
  <2> QED
    BY <1>6, <2>1, <2>2, <2>3, <2>5, <2>6
       DEF SourcingStep, TalentPoolsController, UniversitiesController, ContinueSourcing
<1> QED
  BY <1>3, <1>4, <1>5, <1>6

\* The files of the CVs that are there.
Referred == {cvs[cv].file : cv \in Cvs}

\* A step of a handler is a step of the file store, or none of its business.
LEMMA HandlerStores ==
    ASSUME IInv, NEW r \in Request, CvsBegin(r) \/ ContinueCvs(r)
    PROVE  \/ UNCHANGED <<files, Referred>>
           \/ \E f \in File :
                \/ files' = files \cup {f} /\ UNCHANGED Referred
                \/ f \in files \ Referred /\ Referred' = Referred \cup {f} /\ UNCHANGED files
                \/ f \in Referred /\ Referred' = Referred \ {f} /\ UNCHANGED files
                \/ f \in files \ Referred /\ files' = files \ {f} /\ UNCHANGED Referred
<1> USE DEF IInv, CvInv
<1>0. Cvs \subseteq Rows
  BY DEF Cvs, Rows
<1>1. ASSUME UNCHANGED <<cvs, files>>
      PROVE  UNCHANGED <<files, Referred>>
  BY <1>1 DEF Referred, Cvs
<1>2. ASSUME NEW c \in Candidate, UploadCvFile(r, c)
      PROVE  \E f \in File : files' = files \cup {f} /\ UNCHANGED Referred
  BY <1>2 DEF UploadCvFile, Referred, Cvs
<1>3. CASE CvsBegin(r)
  BY <1>1, <1>2, <1>3
     DEF CvsBegin, CandidatesController, OnOwnCv, ResolveCv, PreviewRead, cvTables
<1>4. ASSUME InsertCv(r)
      PROVE  \E f \in File :
               f \in files \ Referred /\ Referred' = Referred \cup {f} /\ UNCHANGED files
  <2> DEFINE f == req[r].file
  <2>1. f \in File /\ f \in files /\ \A cv \in Rows : cvs[cv].file # f
    BY <1>4 DEF InsertCv, UploadsInv, Uploading, At
  <2>2. f \notin Referred
    BY <1>0, <2>1 DEF Referred
  <2> DEFINE row == [candidate |-> req[r].candidate, file |-> f,
                     isPrimary |-> req[r].isPrimary, deleted |-> FALSE]
  <2>3. PICK cv \in Cv : cvs[cv] = None /\ cvs' = [cvs EXCEPT ![cv] = row]
    BY <1>4 DEF InsertCv
  <2>4. row \in CvRow /\ row.file = f /\ ~ row.deleted
    BY <1>4, <2>1 DEF InsertCv, UploadsInv, Uploading, At, CvRow
  <2>5. cv \notin Cvs
    BY <2>3 DEF Cvs
  <2> HIDE DEF row
  <2>6. \A d \in Cv : cvs'[d] = IF d = cv THEN row ELSE cvs[d]
    BY <2>3 DEF RowsInv
  <2>7. Cvs' = Cvs \cup {cv}
    BY <2>4, <2>6, CvAssumption DEF Cvs
  <2>8. Referred' = Referred \cup {f}
    BY <2>4, <2>5, <2>6, <2>7 DEF Referred, Cvs
  <2> QED
    BY <1>4, <2>1, <2>2, <2>8 DEF InsertCv
<1>5. ASSUME SetPrimaryCv(r)
      PROVE  UNCHANGED <<files, Referred>>
  <2>1. UNCHANGED files
    BY <1>5 DEF SetPrimaryCv
  <2>2. CASE MakePrimary(req[r].cv)
    <3>1. /\ \A d \in Cv : (cvs'[d] = None) <=> (cvs[d] = None)
          /\ \A d \in Rows : /\ cvs'[d].file = cvs[d].file
                             /\ cvs'[d].deleted <=> cvs[d].deleted
      BY ZenonT(40), <2>2, CvAssumption DEF MakePrimary, RowsInv, CvRow, CvsOf, Cvs, Rows
    <3>2. Cvs' = Cvs
      BY <3>1 DEF Cvs, Rows
    <3> QED
      BY <1>0, <2>1, <3>1, <3>2 DEF Referred
  <2> QED
    BY <1>1, <1>5, <2>1, <2>2 DEF SetPrimaryCv
<1>6. ASSUME DeleteCvRow(r)
      PROVE  \/ UNCHANGED <<files, Referred>>
             \/ \E f \in File :
                  f \in Referred /\ Referred' = Referred \ {f} /\ UNCHANGED files
  <2> DEFINE cv == req[r].cv
  <2>1. CASE cv \in Cvs \ attached
    <3>1. cvs[cv] \in CvRow /\ cv \in Cv
      BY <2>1 DEF RowsInv, Cvs
    <3> DEFINE row == [cvs[cv] EXCEPT !.deleted = TRUE]
    <3>2. row \in CvRow /\ row.deleted
      BY <3>1 DEF CvRow
    <3>3. cvs' = [cvs EXCEPT ![cv] = row] /\ UNCHANGED files
      BY <1>6, <2>1 DEF DeleteCvRow
    <3> HIDE DEF row
    <3>4. \A d \in Cv : cvs'[d] = IF d = cv THEN row ELSE cvs[d]
      BY <3>3 DEF RowsInv
    <3>5. Cvs' = Cvs \ {cv}
      BY <3>1, <3>2, <3>4 DEF Cvs
    <3>6. \A d \in Cvs : cvs[d].file = cvs[cv].file => d = cv
      BY <1>0, <2>1 DEF FilesInv
    <3>7. Referred' = Referred \ {cvs[cv].file}
      BY <3>4, <3>5, <3>6 DEF Referred, Cvs
    <3>8. cvs[cv].file \in File /\ cvs[cv].file \in Referred
      BY <2>1, <3>1 DEF CvRow, Referred
    <3> QED
      BY <3>3, <3>7, <3>8
  <2>2. CASE cv \notin Cvs \ attached
    BY <1>1, <1>6, <2>2 DEF DeleteCvRow
  <2> QED
    BY <2>1, <2>2
<1>7. ASSUME DeleteCvFile(r)
      PROVE  \/ UNCHANGED <<files, Referred>>
             \/ \E f \in File :
                  f \in files \ Referred /\ files' = files \ {f} /\ UNCHANGED Referred
  <2> DEFINE f == req[r].file
  <2>1. PICK d \in Rows : cvs[d].deleted /\ cvs[d].file = f
    BY <1>7 DEF DeleteCvFile, UsesInv
  <2>2. f \in File
    BY <2>1 DEF Rows, RowsInv, CvRow
  <2>3. f \notin Referred
    BY <1>0, <2>1 DEF FilesInv, Referred, Cvs
  <2>4. files' = files \ {f} /\ UNCHANGED Referred
    BY <1>7 DEF DeleteCvFile, Referred, Cvs
  <2> QED
    BY <2>2, <2>3, <2>4
<1>8. ASSUME CountCvs(r) \/ AttachCv(r) \/ PreviewLink(r)
      PROVE  UNCHANGED <<files, Referred>>
  BY <1>1, <1>8 DEF CountCvs, AttachCv, PreviewLink, cvTables
<1>9. CASE ContinueCvs(r)
  BY <1>4, <1>5, <1>6, <1>7, <1>8, <1>9 DEF ContinueCvs, ContinueCv
<1> QED
  BY <1>3, <1>9

\* Every step maps to a step of the file store, or to none.
LEMMA StepStores ==
    ASSUME IsFiniteSet(Request), IInv, [Next]_vars
    PROVE  [Storage!Next]_(Storage!storeVars)
<1> USE DEF IInv, CvInv
<1>1. ASSUME UNCHANGED <<files, Referred>>, CutOff' = CutOff
      PROVE  UNCHANGED Storage!storeVars
  BY <1>1 DEF Storage!storeVars, Referred
<1>2. ASSUME NEW r \in Request, Goes(r)
      PROVE  CutOff' = CutOff
  BY <1>2 DEF Goes, CutOff, Lost
<1>3. ASSUME NEW r \in Request, CvsBegin(r) \/ ContinueCvs(r)
      PROVE  [Storage!Next]_(Storage!storeVars)
  <2>1. CutOff' = CutOff
    BY <1>2, <1>3, StepGoes
  <2>2. CASE UNCHANGED <<files, Referred>>
    BY <1>1, <2>1, <2>2
  <2>3. ASSUME NEW f \in File,
               \/ files' = files \cup {f} /\ UNCHANGED Referred
               \/ f \in files \ Referred /\ Referred' = Referred \cup {f} /\ UNCHANGED files
               \/ f \in Referred /\ Referred' = Referred \ {f} /\ UNCHANGED files
               \/ f \in files \ Referred /\ files' = files \ {f} /\ UNCHANGED Referred
        PROVE  Storage!Next
    BY <2>1, <2>3
       DEF Storage!Next, Storage!Store, Storage!Refer, Storage!Release, Storage!Discard,
           Referred
  <2> QED
    BY <1>3, <2>2, <2>3, HandlerStores
<1>4. ASSUME NEW r \in Request, ListStep(r) \/ SubscriptionStep(r) \/ SourcingStep(r)
      PROVE  UNCHANGED Storage!storeVars
  <2>1. UNCHANGED <<files, Referred>>
    BY <1>4 DEF ListStep, SubscriptionStep, SourcingStep, cvTables, Referred, Cvs
  <2>2. Goes(r)
    BY <1>4, StepGoes
  <2> QED
    BY <1>1, <1>2, <2>1, <2>2
<1>5. ASSUME NEW r \in Request, Fail(r)
      PROVE  Storage!Next
  <2>1. r \notin CutOff
    BY <1>5 DEF Fail, Fails, InFlight, CutOff
  <2>2. CutOff' = CutOff \cup {r}
    BY <1>5 DEF Fail, Fails, Goto, RowsInv, CutOff
  <2>3. IsFiniteSet(CutOff)
    BY FS_Subset DEF CutOff
  <2>4. Cardinality(CutOff') = Cardinality(CutOff) + 1
    BY <2>1, <2>2, <2>3, FS_AddElement
  <2>5. UNCHANGED <<files, Referred>>
    BY <1>5 DEF Fail, cvTables, Referred, Cvs
  <2> QED
    BY <2>4, <2>5 DEF Storage!Next, Storage!CutOff, Referred
<1>6. ASSUME Clock \/ UNCHANGED vars
      PROVE  UNCHANGED Storage!storeVars
  <2>1. UNCHANGED <<cvs, files, req>>
    BY <1>6 DEF Clock, LinkExpires, vars, cvTables
  <2> QED
    BY <1>1, <2>1 DEF Referred, Cvs, CutOff
<1> QED
  BY <1>3, <1>4, <1>5, <1>6 DEF Next, Quiescent

-----------------------------------------------------------------------------
\* The inductive invariant holds in every reachable state.
THEOREM IInvHolds == Spec => []IInv
  BY InitIInv, StepIInv, PTL DEF Spec

\* For any number of candidates, CVs and concurrent requests, and any failures, the
\* CV of an application stays with its file, and its preview finds it.
THEOREM AttachedCvsStay == Spec => []AttachedCvsRemain
<1>1. IInv => AttachedCvsRemain
  <2> SUFFICES ASSUME IInv PROVE AttachedCvsRemain
    OBVIOUS
  <2> USE DEF IInv, CvInv
  <2>1. attached \subseteq Cvs
    BY DEF LinksInv
  <2>2. \A cv, d \in Cv : cvs[cv] # None /\ cvs[d] # None /\ cv # d =>
          cvs[cv].file # cvs[d].file
    BY DEF FilesInv, Rows
  <2>3. \A r \in Request : At(r, "findCv") => req[r].cv \in Cvs
    BY <2>1 DEF UsesInv
  <2>4. previews \subseteq files
    BY <2>1 DEF LinksInv, FilesInv
  <2> QED
    BY <2>1, <2>2, <2>3, <2>4 DEF AttachedCvsRemain
<1> QED
  BY <1>1, IInvHolds, PTL

\* However long the check whether somebody has applied is before the insert, a pool
\* holds applicants only, and partners are universities of the catalog.
THEOREM PooledHaveApplied == Spec => []PoolsHoldApplicants
<1>1. IInv => PoolsHoldApplicants
  BY DEF IInv, SourcingInv
<1> QED
  BY <1>1, IInvHolds, PTL

\* The safety part of ImplementsFileStore: for any number of requests, a file is stored
\* before the row of its CV and goes only after it, and nothing else happens to either.
THEOREM FilesFollowRows ==
    IsFiniteSet(Request) /\ Spec => Storage!Init /\ [][Storage!Next]_(Storage!storeVars)
<1> SUFFICES ASSUME IsFiniteSet(Request)
             PROVE  Spec => Storage!Init /\ [][Storage!Next]_(Storage!storeVars)
  OBVIOUS
<1>1. Init => Storage!Init
  <2> SUFFICES ASSUME Init PROVE Storage!Init
    OBVIOUS
  <2>1. CutOff = {} /\ Cvs = {} /\ files = {}
    BY DEF Init, RequestsInit, CutOff, Idle, Lost, CvTablesInit, Cvs
  <2> QED
    BY <2>1, FS_EmptySet DEF Storage!Init
<1>2. IInv /\ [Next]_vars => [Storage!Next]_(Storage!storeVars)
  BY StepStores
<1> QED
  BY <1>1, <1>2, IInvHolds, PTL DEF Spec

-----------------------------------------------------------------------------
(* Which CV is primary. *)

\* What an insert, a choice or a deletion does to the primary CVs of a candidate.
LEMMA StepChooses ==
    ASSUME IInv, NEW r \in Request, ContinueCv(r), NEW c \in Candidate
    PROVE  \/ Cardinality(PrimariesOf(c)') <= 1
           \/ PrimariesOf(c)' \subseteq PrimariesOf(c)
           \/ r \in Firsts(c) /\ req'[r] = Done
<1> USE DEF IInv, CvInv
<1>0. RowsInv
  OBVIOUS
<1>1. CASE UNCHANGED cvs
  BY <1>1 DEF PrimariesOf, CvsOf, Cvs
<1>2. CASE InsertCv(r)
  <2> DEFINE row == [candidate |-> req[r].candidate, file |-> req[r].file,
                     isPrimary |-> req[r].isPrimary, deleted |-> FALSE]
  <2>1. PICK cv \in Cv : cvs[cv] = None /\ cvs' = [cvs EXCEPT ![cv] = row]
    BY <1>2 DEF InsertCv
  <2>2. row.candidate = req[r].candidate /\ row.isPrimary = req[r].isPrimary
    OBVIOUS
  <2> HIDE DEF row
  <2>3. \A d \in Cv : cvs'[d] = IF d = cv THEN row ELSE cvs[d]
    BY <2>1 DEF RowsInv
  <2>4. CASE req[r].candidate = c /\ req[r].isPrimary
    <3>1. req'[r] = Done
      BY <1>0, <1>2, Resumes DEF InsertCv, Finish
    <3> QED
      BY <1>2, <2>4, <3>1 DEF InsertCv, Firsts
  <2>5. CASE ~ (req[r].candidate = c /\ req[r].isPrimary)
    <3>1. PrimariesOf(c)' \subseteq PrimariesOf(c)
      BY <2>2, <2>3, <2>5 DEF PrimariesOf, CvsOf, Cvs
    <3> QED
      BY <3>1
  <2> QED
    BY <2>4, <2>5
<1>3. CASE MakePrimary(req[r].cv)
  <2> DEFINE cv == req[r].cv
  <2>1. \A d \in Cv : cvs'[d] = IF d \in CvsOf(cvs[cv].candidate)
                               THEN [cvs[d] EXCEPT !.isPrimary = (d = cv)] ELSE cvs[d]
    BY <1>3 DEF MakePrimary
  <2> HIDE DEF cv
  <2>2. ASSUME NEW d \in CvsOf(cvs[cv].candidate)
        PROVE  /\ d \in Cv /\ cvs'[d].candidate = cvs[d].candidate
               /\ cvs'[d].isPrimary <=> d = cv
    <3>1. d \in Cv /\ cvs[d] \in CvRow
      BY <1>0 DEF CvsOf, Cvs, RowsInv
    <3> DEFINE row == [cvs[d] EXCEPT !.isPrimary = (d = cv)]
    <3>2. row.candidate = cvs[d].candidate /\ (row.isPrimary <=> d = cv)
      BY <3>1 DEF CvRow
    <3>3. cvs'[d] = row
      BY <2>1, <3>1
    <3> HIDE DEF row
    <3> QED
      BY <3>1, <3>2, <3>3
  <2>3. \A d \in Cv : d \notin CvsOf(cvs[cv].candidate) => cvs'[d] = cvs[d]
    BY <2>1
  <2>4. CASE cvs[cv].candidate = c
    <3>1. \A d \in PrimariesOf(c)' : d = cv
      BY <2>2, <2>3, <2>4 DEF PrimariesOf, CvsOf, Cvs
    <3> DEFINE chosen == PrimariesOf(c)'
    <3>2. chosen = {} \/ chosen = {cv}
      BY <3>1
    <3> HIDE DEF chosen
    <3>3. Cardinality({}) = 0 /\ Cardinality({cv}) = 1
      BY FS_EmptySet, FS_Singleton
    <3>4. Cardinality(chosen) \in {0, 1}
      BY <3>2, <3>3
    <3>5. Cardinality(chosen) <= 1
      BY <3>4
    <3> QED
      BY <3>5 DEF chosen
  <2>5. CASE cvs[cv].candidate # c
    <3>1. PrimariesOf(c)' \subseteq PrimariesOf(c)
      BY <2>2, <2>3, <2>5 DEF PrimariesOf, CvsOf, Cvs
    <3> QED
      BY <3>1
  <2> QED
    BY <2>4, <2>5
<1>4. ASSUME NEW cv \in Cvs, cvs' = [cvs EXCEPT ![cv].deleted = TRUE]
      PROVE  PrimariesOf(c)' \subseteq PrimariesOf(c)
  <2>1. cv \in Cv /\ cvs[cv] \in CvRow
    BY <1>0 DEF Cvs, RowsInv
  <2> DEFINE row == [cvs[cv] EXCEPT !.deleted = TRUE]
  <2>2. row.deleted
    BY <2>1 DEF CvRow
  <2>3. cvs' = [cvs EXCEPT ![cv] = row]
    BY <1>4
  <2> HIDE DEF row
  <2>4. \A d \in Cv : cvs'[d] = IF d = cv THEN row ELSE cvs[d]
    BY <1>0, <2>3 DEF RowsInv
  <2> QED
    BY <2>2, <2>4 DEF PrimariesOf, CvsOf, Cvs
<1> QED
  BY <1>1, <1>2, <1>3, <1>4
     DEF ContinueCv, CountCvs, SetPrimaryCv, DeleteCvRow, DeleteCvFile, AttachCv, PreviewLink,
         cvTables

\* For any number of uploads and choices at once: when a candidate comes to have more
\* primary CVs than before, and more than one, an upload that counted none ended.
THEOREM PrimariesAreChosen == Spec => PrimaryIsChosen
<1> DEFINE Chosen == \A c \in Candidate :
                       \/ Cardinality(PrimariesOf(c)') <= 1
                       \/ PrimariesOf(c)' \subseteq PrimariesOf(c)
                       \/ \E r \in Firsts(c) : req'[r] = Done
<1>1. IInv /\ [Next]_vars => [Chosen]_cvs
  <2> SUFFICES ASSUME IInv, [Next]_vars, ~ UNCHANGED cvs
               PROVE  Chosen
    OBVIOUS
  <2>1. \E r \in Request : ContinueCv(r)
    BY DEF Next, CvsBegin, CandidatesController, UploadCvFile, OnOwnCv, ResolveCv, PreviewRead,
           ContinueCvs, ListStep, SubscriptionStep, SourcingStep, Fail, Clock, LinkExpires,
           Quiescent, vars, cvTables
  <2> QED
    BY <2>1, StepChooses
<1> QED
  BY <1>1, IInvHolds, PTL DEF Spec, PrimaryIsChosen

-----------------------------------------------------------------------------
(* The plan in force. *)

\* The rows are selections, and the request that is about to pay pays for its own.
PaidInv == subscription \subseteq Selection /\ PlanInForceIsPaid

\* A request of another service owes no payment.
LEMMA OthersOweNothing ==
    ASSUME NEW r \in Request, CvsBegin(r) \/ ContinueCvs(r) \/ ListStep(r) \/ SourcingStep(r)
    PROVE  req[r].pc # "pay" /\ UNCHANGED subscriptionTables
<1>1. Idle.pc # "pay" /\ \A pc : At(r, pc) => req[r].pc = pc
  BY DEF Idle, At
<1>2. CASE CvsBegin(r) \/ ContinueCvs(r)
  BY <1>1, <1>2
     DEF CvsBegin, ContinueCvs, ContinueCv, CandidatesController, UploadCvFile, OnOwnCv,
         ResolveCv, PreviewRead, Arrives, CountCvs, InsertCv, SetPrimaryCv, DeleteCvRow,
         DeleteCvFile, AttachCv, PreviewLink
<1>3. CASE ListStep(r)
  BY <1>1, <1>3
     DEF ListStep, BeginList, ContinueList, PipelineTemplatesController, ReplaceProfileList,
         CreateTemplate, UpdateTemplate, RemoveTemplateRead, Arrives, DeleteRows,
         InsertRows, RemoveTemplate
<1>4. CASE SourcingStep(r)
  BY <1>1, <1>4
     DEF SourcingStep, TalentPoolsController, UniversitiesController, ContinueSourcing,
         CreatePool, RequirePool, HasApplied, AddCandidate, RemoveCandidate, CreateUniversity,
         PartnershipRead, CreatePartnership, RemovePartnership, Arrives
<1> QED
  BY <1>2, <1>3, <1>4

\* A plan that is written is paid for next by its selection, unless that is cut off.
LEMMA StepPays ==
    ASSUME IInv, PaidInv, [Next]_vars
    PROVE  PaidInv'
<1> USE DEF IInv, CvInv
<1>1. ASSUME UNCHANGED subscriptionTables, CutOff \subseteq CutOff',
             \A q \in Request : At(q, "pay") => req'[q] = req[q] \/ req'[q] = Lost
      PROVE  PaidInv'
  <2>1. ASSUME NEW s, s.by \in Request, Owed(s) \/ s.by \in CutOff
        PROVE  Owed(s)' \/ s.by \in CutOff'
    BY <1>1, <2>1 DEF Owed, Selected, At, CutOff
  <2>2. \A s \in subscription : s.by \in Request
    BY DEF PaidInv, Selection
  <2> QED
    BY <1>1, <2>1, <2>2 DEF PaidInv, PlanInForceIsPaid, subscriptionTables
<1>2. ASSUME NEW r \in Request, Goes(r)
      PROVE  CutOff' = CutOff
  BY <1>2 DEF Goes, CutOff, Lost
<1>3. ASSUME NEW r \in Request,
             CvsBegin(r) \/ ContinueCvs(r) \/ ListStep(r) \/ SourcingStep(r)
      PROVE  PaidInv'
  <2>1. Goes(r)
    BY <1>3, StepGoes
  <2>2. req[r].pc # "pay" /\ UNCHANGED subscriptionTables
    BY <1>3, OthersOweNothing
  <2>3. CutOff' = CutOff
    BY <1>2, <2>1
  <2> QED
    BY <1>1, <2>1, <2>2, <2>3 DEF Goes, At
<1>4. ASSUME NEW r \in Request, SubscriptionStep(r)
      PROVE  PaidInv'
  <2>1. Goes(r) /\ CutOff' = CutOff
    BY <1>2, <1>4, StepGoes
  <2>2. ASSUME NEW p \in Plan, SelectPlan(r, p)
        PROVE  PaidInv'
    <3>1. req[r].pc # "pay" /\ UNCHANGED subscriptionTables
      BY <2>2 DEF SelectPlan, Arrives, Idle
    <3> QED
      BY <1>1, <2>1, <3>1 DEF Goes, At
  <2>3. ASSUME Subscribe(r)
        PROVE  PaidInv'
    <3> DEFINE x == [req[r] EXCEPT !.pc = "pay"]
    <3>1. subscription' = {Selected(r)} /\ (req[r].plan \in PaidPlan => Goto(r, x))
      BY <2>3 DEF Subscribe
    <3>2. req[r] = [pc |-> "subscribe", plan |-> req[r].plan] /\ req[r].plan \in Plan
      BY <2>3 DEF Subscribe, HeldInv
    <3>3. Selected(r) \in Selection /\ Selected(r).plan = req[r].plan /\ Selected(r).by = r
      BY <3>2 DEF Selected, Selection
    <3>4. x.pc = "pay" /\ x.plan = req[r].plan
      BY <3>2
    <3> HIDE DEF x
    <3>5. PICK s : s = Selected(r)
      OBVIOUS
    <3>6. req[r].plan \in PaidPlan => Owed(s)'
      BY <3>1, <3>3, <3>4, <3>5, Resumes DEF Owed, At, Selected
    <3> QED
      BY <3>1, <3>3, <3>5, <3>6 DEF PaidInv, PlanInForceIsPaid
  <2>4. ASSUME CreatePayment(r)
        PROVE  PaidInv'
    <3>1. payments' = payments \cup {Selected(r)} /\ UNCHANGED subscription
      BY <2>4 DEF CreatePayment
    <3>2. \A s \in subscription : s.by \in Request
      BY DEF PaidInv, Selection
    <3>3. \A s : s.by = r /\ Owed(s) => s \in payments'
      BY <3>1 DEF Owed
    <3>4. \A s : s.by \in Request \ {r} /\ Owed(s) => Owed(s)'
      BY <2>1 DEF Goes, Owed, Selected, At
    <3> QED
      BY <2>1, <3>1, <3>2, <3>3, <3>4 DEF PaidInv, PlanInForceIsPaid
  <2> QED
    BY <1>4, <2>2, <2>3, <2>4 DEF SubscriptionStep, ContinueSubscription
<1>5. ASSUME NEW r \in Request, Fail(r)
      PROVE  PaidInv'
  <2>1. req'[r] = Lost /\ UNCHANGED subscriptionTables
    BY <1>5, Resumes DEF Fail, Fails
  <2>2. \A q \in Request : q # r => req'[q] = req[q]
    BY <1>5, Resumes DEF Fail, Fails
  <2> QED
    BY <1>1, <2>1, <2>2 DEF CutOff
<1>6. CASE Clock \/ UNCHANGED vars
  <2>1. UNCHANGED <<subscriptionTables, req>>
    BY <1>6 DEF Clock, LinkExpires, vars
  <2> QED
    BY <1>1, <2>1 DEF CutOff
<1> QED
  BY <1>3, <1>4, <1>5, <1>6 DEF Next, Quiescent

\* Whichever of any number of overlapping selections wrote it last, the plan in force has
\* been paid for by that selection or is about to be, unless that one was cut off.
THEOREM PlansArePaid == Spec => []PlanInForceIsPaid
<1>1. Init => PaidInv
  BY DEF Init, SubscriptionTablesInit, PaidInv, PlanInForceIsPaid
<1>2. PaidInv => PlanInForceIsPaid
  BY DEF PaidInv
<1>3. IInv /\ PaidInv /\ [Next]_vars => PaidInv'
  BY StepPays
<1> QED
  BY <1>1, <1>2, <1>3, IInvHolds, PTL DEF Spec

-----------------------------------------------------------------------------
(* Lists that are replaced.  A replacement leaves the rows it did not find     *)
(* when it deleted, beside its own.  Whose rows those are is bounded by one    *)
(* fact: whichever replacements are yet to commit, the requests whose rows     *)
(* they would all leave were in flight with them at one time.                  *)

Row == {row \in [by : Request, index : Nat, of : Nat] : row.index \in 1 .. row.of}

\* A set of rows that has all that a request inserted, or nothing of it.
Whole(rows) == rows \subseteq Row /\ \A row \in rows : RowsOf(row.by, row.of) \subseteq rows

RowsAreWhole ==
    /\ lists = [l \in List |-> lists[l]]
    /\ templates = [t \in TemplateList |-> templates[t]]
    /\ \A l \in List : Whole(lists[l]) /\ (~ Kept(l) => lists[l] = {})

\* What a replacement or a removal holds.
HoldsList(x, table) ==
    /\ x.pc \in {"deleteRows", "insertRows"} =>
         /\ x.list \in List /\ x.length \in Nat
         /\ x.list \in TemplateList => table[x.list] # "none"
    /\ x.pc = "insertRows" => Whole(x.deleted)
    /\ x.pc = "removeTemplate" => x.list \in TemplateList

ListHandlersInv == \A r \in Request : HoldsList(req[r], templates)

\* The replacements of a list that have deleted and not inserted yet.
Replacing(l) == {r \in Request : At(r, "insertRows") /\ req[r].list = l}

\* The rows that all of these replacements leave.
LeftBy(l, Q) == {row \in lists[l] : \A q \in Q : row \notin req[q].deleted}

Crowd(l, Q) == {row.by : row \in LeftBy(l, Q)} \cup Q

CrowdsInv ==
    \A l \in List : \A Q \in SUBSET Replacing(l) : Cardinality(Crowd(l, Q)) <= MaxInFlight

ListInv == RowsAreWhole /\ ListHandlersInv /\ CrowdsInv /\ Cardinality(InFlight) <= MaxInFlight

\* A set of requests that is part of one that is small enough is.
LEMMA FewerRequests ==
    ASSUME IsFiniteSet(Request), NEW S \in SUBSET Request, NEW T \in SUBSET S,
           Cardinality(S) <= MaxInFlight
    PROVE  Cardinality(T) <= MaxInFlight
<1>1. IsFiniteSet(S)
  BY FS_Subset
<1>2. /\ Cardinality(T) <= Cardinality(S)
      /\ IsFiniteSet(T)
  BY <1>1, FS_Subset
<1>3. Cardinality(T) \in Nat /\ Cardinality(S) \in Nat /\ MaxInFlight \in Nat
  BY <1>1, <1>2, FS_CardinalityType, RequestAssumption
<1> QED
  BY <1>2, <1>3

\* Requests arrive while there is room.
LEMMA InFlightBounded ==
    ASSUME IsFiniteSet(Request), RowsInv, Cardinality(InFlight) <= MaxInFlight,
           NEW r \in Request, NEW x, Goto(r, x), Arrives(r) \/ r \in InFlight
    PROVE  Cardinality(InFlight') <= MaxInFlight
<1>1. InFlight' \subseteq InFlight \cup {r} /\ InFlight \cup {r} \subseteq Request
  BY Resumes DEF InFlight
<1>2. IsFiniteSet(InFlight) /\ MaxInFlight \in Nat /\ Cardinality(InFlight) \in Nat
  BY FS_Subset, FS_CardinalityType, RequestAssumption DEF InFlight
<1>3. Cardinality(InFlight \cup {r}) <= MaxInFlight
  <2>1. CASE r \in InFlight
    <3>1. InFlight \cup {r} = InFlight
      BY <2>1
    <3> QED
      BY <3>1
  <2>2. CASE r \notin InFlight
    <3>1. Cardinality(InFlight) < MaxInFlight
      BY <2>2 DEF Arrives
    <3>2. Cardinality(InFlight \cup {r}) = Cardinality(InFlight) + 1
      BY <1>2, <2>2, FS_AddElement
    <3> QED
      BY <1>2, <3>1, <3>2
  <2> QED
    BY <2>1, <2>2
<1>4. PICK S : S = InFlight \cup {r}
  OBVIOUS
<1>5. PICK T : T = InFlight'
  OBVIOUS
<1>6. S \in SUBSET Request /\ T \in SUBSET S /\ Cardinality(S) <= MaxInFlight
  BY <1>1, <1>3, <1>4, <1>5
<1> QED
  BY <1>5, <1>6, FewerRequests

\* No request but the one that goes on holds anything else than before.
LEMMA ListHandlersHold ==
    ASSUME RowsInv, ListHandlersInv, NEW r \in Request, NEW x, Goto(r, x),
           HoldsList(x, templates'),
           \A t \in TemplateList : templates[t] # "none" => templates'[t] # "none"
    PROVE  ListHandlersInv'
<1>1. req'[r] = x /\ \A q \in Request : q # r => req'[q] = req[q]
  BY Resumes
<1>2. ASSUME NEW q \in Request \ {r}
      PROVE  HoldsList(req[q], templates')
  BY DEF ListHandlersInv, HoldsList
<1> QED
  BY <1>1, <1>2 DEF ListHandlersInv

\* A step that changes no list, and does not go on to an insert, crowds none.
LEMMA ListsKept ==
    ASSUME IsFiniteSet(Request), RowsInv, ListInv, UNCHANGED listTables,
           NEW r \in Request, NEW x, Goto(r, x), HoldsList(x, templates), x.pc # "insertRows",
           Arrives(r) \/ r \in InFlight
    PROVE  ListInv'
<1>1. lists' = lists /\ templates' = templates
  BY DEF listTables
<1>2. RowsAreWhole'
  BY <1>1 DEF ListInv, RowsAreWhole, Kept
<1>3. ListHandlersInv'
  BY <1>1, ListHandlersHold DEF ListInv
<1>4. CrowdsInv'
  <2> SUFFICES ASSUME NEW l \in List, NEW Q \in SUBSET Replacing(l)'
               PROVE  Cardinality(Crowd(l, Q)') <= MaxInFlight
    BY DEF CrowdsInv
  <2>1. Q \subseteq Replacing(l) /\ \A q \in Q : req'[q] = req[q]
    BY Resumes DEF Replacing, At
  <2>2. LeftBy(l, Q)' = LeftBy(l, Q)
    BY <1>1, <2>1 DEF LeftBy
  <2>3. Crowd(l, Q)' = Crowd(l, Q)
    BY <2>2 DEF Crowd
  <2> QED
    BY <2>1, <2>3 DEF ListInv, CrowdsInv
<1>5. Cardinality(InFlight') <= MaxInFlight
  BY InFlightBounded DEF ListInv
<1> QED
  BY <1>2, <1>3, <1>4, <1>5 DEF ListInv

\* So does every step of the other services.
LEMMA OthersLeaveLists ==
    ASSUME IInv, NEW r \in Request,
           CvsBegin(r) \/ ContinueCvs(r) \/ SubscriptionStep(r) \/ SourcingStep(r)
    PROVE  /\ UNCHANGED listTables
           /\ Arrives(r) \/ r \in InFlight
           /\ \E x : Goto(r, x) /\ x.pc \notin {"deleteRows", "insertRows", "removeTemplate"}
<1> DEFINE Listing == {"deleteRows", "insertRows", "removeTemplate"}
           GoesOn(x) == Goto(r, x) /\ x.pc \notin Listing
<1>1. UNCHANGED listTables
  BY DEF CvsBegin, ContinueCvs, SubscriptionStep, SourcingStep
<1>2. /\ Done.pc \notin Listing
      /\ \A pc : At(r, pc) /\ pc \notin {"idle", "done", "lost"} => r \in InFlight
  BY DEF Done, At, InFlight, Idle, Lost
<1>3. CASE CvsBegin(r) \/ ContinueCvs(r)
  <2>1. PICK x : Goto(r, x) /\ x.pc \in CvPcs \cup {"done"}
    BY <1>3, CvGoto DEF ContinueCvs
  <2>2. GoesOn(x)
    BY <2>1 DEF CvPcs
  <2>3. Arrives(r) \/ r \in InFlight
    BY <1>2, <1>3
    DEF CvsBegin, ContinueCvs, ContinueCv, CandidatesController, UploadCvFile, OnOwnCv,
        ResolveCv, PreviewRead, CountCvs, InsertCv, SetPrimaryCv, DeleteCvRow,
        DeleteCvFile, AttachCv, PreviewLink
  <2> QED
    BY <1>1, <2>2, <2>3
<1>4. CASE SubscriptionStep(r)
  <2>1. Arrives(r) \/ r \in InFlight
    BY <1>2, <1>4
    DEF SubscriptionStep, SelectPlan, ContinueSubscription, Subscribe, CreatePayment
  <2>2. \E x : GoesOn(x)
    <3>1. CASE Goto(r, Done)
      BY <1>2, <3>1
    <3>2. ASSUME NEW p \in Plan, SelectPlan(r, p)
          PROVE  \E x : GoesOn(x)
      <4>1. [pc |-> "subscribe", plan |-> p].pc \notin Listing
        OBVIOUS
      <4> QED
        BY <3>2, <4>1 DEF SelectPlan
    <3>3. CASE Subscribe(r)
      <4>1. [req[r] EXCEPT !.pc = "pay"].pc = "pay"
        BY <3>3 DEF Subscribe, IInv, HeldInv
      <4> QED
        BY <3>1, <3>3, <4>1 DEF Subscribe
    <3> QED
      BY <1>4, <3>1, <3>2, <3>3
      DEF SubscriptionStep, ContinueSubscription, CreatePayment, Finish
  <2> QED
    BY <1>1, <2>1, <2>2
<1>5. CASE SourcingStep(r)
  <2>1. Arrives(r) \/ r \in InFlight
    BY <1>2, <1>5
    DEF SourcingStep, TalentPoolsController, UniversitiesController, ContinueSourcing,
        CreatePool, RequirePool, HasApplied, AddCandidate, RemoveCandidate, CreateUniversity,
        PartnershipRead, CreatePartnership, RemovePartnership
  <2>2. \E x : GoesOn(x)
    <3>1. CASE Goto(r, Done)
      BY <1>2, <3>1
    <3>2. ASSUME NEW p \in Pool, NEW c \in Person, NEW pc \in {"hasApplied", "removeCandidate"},
                 RequirePool(r, p, c, pc)
          PROVE  \E x : GoesOn(x)
      <4>1. [pc |-> pc, pool |-> p, candidate |-> c].pc \notin Listing
        OBVIOUS
      <4> QED
        BY <3>2, <4>1 DEF RequirePool
    <3>3. CASE HasApplied(r, Applicants)
      <4>1. [req[r] EXCEPT !.pc = "addCandidate"].pc = "addCandidate"
        BY <3>3 DEF HasApplied, IInv, HeldInv
      <4> QED
        BY <3>1, <3>3, <4>1 DEF HasApplied
    <3>4. ASSUME NEW u \in University, PartnershipRead(r, u)
          PROVE  \E x : GoesOn(x)
      <4>1. [pc |-> "partner", university |-> u].pc \notin Listing
        OBVIOUS
      <4> QED
        BY <3>1, <3>4, <4>1 DEF PartnershipRead
    <3> QED
      BY <1>5, <3>1, <3>2, <3>3, <3>4
      DEF SourcingStep, TalentPoolsController, UniversitiesController, ContinueSourcing,
          CreatePool, AddCandidate, RemoveCandidate, CreateUniversity, CreatePartnership,
          RemovePartnership, Finish
  <2> QED
    BY <1>1, <2>1, <2>2
<1> QED
  BY <1>3, <1>4, <1>5

\* The rows of one insert are whole.
LEMMA RowsOfWhole ==
    ASSUME NEW r \in Request, NEW n \in Nat
    PROVE  /\ Whole(RowsOf(r, n))
           /\ \A row \in RowsOf(r, n) : row.by = r
<1>1. ASSUME NEW row \in RowsOf(r, n)
      PROVE  row \in Row /\ row.by = r /\ row.of = n
  <2>1. PICK i \in 1 .. n : row = [by |-> r, index |-> i, of |-> n]
    BY DEF RowsOf
  <2> QED
    BY <2>1 DEF Row
<1> QED
  BY <1>1 DEF Whole

\* What deletes a request's rows deletes all of them.
LEMMA WholeWithout ==
    ASSUME NEW rows, Whole(rows), NEW deleted, Whole(deleted)
    PROVE  Whole(rows \ deleted)
<1> SUFFICES ASSUME NEW row \in rows \ deleted, NEW other \in RowsOf(row.by, row.of)
             PROVE  other \in rows \ deleted
  BY DEF Whole
<1>1. row \in Row /\ other \in rows
  BY DEF Whole
<1>2. other.by = row.by /\ other.of = row.of
  <2>1. PICK i \in 1 .. row.of : other = [by |-> row.by, index |-> i, of |-> row.of]
    BY DEF RowsOf
  <2> QED
    BY <2>1
<1>3. row \in RowsOf(row.by, row.of)
  BY <1>1 DEF Row, RowsOf
<1>4. ASSUME other \in deleted PROVE FALSE
  <2>1. RowsOf(other.by, other.of) \subseteq deleted
    BY <1>4 DEF Whole
  <2> QED
    BY <1>2, <1>3, <2>1
<1> QED
  BY <1>1, <1>4

\* Two sets that have all of each request, or nothing, do so together.
LEMMA WholeTogether ==
    ASSUME NEW rows, Whole(rows), NEW more, Whole(more)
    PROVE  Whole(rows \cup more)
  BY DEF Whole

\* Requests that are replacing a list are in flight.
LEMMA ReplacingInFlight ==
    ASSUME IsFiniteSet(Request), Cardinality(InFlight) <= MaxInFlight,
           NEW l, NEW Q \in SUBSET Replacing(l)
    PROVE  Q \subseteq InFlight /\ Cardinality(Q) <= MaxInFlight
<1>1. Q \subseteq InFlight /\ InFlight \subseteq Request
  BY DEF Replacing, InFlight, At, Idle, Done, Lost
<1> QED
  BY <1>1, FewerRequests

\* Whose rows a list has, and who is replacing it, are requests.
LEMMA CrowdOfRequests ==
    ASSUME RowsAreWhole, NEW l \in List, NEW Q \in SUBSET Replacing(l)
    PROVE  Crowd(l, Q) \subseteq Request
<1>1. \A row \in lists[l] : row.by \in Request
  BY DEF RowsAreWhole, Whole, Row
<1> QED
  BY <1>1 DEF Crowd, LeftBy, Replacing

-----------------------------------------------------------------------------
(* The steps of the lists. *)

\* An insert leaves what it and the others together would have left before it.
LEMMA InsertRowsCrowds ==
    ASSUME IsFiniteSet(Request), RowsInv, ListInv, NEW r \in Request, InsertRows(r)
    PROVE  ListInv'
<1>1. PICK l : l = req[r].list
  OBVIOUS
<1>2. PICK new : new = RowsOf(r, req[r].length)
  OBVIOUS
<1>3. PICK old : old = req[r].deleted
  OBVIOUS
<1>4. /\ l \in List /\ r \in Replacing(l) /\ Whole(old) /\ Whole(new)
      /\ \A row \in new : row.by = r
      /\ r \in InFlight /\ Goto(r, Done) /\ templates' = templates
  BY <1>1, <1>2, <1>3, RowsOfWhole
  DEF InsertRows, At, ListInv, ListHandlersInv, HoldsList, Replacing, InFlight, Idle, Done,
      Lost, Finish
<1>5. /\ Kept(l) => lists' = [lists EXCEPT ![l] = (lists[l] \ old) \cup new]
      /\ ~ Kept(l) => lists' = lists
  BY <1>1, <1>2, <1>3 DEF InsertRows
<1>6. req'[r] = Done /\ \A q \in Request : q # r => req'[q] = req[q]
  BY <1>4, Resumes
<1>7. /\ lists' = [k \in List |-> lists'[k]]
      /\ \A k \in List : k # l => lists'[k] = lists[k]
      /\ lists'[l] = IF Kept(l) THEN (lists[l] \ old) \cup new ELSE lists[l]
  BY <1>4, <1>5 DEF ListInv, RowsAreWhole
<1>8. RowsAreWhole'
  <2>1. Whole(lists'[l])
    <3>1. Whole(lists[l])
      BY <1>4 DEF ListInv, RowsAreWhole
    <3>2. PICK kept : kept = lists[l] \ old
      OBVIOUS
    <3>3. Whole(kept)
      BY <1>4, <3>1, <3>2, WholeWithout
    <3>4. Whole(kept \cup new)
      BY <1>4, <3>3, WholeTogether
    <3> QED
      BY <1>7, <3>1, <3>2, <3>4
  <2>2. \A k \in List : Kept(k)' <=> Kept(k)
    BY <1>4 DEF Kept
  <2> QED
    BY <1>4, <1>7, <2>1, <2>2 DEF ListInv, RowsAreWhole
<1>9. ListHandlersInv'
  <2>1. HoldsList(Done, templates')
    BY DEF HoldsList, Done
  <2> QED
    BY <1>4, <2>1, ListHandlersHold DEF ListInv
<1>10. CrowdsInv'
  <2> SUFFICES ASSUME NEW k \in List, NEW Q \in SUBSET Replacing(k)'
               PROVE  Cardinality(Crowd(k, Q)') <= MaxInFlight
    BY DEF CrowdsInv
  <2>1. Q \subseteq Replacing(k) /\ r \notin Q /\ \A q \in Q : req'[q] = req[q]
    BY <1>6 DEF Replacing, At, Done
  <2>2. CASE lists'[k] = lists[k]
    <3>1. LeftBy(k, Q)' = LeftBy(k, Q)
      BY <2>1, <2>2 DEF LeftBy
    <3>2. Crowd(k, Q)' = Crowd(k, Q)
      BY <3>1 DEF Crowd
    <3> QED
      BY <2>1, <3>2 DEF ListInv, CrowdsInv
  <2>3. CASE lists'[k] # lists[k]
    <3>1. k = l /\ lists'[k] = (lists[k] \ old) \cup new
      BY <1>7, <2>3
    <3>2. PICK R : R = Q \cup {r}
      OBVIOUS
    <3>3. R \in SUBSET Replacing(k)
      BY <1>4, <2>1, <3>1, <3>2
    <3>4. Crowd(k, Q)' \subseteq Crowd(k, R)
      <4>1. ASSUME NEW row \in LeftBy(k, Q)'
            PROVE  row.by \in Crowd(k, R)
        <5>1. CASE row \in new
          BY <1>4, <3>2, <5>1 DEF Crowd
        <5>2. CASE row \notin new
          <6>1. row \in lists[k] \ old /\ \A q \in Q : row \notin req[q].deleted
            BY <2>1, <3>1, <5>2 DEF LeftBy
          <6>2. row \in LeftBy(k, R)
            BY <1>3, <3>2, <6>1 DEF LeftBy
          <6> QED
            BY <6>2 DEF Crowd
        <5> QED
          BY <5>1, <5>2
      <4> QED
        BY <3>2, <4>1 DEF Crowd
    <3>5. Cardinality(Crowd(k, R)) <= MaxInFlight /\ Crowd(k, R) \subseteq Request
      BY <3>3, CrowdOfRequests DEF ListInv, CrowdsInv
    <3>6. PICK S, T : S = Crowd(k, R) /\ T = Crowd(k, Q)'
      OBVIOUS
    <3>7. S \in SUBSET Request /\ T \in SUBSET S /\ Cardinality(S) <= MaxInFlight
      BY <3>4, <3>5, <3>6
    <3> QED
      BY <3>6, <3>7, FewerRequests
  <2> QED
    BY <2>2, <2>3
<1>11. Cardinality(InFlight') <= MaxInFlight
  BY <1>4, InFlightBounded DEF ListInv
<1> QED
  BY <1>8, <1>9, <1>10, <1>11 DEF ListInv

\* A replacement that has just deleted leaves nobody's rows: those it would leave beside
\* its own are in flight with it.
LEMMA DeleteRowsCrowds ==
    ASSUME IsFiniteSet(Request), RowsInv, ListInv, NEW r \in Request, DeleteRows(r)
    PROVE  ListInv'
<1>1. PICK l : l = req[r].list
  OBVIOUS
<1>2. PICK x : x = [pc |-> "insertRows", list |-> l, length |-> req[r].length,
                    deleted |-> lists[l]]
  OBVIOUS
<1>3. /\ Goto(r, x) /\ x.pc = "insertRows" /\ x.list = l /\ x.length = req[r].length
      /\ x.deleted = lists[l] /\ r \in InFlight /\ lists' = lists /\ templates' = templates
  BY <1>1, <1>2 DEF DeleteRows, At, InFlight, Idle, Done, Lost, listTables
<1>4. RowsAreWhole'
  BY <1>3 DEF ListInv, RowsAreWhole, Kept
<1>5. ListHandlersInv'
  <2>1. HoldsList(req[r], templates) /\ req[r].pc = "deleteRows"
    BY DEF ListInv, ListHandlersInv, DeleteRows, At
  <2>2. HoldsList(x, templates')
    BY <1>1, <1>3, <2>1 DEF HoldsList, ListInv, RowsAreWhole
  <2> QED
    BY <1>3, <2>2, ListHandlersHold DEF ListInv
<1>6. Cardinality(InFlight') <= MaxInFlight
  BY <1>3, InFlightBounded DEF ListInv
<1>7. req'[r] = x /\ \A q \in Request : q # r => req'[q] = req[q]
  BY <1>3, Resumes
<1>8. CrowdsInv'
  <2> SUFFICES ASSUME NEW k \in List, NEW Q \in SUBSET Replacing(k)'
               PROVE  Cardinality(Crowd(k, Q)') <= MaxInFlight
    BY DEF CrowdsInv
  <2>1. CASE r \in Q
    <3>1. k = l
      BY <1>3, <1>7, <2>1 DEF Replacing
    <3>2. LeftBy(k, Q)' = {}
      BY <1>3, <1>7, <2>1, <3>1 DEF LeftBy
    <3>3. Crowd(k, Q)' = Q
      BY <3>2 DEF Crowd
    <3>4. Q \subseteq InFlight' /\ InFlight' \subseteq Request
      BY DEF Replacing, InFlight, At, Idle, Done, Lost
    <3>5. PICK S : S = InFlight'
      OBVIOUS
    <3>6. S \in SUBSET Request /\ Q \in SUBSET S /\ Cardinality(S) <= MaxInFlight
      BY <1>6, <3>4, <3>5
    <3> QED
      BY <3>3, <3>6, FewerRequests
  <2>2. CASE r \notin Q
    <3>1. Q \subseteq Replacing(k) /\ \A q \in Q : req'[q] = req[q]
      BY <1>7, <2>2 DEF Replacing, At
    <3>2. LeftBy(k, Q)' = LeftBy(k, Q)
      BY <1>3, <3>1 DEF LeftBy
    <3>3. Crowd(k, Q)' = Crowd(k, Q)
      BY <3>2 DEF Crowd
    <3> QED
      BY <3>1, <3>3 DEF ListInv, CrowdsInv
  <2> QED
    BY <2>1, <2>2
<1> QED
  BY <1>4, <1>5, <1>6, <1>8 DEF ListInv

\* A list that is written at once: it has no rows, or those of the request alone.
LEMMA ListWritten ==
    ASSUME IsFiniteSet(Request), RowsInv, ListInv, NEW r \in Request, Goto(r, Done),
           Arrives(r) \/ r \in InFlight, NEW l \in TemplateList, NEW rows, Whole(rows),
           NEW state \in {"kept", "deleted"}, state = "deleted" => rows = {},
           \A row \in rows : row.by = r, rows # {} => Replacing(l) = {} /\ Arrives(r),
           lists' = [lists EXCEPT ![l] = rows], templates' = [templates EXCEPT ![l] = state]
    PROVE  ListInv'
<1>1. req'[r] = Done /\ \A q \in Request : q # r => req'[q] = req[q]
  BY Resumes
<1>2. l \in List /\ l \notin ProfileList
  BY ListsAssumption DEF List
<1>3. /\ lists' = [k \in List |-> lists'[k]]
      /\ lists'[l] = rows /\ \A k \in List : k # l => lists'[k] = lists[k]
      /\ templates' = [k \in TemplateList |-> templates'[k]]
      /\ templates'[l] = state /\ \A k \in TemplateList : k # l => templates'[k] = templates[k]
  BY <1>2 DEF ListInv, RowsAreWhole
<1>4. RowsAreWhole'
  <2>1. ASSUME NEW k \in List
        PROVE  Whole(lists'[k]) /\ (~ Kept(k)' => lists'[k] = {})
    <3>1. CASE k = l
      BY <1>2, <1>3, <3>1 DEF Kept
    <3>2. CASE k # l
      <4>1. Kept(k)' <=> Kept(k)
        BY <1>3, <3>2 DEF Kept, List
      <4> QED
        BY <1>3, <3>2, <4>1 DEF ListInv, RowsAreWhole
    <3> QED
      BY <3>1, <3>2
  <2> QED
    BY <1>3, <2>1 DEF RowsAreWhole
<1>5. ListHandlersInv'
  <2>1. HoldsList(Done, templates')
    BY DEF HoldsList, Done
  <2>2. \A t \in TemplateList : templates[t] # "none" => templates'[t] # "none"
    BY <1>3
  <2> QED
    BY <2>1, <2>2, ListHandlersHold DEF ListInv
<1>6. Cardinality(InFlight') <= MaxInFlight
  BY InFlightBounded DEF ListInv
<1>7. CrowdsInv'
  <2> SUFFICES ASSUME NEW k \in List, NEW Q \in SUBSET Replacing(k)'
               PROVE  Cardinality(Crowd(k, Q)') <= MaxInFlight
    BY DEF CrowdsInv
  <2>1. Q \subseteq Replacing(k) /\ \A q \in Q : req'[q] = req[q]
    BY <1>1 DEF Replacing, At, Done
  <2>2. CASE k # l
    <3>1. LeftBy(k, Q)' = LeftBy(k, Q)
      BY <1>3, <2>1, <2>2 DEF LeftBy
    <3>2. Crowd(k, Q)' = Crowd(k, Q)
      BY <3>1 DEF Crowd
    <3> QED
      BY <2>1, <3>2 DEF ListInv, CrowdsInv
  <2>3. CASE k = l /\ rows = {}
    <3>1. LeftBy(k, Q)' = {}
      BY <1>3, <2>3 DEF LeftBy
    <3>2. Crowd(k, Q)' = Q
      BY <3>1 DEF Crowd
    <3> QED
      BY <2>1, <3>2, ReplacingInFlight DEF ListInv
  <2>4. CASE k = l /\ Replacing(l) = {} /\ Arrives(r)
    <3>1. Q = {}
      BY <2>1, <2>4
    <3>2. Crowd(k, Q)' \subseteq {r}
      BY <1>3, <2>4, <3>1 DEF Crowd, LeftBy
    <3>3. IsFiniteSet(InFlight) /\ Cardinality(InFlight) \in Nat /\ MaxInFlight \in Nat
      BY FS_Subset, FS_CardinalityType, RequestAssumption DEF InFlight
    <3>4. Cardinality({r}) <= MaxInFlight
      <4>1. Cardinality({r}) = 1
        BY FS_Singleton
      <4> QED
        BY <2>4, <3>3, <4>1 DEF Arrives
    <3>5. PICK S, T : S = {r} /\ T = Crowd(k, Q)'
      OBVIOUS
    <3>6. S \in SUBSET Request /\ T \in SUBSET S /\ Cardinality(S) <= MaxInFlight
      BY <3>2, <3>4, <3>5
    <3> QED
      BY <3>5, <3>6, FewerRequests
  <2> QED
    BY <2>2, <2>3, <2>4
<1> QED
  BY <1>4, <1>5, <1>6, <1>7 DEF ListInv

\* What each handler of the lists goes on with.
LEMMA ListStepInv ==
    ASSUME IsFiniteSet(Request), RowsInv, ListInv, NEW r \in Request, ListStep(r)
    PROVE  ListInv'
<1>1. HoldsList(Done, templates) /\ Done.pc # "insertRows"
  BY DEF HoldsList, Done
<1>2. ASSUME NEW l \in ProfileList, NEW n \in 0 .. MaxRows, ReplaceProfileList(r, l, n)
      PROVE  ListInv'
  <2>1. PICK x : x = [pc |-> "deleteRows", list |-> l, length |-> n]
    OBVIOUS
  <2>2. x.pc = "deleteRows" /\ x.list = l /\ x.length = n /\ Goto(r, x) /\ n \in Nat
    BY <1>2, <2>1 DEF ReplaceProfileList
  <2>3. l \in List /\ l \notin TemplateList
    BY ListsAssumption DEF List
  <2>4. HoldsList(x, templates)
    BY <2>2, <2>3 DEF HoldsList
  <2> QED
    BY <1>2, <2>2, <2>4, ListsKept DEF ReplaceProfileList
<1>3. ASSUME NEW l \in TemplateList, NEW n \in 1 .. MaxRows, UpdateTemplate(r, l, n)
      PROVE  ListInv'
  <2>1. PICK x : x = [pc |-> "deleteRows", list |-> l, length |-> n]
    OBVIOUS
  <2>2. x.pc = "deleteRows" /\ x.list = l /\ x.length = n /\ n \in Nat
    BY <1>3, <2>1
  <2>3. HoldsList(x, templates)
    BY <1>3, <2>2 DEF HoldsList, List, UpdateTemplate
  <2>4. Goto(r, x) \/ Goto(r, Done)
    BY <1>3, <2>1 DEF UpdateTemplate
  <2> QED
    BY <1>1, <1>3, <2>2, <2>3, <2>4, ListsKept DEF UpdateTemplate
<1>4. ASSUME NEW l \in TemplateList, NEW n \in 1 .. MaxRows, CreateTemplate(r, l, n)
      PROVE  ListInv'
  <2>1. PICK rows : rows = RowsOf(r, n)
    OBVIOUS
  <2>2. Whole(rows) /\ \A row \in rows : row.by = r
    BY <2>1, RowsOfWhole
  <2>3. Replacing(l) = {}
    BY <1>4 DEF CreateTemplate, Replacing, At, ListInv, ListHandlersInv, HoldsList
  <2>4. /\ Goto(r, Done) /\ Arrives(r) /\ lists' = [lists EXCEPT ![l] = rows]
        /\ templates' = [templates EXCEPT ![l] = "kept"]
    BY <1>4, <2>1 DEF CreateTemplate, Finish
  <2> QED
    BY <2>2, <2>3, <2>4, ListWritten
<1>5. ASSUME NEW l \in TemplateList, RemoveTemplateRead(r, l)
      PROVE  ListInv'
  <2>1. PICK x : x = [pc |-> "removeTemplate", list |-> l]
    OBVIOUS
  <2>2. x.pc = "removeTemplate" /\ x.list = l
    BY <2>1
  <2>3. HoldsList(x, templates)
    BY <2>2 DEF HoldsList
  <2>4. Goto(r, x) \/ Goto(r, Done)
    BY <1>5, <2>1 DEF RemoveTemplateRead
  <2> QED
    BY <1>1, <1>5, <2>2, <2>3, <2>4, ListsKept DEF RemoveTemplateRead
<1>6. ASSUME RemoveTemplate(r)
      PROVE  ListInv'
  <2>1. PICK l : l = req[r].list
    OBVIOUS
  <2>2. PICK rows : rows = {}
    OBVIOUS
  <2>3. /\ Goto(r, Done) /\ lists' = [lists EXCEPT ![l] = rows]
        /\ templates' = [templates EXCEPT ![l] = "deleted"]
        /\ l \in TemplateList /\ r \in InFlight /\ Whole(rows)
    BY <1>6, <2>1, <2>2
    DEF RemoveTemplate, Finish, At, ListInv, ListHandlersInv, HoldsList, InFlight, Idle, Done,
        Lost, Whole
  <2> QED
    BY <2>2, <2>3, ListWritten, Zenon
<1> QED
  BY <1>2, <1>3, <1>4, <1>5, <1>6, DeleteRowsCrowds, InsertRowsCrowds
  DEF ListStep, BeginList, ContinueList, PipelineTemplatesController

\* Every step keeps the rows whole and the crowds small.
LEMMA StepListInv ==
    ASSUME IsFiniteSet(Request), IInv, ListInv, [Next]_vars
    PROVE  ListInv'
<1>1. RowsInv
  BY DEF IInv, CvInv
<1>2. ASSUME NEW r \in Request,
             CvsBegin(r) \/ ContinueCvs(r) \/ SubscriptionStep(r) \/ SourcingStep(r)
      PROVE  ListInv'
  <2>1. UNCHANGED listTables /\ (Arrives(r) \/ r \in InFlight)
    BY <1>2, OthersLeaveLists
  <2>2. PICK x : Goto(r, x) /\ x.pc \notin {"deleteRows", "insertRows", "removeTemplate"}
    BY <1>2, OthersLeaveLists
  <2>3. HoldsList(x, templates)
    BY <2>2 DEF HoldsList
  <2> QED
    BY <1>1, <2>1, <2>2, <2>3, ListsKept
<1>3. ASSUME NEW r \in Request, Fail(r)
      PROVE  ListInv'
  <2>1. HoldsList(Lost, templates) /\ Lost.pc # "insertRows"
    BY DEF HoldsList, Lost
  <2> QED
    BY <1>1, <1>3, <2>1, ListsKept DEF Fail, Fails
<1>4. CASE Clock \/ UNCHANGED vars
  <2>1. lists' = lists /\ templates' = templates /\ req' = req
    BY <1>4 DEF Clock, LinkExpires, vars, listTables
  <2> QED
    BY <2>1 DEF ListInv, RowsAreWhole, Kept, ListHandlersInv, CrowdsInv, Crowd, LeftBy,
                Replacing, At, InFlight
<1> QED
  BY <1>1, <1>2, <1>3, <1>4, ListStepInv DEF Next, Quiescent

\* For any number of requests, a list has the rows of no more replacements than were in
\* flight at once, each of them whole, and a deleted template has no stages.
THEOREM ListsAreReplaced == IsFiniteSet(Request) /\ Spec => []OverlapsAloneConcatenate
<1> SUFFICES ASSUME IsFiniteSet(Request)
             PROVE  Spec => []OverlapsAloneConcatenate
  OBVIOUS
<1>1. Init => ListInv
  <2> SUFFICES ASSUME Init PROVE ListInv
    OBVIOUS
  <2>1. \A r \in Request : req[r] = Idle
    BY DEF Init, RequestsInit
  <2>2. InFlight = {} /\ \A l : Replacing(l) = {}
    BY <2>1 DEF InFlight, Replacing, At, Idle
  <2>3. MaxInFlight \in Nat /\ Cardinality({}) = 0
    BY FS_EmptySet, RequestAssumption
  <2>4. \A l \in List : lists[l] = {}
    BY DEF Init, ListTablesInit
  <2>5. CrowdsInv
    <3> SUFFICES ASSUME NEW l \in List, NEW Q \in SUBSET Replacing(l)
                 PROVE  Cardinality(Crowd(l, Q)) <= MaxInFlight
      BY DEF CrowdsInv
    <3>1. Crowd(l, Q) = {}
      BY <2>2, <2>4 DEF Crowd, LeftBy
    <3> QED
      BY <2>3, <3>1
  <2>6. RowsAreWhole
    BY <2>4 DEF Init, ListTablesInit, RowsAreWhole, Whole
  <2>7. ListHandlersInv
    BY <2>1 DEF ListHandlersInv, HoldsList, Idle
  <2> QED
    BY <2>2, <2>3, <2>5, <2>6, <2>7 DEF ListInv
<1>2. IInv /\ ListInv /\ [Next]_vars => ListInv'
  BY StepListInv
<1>3. ListInv => OverlapsAloneConcatenate
  <2> SUFFICES ASSUME ListInv, NEW l \in List
               PROVE  /\ Cardinality(Authors(l)) <= MaxInFlight
                      /\ \A row \in lists[l] : RowsOf(row.by, row.of) \subseteq lists[l]
                      /\ ~ Kept(l) => lists[l] = {}
    BY DEF OverlapsAloneConcatenate
  <2>1. PICK Q : Q = {}
    OBVIOUS
  <2>2. Cardinality(Crowd(l, Q)) <= MaxInFlight
    BY <2>1 DEF ListInv, CrowdsInv
  <2>3. Crowd(l, Q) = Authors(l)
    BY <2>1 DEF Crowd, LeftBy, Authors
  <2> QED
    BY <2>2, <2>3 DEF ListInv, RowsAreWhole, Whole
<1> QED
  BY <1>1, <1>2, <1>3, IInvHolds, PTL DEF Spec
=============================================================================
