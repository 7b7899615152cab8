------------------------- MODULE CandidatesService -------------------------
(***************************************************************************)
(* CandidatesService, as far as CVs go: a row in the database and a file in *)
(* the object storage for each, links to the files, and the use that         *)
(* create() of ApplicationsService makes of them.  The lists of a profile   *)
(* are in ListsService; its other fields are one upsert and left out.        *)
(***************************************************************************)
EXTENDS Requests

CONSTANTS
    Candidate,  \* User ids
    Cv,         \* ids of CV rows
    File,       \* storage keys, drawn at random and never again
    None        \* no row, no value

VARIABLES
    cvs,       \* CV; a row that was deleted is kept, marked as deleted
    files,     \* keys of the files in the storage
    uploaded,  \* all keys ever drawn
    attached,  \* Application.cvId of all applications
    previews   \* the links to CVs of applications that have not expired

cvTables == <<cvs, files, uploaded, attached, previews>>

CvRow == [candidate: Candidate, file: File, isPrimary: BOOLEAN, deleted: BOOLEAN]

ASSUME CvAssumption == None \notin CvRow

CvTablesInit ==
    /\ cvs = [cv \in Cv |-> None]
    /\ files = {}
    /\ uploaded = {}
    /\ attached = {}
    /\ previews = {}

Cvs == {cv \in Cv : cvs[cv] # None /\ ~ cvs[cv].deleted}
CvsOf(c) == {cv \in Cvs : cvs[cv].candidate = c}

\* The bound on CVs: an id is left for each request on its way to one.
RoomForCv ==
    /\ uploaded # File
    /\ Cardinality({r \in Request : req[r].pc \in {"countCvs", "insertCv"}})
         < Cardinality({cv \in Cv : cvs[cv] = None})

-----------------------------------------------------------------------------
(* uploadCv(): the file, the number of CVs, the row. *)

UploadCvFile(r, c) ==
    /\ Arrives(r)
    /\ RoomForCv
    /\ \E f \in File \ uploaded :
         /\ files' = files \cup {f}
         /\ uploaded' = uploaded \cup {f}
         /\ Goto(r, [pc |-> "countCvs", candidate |-> c, file |-> f])
    /\ UNCHANGED <<cvs, attached, previews>>

\* Mutation of CountCvs: a candidate who has CVs uploads none.
CountCvsRefused(r) ==
    /\ At(r, "countCvs")
    /\ Goto(r, IF CvsOf(req[r].candidate) # {} THEN Done
               ELSE [pc |-> "insertCv", candidate |-> req[r].candidate,
                     file |-> req[r].file, isPrimary |-> TRUE])
    /\ UNCHANGED cvTables

CountCvs(r) ==
    /\ At(r, "countCvs")
    /\ Goto(r, [pc |-> "insertCv", candidate |-> req[r].candidate, file |-> req[r].file,
                isPrimary |-> CvsOf(req[r].candidate) = {}])
    /\ UNCHANGED cvTables

InsertCv(r) ==
    /\ At(r, "insertCv")
    /\ \E cv \in Cv :
         /\ cvs[cv] = None
         /\ cvs' = [cvs EXCEPT ![cv] =
                [candidate |-> req[r].candidate, file |-> req[r].file,
                 isPrimary |-> req[r].isPrimary, deleted |-> FALSE]]
    /\ Finish(r)
    /\ UNCHANGED <<files, uploaded, attached, previews>>

-----------------------------------------------------------------------------
(* setPrimaryCv() and deleteCv() read the candidate's own row first. *)

OnOwnCv(r, cv, pc) ==
    /\ Arrives(r)
    /\ cv \in Cv /\ cvs[cv] # None
    /\ Goto(r, IF cv \in Cvs THEN [pc |-> pc, cv |-> cv] ELSE Done)
    /\ UNCHANGED cvTables

MakePrimary(cv) ==
    cvs' = [d \in Cv |-> IF d \in CvsOf(cvs[cv].candidate)
                         THEN [cvs[d] EXCEPT !.isPrimary = (d = cv)] ELSE cvs[d]]

\* The two updates in one $transaction.  It is rolled back when the row is gone
\* (P2025), or as the loser of a deadlock with another choice of the candidate's.
SetPrimaryCv(r) ==
    /\ At(r, "setPrimary")
    /\ \/ req[r].cv \in Cvs /\ MakePrimary(req[r].cv)
       \/ /\ req[r].cv \in Cvs =>
               \E q \in Request \ {r} :
                  At(q, "setPrimary") /\ cvs[req[q].cv].candidate = cvs[req[r].cv].candidate
          /\ UNCHANGED cvs
    /\ Finish(r)
    /\ UNCHANGED <<files, uploaded, attached, previews>>

\* Mutation of DeleteCvRow: the file goes whether or not the row does.
DeleteCvRowUnchecked(r) ==
    LET cv == req[r].cv
    IN  /\ At(r, "deleteCv")
        /\ cvs' = IF cv \in Cvs \ attached THEN [cvs EXCEPT ![cv].deleted = TRUE] ELSE cvs
        /\ Goto(r, [pc |-> "deleteFile", file |-> cvs[cv].file])
        /\ UNCHANGED <<files, uploaded, attached, previews>>

\* P2003 when an application has it, P2025 when it is gone.
DeleteCvRow(r) ==
    LET cv == req[r].cv
    IN  /\ At(r, "deleteCv")
        /\ IF cv \in Cvs \ attached
           THEN /\ cvs' = [cvs EXCEPT ![cv].deleted = TRUE]
                /\ Goto(r, [pc |-> "deleteFile", file |-> cvs[cv].file])
           ELSE UNCHANGED cvs /\ Finish(r)
        /\ UNCHANGED <<files, uploaded, attached, previews>>

DeleteCvFile(r) ==
    /\ At(r, "deleteFile")
    /\ files' = files \ {req[r].file}
    /\ Finish(r)
    /\ UNCHANGED <<cvs, uploaded, attached, previews>>

-----------------------------------------------------------------------------
(* create() of ApplicationsService: the CV asked for, if it is the            *)
(* candidate's, or else a primary one; then the row that refers to it.       *)

Resolved(c, asked) ==
    IF asked = None THEN {cv \in CvsOf(c) : cvs[cv].isPrimary} ELSE CvsOf(c) \cap {asked}

ResolveCv(r, c, asked) ==
    /\ Arrives(r)
    /\ \/ \E cv \in Resolved(c, asked) : Goto(r, [pc |-> "attach", cv |-> cv])
       \/ Resolved(c, asked) = {} /\ Finish(r)
    /\ UNCHANGED cvTables

\* P2003 when the CV is gone.
AttachCv(r) ==
    /\ At(r, "attach")
    /\ attached' = attached \cup ({req[r].cv} \cap Cvs)
    /\ Finish(r)
    /\ UNCHANGED <<cvs, files, uploaded, previews>>

-----------------------------------------------------------------------------
(* getCvSignedUrlForJob(): a recruiter's preview of the CV of an application. *)
(* The application is read, then the CV, whose file the link names until it   *)
(* expires.                                                                  *)

PreviewRead(r, cv) ==
    /\ Arrives(r)
    /\ cv \in attached
    /\ Goto(r, [pc |-> "findCv", cv |-> cv])
    /\ UNCHANGED cvTables

\* 404 when the CV is gone.
PreviewLink(r) ==
    /\ At(r, "findCv")
    /\ previews' = previews \cup {cvs[cv].file : cv \in {req[r].cv} \cap Cvs}
    /\ Finish(r)
    /\ UNCHANGED <<cvs, files, uploaded, attached>>

\* verify() of LocalStorageService compares the clock with expires.
LinkExpires ==
    /\ \E f \in previews : previews' = previews \ {f}
    /\ UNCHANGED <<cvs, files, uploaded, attached, req>>

-----------------------------------------------------------------------------
CandidatesController(r) ==
    \/ \E c \in Candidate : UploadCvFile(r, c)
    \/ \E cv \in Cv, pc \in {"setPrimary", "deleteCv"} : OnOwnCv(r, cv, pc)

ContinueCv(r) ==
    \/ CountCvs(r)
    \/ InsertCv(r)
    \/ SetPrimaryCv(r)
    \/ DeleteCvRow(r)
    \/ DeleteCvFile(r)
    \/ AttachCv(r)
    \/ PreviewLink(r)
=============================================================================
