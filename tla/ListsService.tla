---------------------------- MODULE ListsService ----------------------------
(***************************************************************************)
(* Lists that are replaced as a whole: the education, experience and skills *)
(* of a candidate's profile (CandidatesService) and the stages of a pipeline *)
(* template (PipelineTemplatesService).  A transaction deletes the rows of   *)
(* the list and inserts new ones.  It runs under READ COMMITTED: deleteMany  *)
(* finds the rows committed when it starts, so what other transactions       *)
(* insert before this one commits stays.                                     *)
(***************************************************************************)
EXTENDS Requests

CONSTANTS
    ProfileList,   \* one of the lists of one candidate's profile
    TemplateList,  \* PipelineTemplate ids, each with its list of stages
    MaxRows        \* the bound on the length of a list

ASSUME ListsAssumption ==
    MaxRows \in Nat /\ ProfileList \cap TemplateList = {}

VARIABLES
    lists,      \* the committed rows of each list
    templates   \* "none", "kept" or "deleted" for each PipelineTemplate

listTables == <<lists, templates>>

List == ProfileList \cup TemplateList

\* by is the request that inserted a row, and of the length of what it inserted.
RowsOf(r, n) == {[by |-> r, index |-> i, of |-> n] : i \in 1 .. n}

ListTablesInit ==
    /\ lists = [l \in List |-> {}]
    /\ templates = [t \in TemplateList |-> "none"]

Kept(l) == l \in ProfileList \/ templates[l] = "kept"

\* replaceEducation(), replaceExperience(), replaceSkills(): any length, and
\* ensureProfile() makes the profile if there is none.
ReplaceProfileList(r, l, n) ==
    /\ Arrives(r)
    /\ Goto(r, [pc |-> "deleteRows", list |-> l, length |-> n])
    /\ UNCHANGED listTables

\* update(): the template is looked up, and has one stage at least.
UpdateTemplate(r, l, n) ==
    /\ Arrives(r)
    /\ templates[l] # "none"
    /\ n > 0
    /\ Goto(r, IF Kept(l) THEN [pc |-> "deleteRows", list |-> l, length |-> n] ELSE Done)
    /\ UNCHANGED listTables

\* Mutation of DeleteRows: the old rows are left where they are.
DeleteNoRows(r) ==
    /\ At(r, "deleteRows")
    /\ Goto(r, [pc |-> "insertRows", list |-> req[r].list, length |-> req[r].length,
                deleted |-> {}])
    /\ UNCHANGED listTables

\* The rows deleteMany finds.  It waits for another transaction that deletes the
\* same rows: the one that commits first is the one that deleted first.
DeleteRows(r) ==
    /\ At(r, "deleteRows")
    /\ Goto(r, [pc |-> "insertRows", list |-> req[r].list, length |-> req[r].length,
                deleted |-> lists[req[r].list]])
    /\ UNCHANGED listTables

\* createMany and the commit.  The foreign key rolls it back (P2003) when the
\* template was deleted.
InsertRows(r) ==
    LET l == req[r].list
    IN  /\ At(r, "insertRows")
        /\ lists' = IF Kept(l)
                    THEN [lists EXCEPT ![l] = (@ \ req[r].deleted) \cup RowsOf(r, req[r].length)]
                    ELSE lists
        /\ Finish(r)
        /\ UNCHANGED templates

-----------------------------------------------------------------------------
\* create() of PipelineTemplatesService: the template and its stages in one write.
CreateTemplate(r, l, n) ==
    /\ Arrives(r)
    /\ templates[l] = "none"
    /\ n > 0
    /\ templates' = [templates EXCEPT ![l] = "kept"]
    /\ lists' = [lists EXCEPT ![l] = RowsOf(r, n)]
    /\ Finish(r)

\* remove(): the template is looked up, and deleted by id with its stages.
RemoveTemplateRead(r, l) ==
    /\ Arrives(r)
    /\ templates[l] # "none"
    /\ Goto(r, IF Kept(l) THEN [pc |-> "removeTemplate", list |-> l] ELSE Done)
    /\ UNCHANGED listTables

\* A second delete finds no row (P2025).
RemoveTemplate(r) ==
    LET l == req[r].list
    IN  /\ At(r, "removeTemplate")
        /\ templates' = [templates EXCEPT ![l] = "deleted"]
        /\ lists' = [lists EXCEPT ![l] = {}]
        /\ Finish(r)

-----------------------------------------------------------------------------
PipelineTemplatesController(r) ==
    \E l \in TemplateList, n \in 1 .. MaxRows :
        CreateTemplate(r, l, n) \/ UpdateTemplate(r, l, n) \/ RemoveTemplateRead(r, l)

BeginList(r) ==
    \/ \E l \in ProfileList, n \in 0 .. MaxRows : ReplaceProfileList(r, l, n)
    \/ PipelineTemplatesController(r)

ContinueList(r) == DeleteRows(r) \/ InsertRows(r) \/ RemoveTemplate(r)
=============================================================================
