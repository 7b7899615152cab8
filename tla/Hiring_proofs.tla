---------------------------- MODULE Hiring_proofs ----------------------------
(***************************************************************************)
(* Theorems on JobsService and ApplicationsService together: stages are     *)
(* edited and jobs published, closed and archived while candidates apply    *)
(* and staff screen and decide.                                             *)
(***************************************************************************)
EXTENDS Hiring, ApplicationsService_proofs, FiniteSetTheorems,
        WellFoundedInduction

-----------------------------------------------------------------------------
(* The steps of JobsService: what a request holds across its awaits, and what *)
(* the replacement of a job's stages leaves in the table.                      *)

JobPC == {"publishCount", "publish", "close", "archive", "template", "stagesRead",
          "stagesInUse", "stagesWrite"}

\* What handlers have seen a stage of their job before: publish() counts them,
\* close() and create() read a PUBLISHED job.
SeenStage == {"publish", "close", "resolveCv", "firstStage"}

IsRow(table, s) == table[s] \notin {None, Deleted}
HasRow(table, j) == \E s \in Stage : IsRow(table, s) /\ table[s].job = j

\* The rows setStages() has read: those it drops are of the job, those it keeps
\* are of the job and of the name, and none is both.
Replacement(x, table) ==
    /\ \A s \in x.remove : OfJob(table, s, x.job)
    /\ \A n \in NamesIn(x.names) : x.match[n] # None =>
          /\ OfJob(table, x.match[n], x.job)
          /\ IsRow(table, x.match[n]) => table[x.match[n]].name = n
          /\ x.match[n] \notin x.remove

\* What a request must hold for the next statement of its handler.
JobHolds(x, table) ==
    /\ x.pc \in JobPC => x \in JobRequest
    /\ x.pc \in {"stagesInUse", "stagesWrite"} => Replacement(x, table)
    /\ x.pc \in SeenStage => HasRow(table, x.job)

\* PublishedHasStage, in terms of rows, and what every handler relies on.
JobInv ==
    /\ \A r \in Request : JobHolds(req[r], stages)
    /\ \A j \in Job : jobs[j] \in {"PUBLISHED", "CLOSED"} => HasRow(stages, j)

-----------------------------------------------------------------------------
(* Lists of names. *)

\* A set of positions in a list has a last one.
LEMMA LastPosition ==
    ASSUME NEW L \in Nat, NEW S \in SUBSET (1 .. L), S # {}
    PROVE  \E i \in S : \A k \in S : k <= i
<1> DEFINE T == {L - i : i \in S}
           R == OpToRel(<, Nat)
<1>1. IsWellFoundedOn(R, Nat)
  BY NatLessThanWellFounded
<1>2. \A x, y \in Nat : y < x => <<y, x>> \in R
  BY DEF OpToRel
<1> HIDE DEF R
<1>3. PICK j \in S : TRUE
  OBVIOUS
<1>4. T \subseteq Nat /\ T # {}
  <2>1. \A k \in S : k \in 1 .. L /\ L - k \in Nat
    OBVIOUS
  <2>2. T \subseteq Nat /\ L - j \in T
    BY <1>3, <2>1
  <2> QED
    BY <2>2
<1> HIDE DEF T
<1>5. PICK x \in T : \A y \in T : ~ (<<y, x>> \in R)
  BY <1>1, <1>4, WFMin
<1>6. \A y \in T : ~ (y < x)
  BY <1>2, <1>4, <1>5
<1>7. PICK i \in S : x = L - i
  BY <1>5 DEF T
<1>8. ASSUME NEW k \in S
      PROVE  k <= i
  <2>1. L - k \in T
    BY DEF T
  <2> QED
    BY <1>6, <1>7, <2>1
<1> QED
  BY <1>8

\* A list that may be submitted names existing stage names, and at least one.
LEMMA ListNames ==
    ASSUME NEW names \in StageList
    PROVE  /\ DOMAIN names = 1 .. Len(names) /\ Len(names) \in Nat /\ 1 \in DOMAIN names
           /\ \A i \in DOMAIN names : names[i] \in StageName
           /\ NamesIn(names) \subseteq StageName
  BY StageListAssumption DEF NamesIn

\* The last position of a listed name is a position.
LEMMA LastIndexType ==
    ASSUME NEW names \in StageList, NEW n \in NamesIn(names)
    PROVE  LastIndex(names, n) \in DOMAIN names /\ LastIndex(names, n) - 1 \in Nat
<1> DEFINE S == {i \in DOMAIN names : names[i] = n}
<1>1. DOMAIN names = 1 .. Len(names) /\ Len(names) \in Nat
  BY ListNames
<1>2. S \in SUBSET (1 .. Len(names)) /\ S # {}
  BY <1>1 DEF NamesIn
<1>3. PICK i \in S : \A k \in S : k <= i
  BY <1>1, <1>2, LastPosition
<1>4. \E k \in DOMAIN names :
          names[k] = n /\ \A m \in DOMAIN names : names[m] = n => m <= k
  BY <1>3
<1>5. LastIndex(names, n) \in DOMAIN names
  BY <1>4 DEF LastIndex
<1> QED
  BY <1>1, <1>5

-----------------------------------------------------------------------------
(* What setStages() does to the rows. *)

\* Rows that are there stay, or leave an id that is never used again; they keep
\* their job and their name.
StagesStable ==
    \A s \in Stage : stages[s] # None =>
        /\ stages'[s] # None
        /\ IsRow(stages', s) => /\ IsRow(stages, s)
                                /\ stages'[s].job = stages[s].job
                                /\ stages'[s].name = stages[s].name

\* A job that has a stage keeps one.
RowsStay == \A j : HasRow(stages, j) => HasRow(stages', j)

\* What a request that replaces stages holds.
LEMMA ReplacementFields ==
    ASSUME JobInv, NEW r \in Request, req[r].pc \in {"stagesInUse", "stagesWrite"}
    PROVE  /\ req[r].job \in Job /\ req[r].names \in StageList
           /\ req[r].remove \subseteq Stage
           /\ req[r].match \in [StageName -> Stage \cup {None}]
           /\ Replacement(req[r], stages)
<1>1. req[r] \in JobRequest /\ Replacement(req[r], stages)
  BY DEF JobInv, JobHolds, JobPC
<1> QED
  BY <1>1 DEF JobRequest

\* What becomes of a row at the commit: it is dropped, made for a new name,
\* renumbered, or left alone.
Written(x, s) ==
    \/ s \in x.remove /\ stages'[s] = Deleted
    \/ /\ stages[s] = None
       /\ \E n \in StageName, k \in Nat : stages'[s] = [job |-> x.job, name |-> n, order |-> k]
    \/ /\ s \notin x.remove /\ stages[s] \in StageRow
       /\ \E k \in Nat :
            stages'[s] = [job |-> stages[s].job, name |-> stages[s].name, order |-> k]
    \/ s \notin x.remove /\ stages'[s] = stages[s]

\* The commit of a replacement, row by row; a listed name that had no row has one.
LEMMA WrittenRows ==
    ASSUME TablesTypeOK, JobInv, NEW r \in Request, SetStagesWrite(r),
           ~ Rejected(req[r].names, req[r].remove, req[r].match)
    PROVE  /\ stages' = [s \in Stage |-> stages'[s]]
           /\ \A s \in Stage : Written(req[r], s)
           /\ req[r].match[req[r].names[1]] = None =>
                  \E s \in Stage, n \in StageName, k \in Nat :
                      stages'[s] = [job |-> req[r].job, name |-> n, order |-> k]
<1> DEFINE j == req[r].job
           names == req[r].names
           remove == req[r].remove
           match == req[r].match
           free == {s \in Stage : stages[s] = None}
           new == NewIndices(names, match)
<1>1. /\ j \in Job /\ names \in StageList /\ remove \subseteq Stage
      /\ match \in [StageName -> Stage \cup {None}]
      /\ Replacement(req[r], stages)
  BY ReplacementFields DEF SetStagesWrite, At
<1>2. PICK id \in [new -> free] :
          stages' = [s \in Stage |->
              IF s \in remove THEN Deleted
              ELSE IF \E i \in new : id[i] = s
              THEN LET i == CHOOSE k \in new : id[k] = s
                   IN  [job |-> j, name |-> names[i], order |-> i - 1]
              ELSE IF \E n \in NamesIn(names) : match[n] = s
              THEN [stages[s] EXCEPT !.order = LastIndex(names, stages[s].name) - 1]
              ELSE stages[s]]
  BY DEF SetStagesWrite
<1>3. new \subseteq DOMAIN names /\ \A i \in new : names[i] \in StageName /\ i - 1 \in Nat
  BY <1>1, ListNames DEF NewIndices
<1>4. ASSUME NEW s \in Stage \ remove, \E i \in new : id[i] = s
      PROVE  /\ stages[s] = None
             /\ \E n \in StageName, k \in Nat : stages'[s] = [job |-> j, name |-> n, order |-> k]
  <2> DEFINE i == CHOOSE k \in new : id[k] = s
  <2>1. i \in new /\ id[i] = s
    BY <1>4
  <2>2. stages'[s] = [job |-> j, name |-> names[i], order |-> i - 1]
    BY <1>2, <1>4
  <2> HIDE DEF i
  <2> QED
    BY <1>2, <1>3, <2>1, <2>2
<1>5. ASSUME NEW s \in Stage \ remove, ~ (\E i \in new : id[i] = s),
             NEW n \in NamesIn(names), match[n] = s
      PROVE  /\ stages[s] \in StageRow
             /\ \E k \in Nat :
                  stages'[s] = [job |-> stages[s].job, name |-> stages[s].name, order |-> k]
  <2>1. match[n] # None /\ StageExists(s)
    BY <1>5, NoneAssumption DEF Rejected
  <2>2. stages[s] \in StageRow /\ stages[s].name = n
    BY <1>1, <1>5, <2>1 DEF TablesTypeOK, StageExists, Replacement, IsRow
  <2> DEFINE k == LastIndex(names, n) - 1
  <2>3. k \in Nat
    BY <1>1, LastIndexType
  <2>4. stages'[s] = [stages[s] EXCEPT !.order = k]
    BY <1>2, <1>5, <2>2
  <2> HIDE DEF k
  <2>5. [stages[s] EXCEPT !.order = k] =
            [job |-> stages[s].job, name |-> stages[s].name, order |-> k]
    BY <2>2 DEF StageRow
  <2> QED
    BY <2>2, <2>3, <2>4, <2>5
<1>6. ASSUME NEW s \in Stage \ remove, ~ (\E i \in new : id[i] = s),
             ~ (\E n \in NamesIn(names) : match[n] = s)
      PROVE  stages'[s] = stages[s]
  BY <1>2, <1>6
<1>7. \A s \in Stage : Written(req[r], s)
  BY <1>2, <1>4, <1>5, <1>6 DEF Written
<1>8. ASSUME match[names[1]] = None
      PROVE  \E s \in Stage, n \in StageName, k \in Nat :
                 stages'[s] = [job |-> j, name |-> n, order |-> k]
  <2>1. 1 \in new
    BY <1>1, <1>8, ListNames DEF NewIndices
  <2>2. id[1] \in Stage \ remove
    BY <1>1, <1>2, <2>1 DEF Replacement, OfJob
  <2> QED
    BY <1>4, <2>1, <2>2
<1> QED
  BY <1>2, <1>7, <1>8

\* The replacement leaves every job that had a stage with one, every row it does
\* not drop in its job, and none of those it drops to an application.
LEMMA WriteStable ==
    ASSUME TablesTypeOK, JobInv, ServiceInv, NEW r \in Request, SetStagesWrite(r)
    PROVE  /\ stages' \in [Stage -> StageRow \cup {None, Deleted}]
           /\ StagesStable /\ RowsStay /\ StageOfOwnJob'
<1> DEFINE j == req[r].job
           names == req[r].names
           remove == req[r].remove
           match == req[r].match
<1>0. UNCHANGED applications
  BY DEF SetStagesWrite
<1>1. CASE Rejected(names, remove, match)
  <2>1. UNCHANGED stages
    BY <1>1 DEF SetStagesWrite
  <2> QED
    BY <1>0, <2>1 DEF TablesTypeOK, StagesStable, RowsStay, ServiceInv, StageOfOwnJob,
                      StageExists, Applications
<1>2. CASE ~ Rejected(names, remove, match)
  <2>1. /\ j \in Job /\ names \in StageList /\ remove \subseteq Stage
        /\ match \in [StageName -> Stage \cup {None}]
        /\ Replacement(req[r], stages)
    BY ReplacementFields DEF SetStagesWrite, At
  <2>2. /\ stages' = [s \in Stage |-> stages'[s]]
        /\ \A s \in Stage : Written(req[r], s)
    BY <1>2, WrittenRows
  <2>3. stages' \in [Stage -> StageRow \cup {None, Deleted}]
    BY <2>1, <2>2 DEF Written, TablesTypeOK, StageRow
  <2>4. StagesStable
    <3> SUFFICES ASSUME NEW s \in Stage, stages[s] # None
                 PROVE  /\ stages'[s] # None
                        /\ IsRow(stages', s) => /\ IsRow(stages, s)
                                                /\ stages'[s].job = stages[s].job
                                                /\ stages'[s].name = stages[s].name
      BY DEF StagesStable
    <3>1. CASE stages'[s] = Deleted
      BY <3>1, NoneAssumption DEF IsRow
    <3>2. ASSUME stages[s] \in StageRow, NEW k \in Nat,
                 stages'[s] = [job |-> stages[s].job, name |-> stages[s].name, order |-> k]
          PROVE  /\ stages'[s] \in StageRow /\ stages[s] \in StageRow
                 /\ stages'[s].job = stages[s].job /\ stages'[s].name = stages[s].name
      BY <3>2 DEF StageRow
    <3>3. CASE stages'[s] = stages[s]
      BY <3>3 DEF IsRow
    <3> QED
      BY <2>2, <3>1, <3>2, <3>3, NoneAssumption DEF Written, IsRow
  <2>5. RowsStay
    <3> SUFFICES ASSUME NEW jj, HasRow(stages, jj)
                 PROVE  HasRow(stages', jj)
      BY DEF RowsStay
    <3>1. ASSUME NEW s \in Stage, s \notin remove, IsRow(stages, s), stages[s].job = jj
          PROVE  HasRow(stages', jj)
      <4>1. CASE stages'[s] = stages[s]
        BY <3>1, <4>1 DEF HasRow, IsRow
      <4>2. ASSUME stages[s] \in StageRow, NEW k \in Nat,
                   stages'[s] = [job |-> stages[s].job, name |-> stages[s].name, order |-> k]
            PROVE  HasRow(stages', jj)
        <5>1. stages'[s] \in StageRow /\ stages'[s].job = jj
          BY <3>1, <4>2 DEF StageRow
        <5> QED
          BY <5>1, NoneAssumption DEF HasRow, IsRow
      <4> QED
        BY <2>2, <3>1, <4>1, <4>2 DEF Written, IsRow
    <3>2. CASE jj # j
      <4>1. PICK s \in Stage : IsRow(stages, s) /\ stages[s].job = jj
        BY DEF HasRow
      <4>2. s \notin remove
        BY <2>1, <3>2, <4>1 DEF Replacement, OfJob, IsRow
      <4> QED
        BY <3>1, <4>1, <4>2
    <3>3. CASE jj = j /\ match[names[1]] = None
      <4>1. PICK s \in Stage, n \in StageName, k \in Nat :
                stages'[s] = [job |-> j, name |-> n, order |-> k]
        BY <1>2, <3>3, WrittenRows
      <4>2. stages'[s] \in StageRow /\ stages'[s].job = j
        BY <2>1, <4>1 DEF StageRow
      <4> QED
        BY <3>3, <4>2, NoneAssumption DEF HasRow, IsRow
    <3>4. CASE jj = j /\ match[names[1]] # None
      <4>1. names[1] \in NamesIn(names) /\ match[names[1]] \in Stage
        BY <2>1, <3>4, ListNames DEF NamesIn
      <4>2. /\ IsRow(stages, match[names[1]]) /\ match[names[1]] \notin remove
            /\ stages[match[names[1]]].job = j
        BY <1>2, <2>1, <3>4, <4>1 DEF Rejected, StageExists, Replacement, OfJob, IsRow
      <4> QED
        BY <3>1, <3>4, <4>1, <4>2
    <3> QED
      BY <3>2, <3>3, <3>4
  <2>6. StageOfOwnJob'
    <3> SUFFICES ASSUME NEW a \in Applications
                 PROVE  /\ stages'[applications[a].stage] \notin {None, Deleted}
                        /\ stages'[applications[a].stage].job = applications[a].job
      BY <1>0 DEF StageOfOwnJob, StageExists, Applications
    <3> DEFINE s == applications[a].stage
    <3>1. s \in Stage /\ s \notin remove
      BY <1>2 DEF Rejected, InUse, TablesTypeOK, ApplicationRow, Applications
    <3>2. IsRow(stages, s) /\ stages[s].job = applications[a].job
      BY DEF ServiceInv, StageOfOwnJob, StageExists, IsRow
    <3>3. IsRow(stages', s)
      <4>1. ASSUME stages[s] \in StageRow, NEW k \in Nat,
                   stages'[s] = [job |-> stages[s].job, name |-> stages[s].name, order |-> k]
            PROVE  stages'[s] \in StageRow
        BY <4>1 DEF StageRow
      <4> QED
        BY <2>2, <3>1, <3>2, <4>1, NoneAssumption DEF Written, IsRow
    <3> QED
      BY <2>4, <3>1, <3>2, <3>3 DEF StagesStable, IsRow
  <2> QED
    BY <2>3, <2>4, <2>5, <2>6
<1> QED
  BY <1>1, <1>2

-----------------------------------------------------------------------------
(* Where a step leaves its request. *)

JobAfter == {Done} \cup JobRequest

\* A new request of this service ends, or holds what its next await needs.
LEMMA BeginJobHolds ==
    ASSUME JobInv, NEW r \in Request, BeginJob(r)
    PROVE  \E x \in JobAfter : Goto(r, x) /\ JobHolds(x, stages)
<1> USE DEF JobAfter, JobRequest, JobHolds, JobPC, SeenStage
<1>0. Done \in JobAfter /\ JobHolds(Done, stages)
  BY DEF Done
<1>1. ASSUME NEW j \in Job, NEW allowed, NEW state \in JobAfter, RequireJob(r, j, allowed, state),
             jobs[j] \in allowed => JobHolds(state, stages)
      PROVE  \E x \in JobAfter : Goto(r, x) /\ JobHolds(x, stages)
  <2>1. CASE jobs[j] \in allowed
    BY <1>1, <2>1 DEF RequireJob
  <2>2. CASE jobs[j] \notin allowed
    BY <1>0, <1>1, <2>2 DEF RequireJob
  <2> QED
    BY <2>1, <2>2
<1>2. ASSUME NEW j \in Job, CreateJob(r, j)
      PROVE  \E x \in JobAfter : Goto(r, x) /\ JobHolds(x, stages)
  BY <1>0, <1>2 DEF CreateJob, Finish
<1>3. ASSUME NEW j \in Job, PublishRead(r, j)
      PROVE  \E x \in JobAfter : Goto(r, x) /\ JobHolds(x, stages)
  BY <1>1, <1>3 DEF PublishRead
<1>4. ASSUME NEW j \in Job, CloseRead(r, j)
      PROVE  \E x \in JobAfter : Goto(r, x) /\ JobHolds(x, stages)
  <2>1. jobs[j] \in {"PUBLISHED"} => JobHolds([pc |-> "close", job |-> j], stages)
    BY DEF JobInv
  <2> QED
    BY <1>1, <1>4, <2>1 DEF CloseRead
<1>5. ASSUME NEW j \in Job, ArchiveRead(r, j)
      PROVE  \E x \in JobAfter : Goto(r, x) /\ JobHolds(x, stages)
  BY <1>1, <1>5 DEF ArchiveRead
<1>6. ASSUME NEW j \in Job, NEW names \in StageList, ReplaceStages(r, j, names)
      PROVE  \E x \in JobAfter : Goto(r, x) /\ JobHolds(x, stages)
  <2> DEFINE state == [pc |-> "stagesRead", job |-> j, names |-> names]
  <2>1. state \in JobAfter /\ JobHolds(state, stages)
    OBVIOUS
  <2>2. RequireJob(r, j, JobStatus, state)
    BY <1>6 DEF ReplaceStages
  <2> HIDE DEF state
  <2> QED
    BY <1>1, <2>1, <2>2
<1>7. ASSUME NEW j \in Job, ApplyTemplate(r, j)
      PROVE  \E x \in JobAfter : Goto(r, x) /\ JobHolds(x, stages)
  BY <1>1, <1>7 DEF ApplyTemplate
<1> QED
  BY <1>2, <1>3, <1>4, <1>5, <1>6, <1>7 DEF BeginJob

\* setStages() reads the rows of the job, and keeps one row per listed name.
LEMMA ReadHolds ==
    ASSUME JobInv, NEW r \in Request, SetStagesRead(r)
    PROVE  \E x \in JobAfter : Goto(r, x) /\ JobHolds(x, stages)
<1> DEFINE existing == StagesOf(req[r].job)
           names == req[r].names
<1>1. req[r].job \in Job /\ names \in StageList
  BY DEF JobInv, JobHolds, JobPC, JobRequest, SetStagesRead, At
<1>2. PICK match \in [StageName -> Stage \cup {None}] :
          /\ \A n \in StageName :
                IF Named(existing, n) = {} THEN match[n] = None
                ELSE match[n] \in Named(existing, n)
          /\ Goto(r, [pc |-> "stagesInUse", job |-> req[r].job, names |-> names,
                      remove |-> Dropped(existing, names), match |-> match])
  BY DEF SetStagesRead
<1> DEFINE x == [pc |-> "stagesInUse", job |-> req[r].job, names |-> names,
                 remove |-> Dropped(existing, names), match |-> match]
<1>3. \A s \in existing : s \in Stage /\ IsRow(stages, s) /\ stages[s].job = req[r].job
  BY DEF StagesOf, StageExists, IsRow
<1>4. x \in JobRequest
  BY <1>1, <1>3 DEF JobRequest, Dropped
<1>5. Replacement(x, stages)
  <2>1. \A s \in x.remove : OfJob(stages, s, x.job)
    BY <1>3 DEF Dropped, OfJob, IsRow
  <2>2. ASSUME NEW n \in NamesIn(names), match[n] # None
        PROVE  /\ OfJob(stages, match[n], req[r].job)
               /\ IsRow(stages, match[n]) => stages[match[n]].name = n
               /\ match[n] \notin Dropped(existing, names)
    <3>1. n \in StageName
      BY <1>1, ListNames
    <3>2. match[n] \in existing /\ stages[match[n]].name = n
      BY <1>2, <2>2, <3>1 DEF Named
    <3> QED
      BY <1>3, <3>2 DEF OfJob, IsRow, Dropped
  <2> QED
    BY <2>1, <2>2 DEF Replacement
<1>6. JobHolds(x, stages)
  BY <1>4, <1>5 DEF JobHolds, SeenStage
<1> QED
  BY <1>2, <1>4, <1>6 DEF JobAfter

\* A request of this service carried on ends, or holds what its next await needs,
\* if that is read off the rows as they are before the step.
LEMMA ContinueJobHolds ==
    ASSUME JobInv, NEW r \in Request, ContinueJob(r)
    PROVE  /\ req[r].pc \in JobPC
           /\ \E x \in JobAfter : Goto(r, x) /\ JobHolds(x, stages)
<1> USE DEF JobAfter, JobPC, At
<1>0. Done \in JobAfter /\ JobHolds(Done, stages)
  BY DEF Done, JobHolds, SeenStage
<1>1. req[r].pc \in JobPC => req[r] \in JobRequest
  BY DEF JobInv, JobHolds
<1>2. CASE PublishCount(r)
  <2> DEFINE x == [pc |-> "publish", job |-> req[r].job]
  <2>1. x \in JobAfter
    BY <1>1, <1>2 DEF PublishCount, JobRequest
  <2>2. StagesOf(req[r].job) # {} => HasRow(stages, req[r].job)
    BY DEF StagesOf, StageExists, HasRow, IsRow
  <2>3. CASE StagesOf(req[r].job) # {}
    <3>1. JobHolds(x, stages)
      BY <2>1, <2>2, <2>3 DEF JobHolds, SeenStage, Done
    <3> QED
      BY <1>2, <2>1, <2>3, <3>1 DEF PublishCount
  <2>4. CASE StagesOf(req[r].job) = {}
    BY <1>0, <1>2, <2>4 DEF PublishCount
  <2> QED
    BY <1>2, <2>3, <2>4 DEF PublishCount
<1>3. CASE PublishUpdate(r) \/ CloseUpdate(r) \/ ArchiveUpdate(r) \/ SetStagesWrite(r)
  BY <1>0, <1>3 DEF PublishUpdate, CloseUpdate, ArchiveUpdate, SetStagesWrite, JobUpdate, Finish
<1>4. CASE ApplyTemplateRead(r)
  <2>1. ASSUME NEW names \in StageList
        PROVE  LET x == [pc |-> "stagesRead", job |-> req[r].job, names |-> names]
               IN  x \in JobAfter /\ JobHolds(x, stages)
    BY <1>1, <1>4 DEF ApplyTemplateRead, JobRequest, JobHolds, SeenStage
  <2> QED
    BY <1>0, <1>4, <2>1 DEF ApplyTemplateRead, Finish
<1>5. CASE SetStagesRead(r)
  BY <1>5, ReadHolds DEF SetStagesRead
<1>6. CASE SetStagesInUse(r)
  <2> DEFINE x == [req[r] EXCEPT !.pc = "stagesWrite"]
  <2>1. req[r] \in [pc: {"stagesInUse", "stagesWrite"}, job: Job, names: StageList,
                    remove: SUBSET Stage, match: [StageName -> Stage \cup {None}]]
    BY <1>1, <1>6 DEF SetStagesInUse, JobRequest
  <2>2. x = [pc |-> "stagesWrite", job |-> req[r].job, names |-> req[r].names,
             remove |-> req[r].remove, match |-> req[r].match]
    BY <2>1
  <2>3. x \in JobAfter
    BY <2>1, <2>2 DEF JobRequest
  <2>4. Replacement(req[r], stages)
    BY <1>6, ReplacementFields DEF SetStagesInUse
  <2>5. JobHolds(x, stages)
    BY <2>2, <2>3, <2>4 DEF JobHolds, Replacement, SeenStage, Done
  <2> QED
    BY <1>0, <1>6, <2>3, <2>5 DEF SetStagesInUse
<1> QED
  BY <1>2, <1>3, <1>4, <1>5, <1>6 DEF ContinueJob

-----------------------------------------------------------------------------
(* What a step of the service does to the tables. *)

\* What is seen of the rows stays true while rows and jobs are stable.
LEMMA JobHoldsStays ==
    ASSUME StagesStable, RowsStay, NEW x, JobHolds(x, stages)
    PROVE  JobHolds(x, stages')
<1>1. ASSUME x \in JobRequest, x.pc \in {"stagesInUse", "stagesWrite"}, Replacement(x, stages)
      PROVE  Replacement(x, stages')
  <2>1. /\ x.remove \subseteq Stage /\ NamesIn(x.names) \subseteq StageName
        /\ x.match \in [StageName -> Stage \cup {None}]
    BY <1>1, ListNames DEF JobRequest
  <2>2. ASSUME NEW s \in Stage, OfJob(stages, s, x.job)
        PROVE  OfJob(stages', s, x.job)
    BY <2>2 DEF StagesStable, OfJob, IsRow
  <2>3. \A s \in x.remove : OfJob(stages', s, x.job)
    BY <1>1, <2>1, <2>2 DEF Replacement
  <2>4. ASSUME NEW n \in NamesIn(x.names), x.match[n] # None
        PROVE  /\ OfJob(stages', x.match[n], x.job)
               /\ IsRow(stages', x.match[n]) => stages'[x.match[n]].name = n
               /\ x.match[n] \notin x.remove
    <3>1. x.match[n] \in Stage
      BY <2>1, <2>4
    <3>2. /\ OfJob(stages, x.match[n], x.job)
          /\ IsRow(stages, x.match[n]) => stages[x.match[n]].name = n
          /\ x.match[n] \notin x.remove
      BY <1>1, <2>4 DEF Replacement
    <3>3. OfJob(stages', x.match[n], x.job)
      BY <2>2, <3>1, <3>2
    <3> QED
      BY <3>1, <3>2, <3>3 DEF StagesStable, OfJob
  <2> QED
    BY <2>3, <2>4 DEF Replacement
<1>2. x.pc \in SeenStage => HasRow(stages', x.job)
  BY DEF JobHolds, RowsStay
<1> QED
  BY <1>1, <1>2 DEF JobHolds, JobPC

\* Rows that do not change are stable.
LEMMA UntouchedStages ==
    ASSUME UNCHANGED stages
    PROVE  StagesStable /\ RowsStay
  BY DEF StagesStable, RowsStay

\* A step of this service touches no application, leaves every stage that stays
\* with its job and name, and publishes or closes only jobs that have a stage.
LEMMA JobTables ==
    ASSUME TablesTypeOK, ServiceInv, JobInv, NEW r \in Request, BeginJob(r) \/ ContinueJob(r)
    PROVE  /\ TablesTypeOK' /\ StagesStable /\ RowsStay /\ StageOfOwnJob'
           /\ UNCHANGED <<applications, stageHistory, auditLog, notifications>>
           /\ \A j \in Job : jobs'[j] \in {"PUBLISHED", "CLOSED"} => HasRow(stages', j)
<1>1. CASE SetStagesWrite(r)
  <2>1. UNCHANGED <<jobs, applications, stageHistory, auditLog, notifications>>
    BY <1>1 DEF SetStagesWrite
  <2>2. stages' \in [Stage -> StageRow \cup {None, Deleted}]
    BY <1>1, WriteStable
  <2>3. StagesStable /\ RowsStay /\ StageOfOwnJob'
    BY <1>1, WriteStable
  <2> QED
    BY <2>1, <2>2, <2>3 DEF TablesTypeOK, JobInv, RowsStay
<1>2. ASSUME UNCHANGED <<stages, applications, stageHistory, auditLog, notifications>>,
             jobs' \in [Job -> JobStatus \cup {None}],
             \A j \in Job : jobs'[j] \in {"PUBLISHED", "CLOSED"} => HasRow(stages, j)
      PROVE  /\ TablesTypeOK' /\ StagesStable /\ RowsStay /\ StageOfOwnJob'
             /\ UNCHANGED <<applications, stageHistory, auditLog, notifications>>
             /\ \A j \in Job : jobs'[j] \in {"PUBLISHED", "CLOSED"} => HasRow(stages', j)
  <2>1. StageOfOwnJob'
    BY <1>2 DEF ServiceInv, StageOfOwnJob, StageExists, Applications
  <2> QED
    BY <1>2, <2>1, UntouchedStages DEF TablesTypeOK
<1>3. ASSUME UNCHANGED tables
      PROVE  /\ UNCHANGED <<stages, applications, stageHistory, auditLog, notifications>>
             /\ jobs' \in [Job -> JobStatus \cup {None}]
             /\ \A j \in Job : jobs'[j] \in {"PUBLISHED", "CLOSED"} => HasRow(stages, j)
  BY <1>3 DEF tables, TablesTypeOK, JobInv
<1>4. ASSUME NEW j \in Job, NEW status \in JobStatus, SetJob(j, status),
             status \in {"PUBLISHED", "CLOSED"} => HasRow(stages, j)
      PROVE  /\ jobs' \in [Job -> JobStatus \cup {None}]
             /\ \A k \in Job : jobs'[k] \in {"PUBLISHED", "CLOSED"} => HasRow(stages, k)
  BY <1>4 DEF SetJob, TablesTypeOK, JobInv
<1>5. CASE \E j \in Job : CreateJob(r, j)
  <2>1. PICK j \in Job : CreateJob(r, j)
    BY <1>5
  <2>2. "DRAFT" \in JobStatus
    BY DEF JobStatus
  <2> QED
    BY <1>2, <1>4, <2>1, <2>2 DEF CreateJob
<1>6. CASE PublishUpdate(r) \/ CloseUpdate(r) \/ ArchiveUpdate(r)
  <2>1. PICK status \in {"PUBLISHED", "CLOSED", "ARCHIVED"} :
            /\ JobUpdate(r, req[r].pc, status)
            /\ req[r].pc \in {"publish", "close", "archive"}
            /\ status # "ARCHIVED" => req[r].pc \in {"publish", "close"}
    BY <1>6 DEF PublishUpdate, CloseUpdate, ArchiveUpdate, JobUpdate, At
  <2>2. req[r] \in JobRequest /\ (status # "ARCHIVED" => HasRow(stages, req[r].job))
    BY <2>1 DEF JobInv, JobHolds, JobPC, SeenStage
  <2>3. req[r].job \in Job
    BY <2>2 DEF JobRequest
  <2> QED
    BY <1>2, <1>4, <2>1, <2>2, <2>3 DEF JobUpdate, JobStatus
<1>7. CASE \/ \E j \in Job : \/ PublishRead(r, j) \/ CloseRead(r, j) \/ ArchiveRead(r, j)
                             \/ \E names \in StageList : ReplaceStages(r, j, names)
                             \/ ApplyTemplate(r, j)
           \/ PublishCount(r) \/ ApplyTemplateRead(r) \/ SetStagesRead(r) \/ SetStagesInUse(r)
  <2>1. UNCHANGED tables
    BY <1>7 DEF PublishRead, CloseRead, ArchiveRead, ReplaceStages, ApplyTemplate, RequireJob,
                PublishCount, ApplyTemplateRead, SetStagesRead, SetStagesInUse
  <2> QED
    BY <1>2, <1>3, <2>1
<1> QED
  BY <1>1, <1>5, <1>6, <1>7 DEF BeginJob, ContinueJob

-----------------------------------------------------------------------------

\* The inductive invariant: well-formed rows, what the handlers of each service
\* rely on across their awaits, and what holds of an application and its logs.
IInv == HiringTypeOK /\ ServiceInv /\ JobInv /\ LedgerInv

-----------------------------------------------------------------------------
\* Every row and every request of the initial state is well-formed, and a job
\* that starts out published has a stage.
LEMMA InitIInv == Init => IInv
<1> SUFFICES ASSUME Init PROVE IInv
  OBVIOUS
<1>1. TablesTypeOK /\ ServiceInv /\ LedgerInv
  BY InitInv DEF Init
<1>2. HiringTypeOK
  BY <1>1 DEF Init, RequestsInit, HiringTypeOK
<1>3. \A r \in Request : JobHolds(req[r], stages)
  BY DEF Init, RequestsInit, Idle, JobHolds, JobPC, SeenStage
<1>4. ASSUME NEW j \in Job, jobs[j] \in {"PUBLISHED", "CLOSED"}
      PROVE  HasRow(stages, j)
  <2>1. PICK s \in Stage : SeedStages[s] # None /\ SeedStages[s].job = j
    BY <1>4, SeedAssumption DEF Init, TablesInit
  <2>2. SeedStages[s] \in StageRow
    BY <2>1, SeedAssumption
  <2> QED
    BY <2>1, <2>2, NoneAssumption DEF Init, TablesInit, HasRow, IsRow
<1> QED
  BY <1>1, <1>2, <1>3, <1>4 DEF IInv, JobInv

\* A request that goes on holds what its next await needs.
LEMMA StaysTyped ==
    ASSUME HiringTypeOK, TablesTypeOK', NEW r \in Request, NEW x \in After \cup JobAfter, Goto(r, x)
    PROVE  HiringTypeOK' /\ req'[r] = x /\ \A q \in Request \ {r} : req'[q] = req[q]
  BY DEF HiringTypeOK, Goto, After, JobAfter

\* create() goes on only for a PUBLISHED job, which has a stage, and remembers
\* the job from one await to the next.
LEMMA ApplicationSeesStage ==
    ASSUME HiringTypeOK, ServiceInv, JobInv, NEW r \in Request, NEW x \in After, Goto(r, x),
           BeginApplication(r) \/ ContinueApplication(r)
    PROVE  JobHolds(x, stages)
<1>1. req'[r] = x
  BY DEF HiringTypeOK, Goto
<1>2. x.pc \notin JobPC
  BY DEF After, Done, ApplicationRequest, JobPC
<1>3. SUFFICES ASSUME x.pc \in {"resolveCv", "firstStage"}
               PROVE  HasRow(stages, x.job)
  BY <1>2 DEF JobHolds, JobPC, SeenStage, After, Done, ApplicationRequest
<1>4. ASSUME NEW c \in Candidate, NEW j \in Job, CreateFindJob(r, c, j)
      PROVE  HasRow(stages, x.job)
  <2>1. jobs[j] = "PUBLISHED" => HasRow(stages, j)
    BY DEF JobInv
  <2> QED
    BY <1>1, <1>3, <1>4, <2>1 DEF CreateFindJob, Goto, Finish, Done, HiringTypeOK
<1>5. ASSUME NEW a \in Application, WithdrawRead(r, a) \/ ScreenReadReject(r, a)
                 \/ ScreenReadPass(r, a) \/ DecideRead(r, a)
      PROVE  FALSE
  BY <1>1, <1>3, <1>5 DEF WithdrawRead, ScreenReadReject, ScreenReadPass, DecideRead, ReadActive,
                          Goto, Done, HiringTypeOK
<1>6. CASE CreateResolveCv(r)
  <2>1. HasRow(stages, req[r].job)
    BY <1>6 DEF CreateResolveCv, At, JobInv, JobHolds, SeenStage
  <2> QED
    BY <1>1, <1>3, <1>6, <2>1 DEF CreateResolveCv, Goto, Finish, Done, HiringTypeOK
<1>7. ASSUME CreateInsert(r) \/ WithdrawUpdate(r) \/ ScreenMove(r) \/ DecideHire(r) \/ Notify(r)
      PROVE  FALSE
  <2>1. Goto(r, Done)
    BY <1>7 DEF CreateInsert, WithdrawUpdate, ScreenMove, DecideHire, Notify, Finish
  <2> QED
    BY <1>1, <1>3, <2>1 DEF Goto, Done, HiringTypeOK
<1>8. ASSUME CreateFindStage(r) \/ ScreenReject(r) \/ ScreenFindNext(r) \/ DecideReject(r)
      PROVE  FALSE
  <2>1. ASSUME NEW y, Goto(r, y), y.pc \in {"done", "insert", "notify", "move"}
        PROVE  FALSE
    BY <1>1, <1>3, <2>1 DEF Goto, HiringTypeOK
  <2>2. ~ Goto(r, Done)
    BY <2>1 DEF Done
  <2>3. CASE CreateFindStage(r)
    <3>1. PICK s : Goto(r, [pc |-> "insert", job |-> req[r].job,
                            candidate |-> req[r].candidate, stage |-> s])
      BY <2>2, <2>3 DEF CreateFindStage, Finish
    <3> QED
      BY <2>1, <3>1
  <2>4. CASE ScreenFindNext(r)
    <3>1. PICK s : Goto(r, [pc |-> "move", app |-> req[r].app, stage |-> req[r].stage, next |-> s])
      BY <2>2, <2>4 DEF ScreenFindNext, Finish
    <3> QED
      BY <2>1, <3>1
  <2>5. CASE ScreenReject(r) \/ DecideReject(r)
    BY <2>1, <2>5 DEF ScreenReject, DecideReject
  <2> QED
    BY <1>8, <2>3, <2>4, <2>5
<1> QED
  BY <1>4, <1>5, <1>6, <1>7, <1>8 
  DEF BeginApplication, ApplicationsController, JobApplicationsController, ContinueApplication

-----------------------------------------------------------------------------
\* A step of ApplicationsService is a step of the ledger at most, and keeps IInv.
LEMMA ApplicationStepIInv ==
    ASSUME IInv, NEW r \in Request, BeginApplication(r) \/ ContinueApplication(r)
    PROVE  IInv' /\ LedgerStep
<1> USE DEF IInv
<1>0. TablesTypeOK
  BY DEF HiringTypeOK
<1>1. PICK x \in After : Goto(r, x)
  BY <1>0, BeginGoto, ContinueHolds
<1>2. TablesTypeOK' /\ UNCHANGED <<jobs, stages>> /\ LedgerStep
  <2>1. CASE BeginApplication(r)
    <3>1. UNCHANGED tables
      BY <1>0, <2>1, BeginGoto
    <3> QED
      BY <1>0, <3>1 DEF tables, TablesTypeOK, LedgerStep
  <2>2. CASE ContinueApplication(r)
    BY <1>0, <2>2, ContinueTypes, ContinueLedger
  <2> QED
    BY <2>1, <2>2
<1>3. HiringTypeOK' /\ req'[r] = x /\ \A q \in Request \ {r} : req'[q] = req[q]
  BY <1>1, <1>2, StaysTyped
<1>4. ServiceInv' /\ LedgerInv'
  BY <1>0, <1>2, ServiceInvPreserved, LedgerInvPreserved
<1>5. JobHolds(x, stages)
  BY <1>1, ApplicationSeesStage
<1>6. JobInv'
  BY <1>2, <1>3, <1>5 DEF JobInv
<1> QED
  BY <1>2, <1>3, <1>4, <1>6

\* A step of JobsService changes no application, and keeps IInv.
LEMMA JobStepIInv ==
    ASSUME IInv, NEW r \in Request, BeginJob(r) \/ ContinueJob(r)
    PROVE  IInv' /\ LedgerStep
<1> USE DEF IInv
<1>0. TablesTypeOK
  BY DEF HiringTypeOK
<1>1. PICK x \in JobAfter : Goto(r, x) /\ JobHolds(x, stages)
  BY BeginJobHolds, ContinueJobHolds
<1>2. /\ TablesTypeOK' /\ StagesStable /\ RowsStay /\ StageOfOwnJob'
      /\ UNCHANGED <<applications, stageHistory, auditLog, notifications>>
      /\ \A j \in Job : jobs'[j] \in {"PUBLISHED", "CLOSED"} => HasRow(stages', j)
  BY <1>0, JobTables
<1>3. HiringTypeOK' /\ req'[r] = x /\ \A q \in Request \ {r} : req'[q] = req[q]
  BY <1>1, <1>2, StaysTyped
<1>4. LedgerStep
  BY <1>2 DEF LedgerStep
<1>5. LedgerInv'
  BY <1>0, <1>4, LedgerInvPreserved
<1>6. Stable
  BY <1>2 DEF Stable, StagesStable, IsRow, StageExists, Applications
<1>7. Holds(x, applications', stages')
  BY DEF Holds, JobAfter, Done, JobRequest, ApplicationPC, OnApplication
<1>8. ServiceInv'
  BY <1>1, <1>2, <1>6, <1>7, RequestsHold DEF ServiceInv
<1>9. JobInv'
  <2>1. \A q \in Request : JobHolds(req[q], stages')
    BY <1>2, JobHoldsStays DEF JobInv
  <2>2. JobHolds(x, stages')
    BY <1>1, <1>2, JobHoldsStays
  <2>3. \A q \in Request : JobHolds(req'[q], stages')
    BY <1>3, <2>1, <2>2
  <2> QED
    BY <1>2, <2>3 DEF JobInv
<1> QED
  BY <1>3, <1>4, <1>5, <1>8, <1>9

\* Every step keeps IInv, and is a step of the ledger at most.
LEMMA StepIInv == IInv /\ [HiringNext]_vars => IInv' /\ LedgerStep
<1> SUFFICES ASSUME IInv, [HiringNext]_vars
             PROVE  IInv' /\ LedgerStep
  OBVIOUS
<1>1. ASSUME UNCHANGED tables, UNCHANGED req \/ \E r \in Request : Finish(r) \/ Goto(r, Lost)
      PROVE  IInv' /\ LedgerStep
  <2>1. ServiceInv' /\ LedgerInv'
    BY <1>1, UntouchedInv DEF IInv
  <2>2. HiringTypeOK'
    BY <1>1 DEF IInv, HiringTypeOK, TablesTypeOK, tables, Finish, Goto
  <2>3. \A r \in Request : req'[r] = req[r] \/ req'[r] \in {Done, Lost}
    BY <1>1 DEF IInv, HiringTypeOK, Finish, Goto
  <2>4. JobHolds(Done, stages) /\ JobHolds(Lost, stages)
    BY DEF JobHolds, Done, Lost, JobPC, SeenStage
  <2>5. JobInv'
    BY <1>1, <2>3, <2>4 DEF IInv, JobInv, tables
  <2>6. LedgerStep
    BY <1>1 DEF tables, LedgerStep
  <2> QED
    BY <2>1, <2>2, <2>5, <2>6 DEF IInv
<1> QED
  BY <1>1, ApplicationStepIInv, JobStepIInv DEF HiringNext, Editing, Next, vars, Fail, Fails, Quiescent

-----------------------------------------------------------------------------
\* The inductive invariant holds in every reachable state.
THEOREM IInvHolds == HiringSpec => []IInv
  BY InitIInv, StepIInv, PTL DEF HiringSpec

\* With nobody who edits jobs, the service does nothing it would not do with them: what
\* the theorems below say of HiringSpec holds of the specification of Applications, too.
THEOREM WithoutEdits == Spec => HiringSpec
<1>1. [Next]_vars => [HiringNext]_vars
  BY DEF HiringNext
<1> QED
  BY <1>1, PTL DEF Spec, HiringSpec

\* Tables and requests are well-formed in every reachable state.
THEOREM TypesCorrect == HiringSpec => []HiringTypeOK
<1>1. IInv => HiringTypeOK
  BY DEF IInv
<1> QED
  BY <1>1, IInvHolds, PTL

\* Without edits, no request ever holds what only the handlers of JobsService hold.
THEOREM ApplicationsTypesCorrect == Spec => []TypeOK
<1>1. Init => TypeOK
  BY InitIInv DEF Init, RequestsInit, TypeOK, IInv, HiringTypeOK
<1>2. ASSUME IInv, TypeOK, [Next]_vars
      PROVE  TypeOK'
  <2>1. TablesTypeOK'
    BY <1>2, StepIInv DEF HiringNext, IInv, HiringTypeOK
  <2>2. ASSUME NEW r \in Request, BeginApplication(r) \/ ContinueApplication(r)
        PROVE  \E x \in After : Goto(r, x)
    BY <1>2, <2>2, BeginGoto, ContinueHolds DEF IInv, TypeOK
  <2>3. \/ UNCHANGED req
        \/ \E r \in Request, x \in After \cup {Lost} : Goto(r, x)
    BY <1>2, <2>2 DEF Next, vars, Fail, Fails, Quiescent
  <2> QED
    BY <1>2, <2>1, <2>3 DEF TypeOK, Goto, After
<1> QED
  BY <1>1, <1>2, WithoutEdits, IInvHolds, PTL DEF Spec

\* For any number of candidates, jobs and concurrent requests, and any failures,
\* no candidate has two ACTIVE applications for one job.
THEOREM ActiveIsUnique == HiringSpec => []OneActiveApplication
<1>1. IInv => OneActiveApplication
  BY DEF IInv, LedgerInv
<1> QED
  BY <1>1, IInvHolds, PTL

\* However many decisions overtake each other, the latest audit row of an
\* application is the decision it stands at.
THEOREM DecisionsAreAudited == HiringSpec => []DecisionsRecorded
<1>1. IInv => DecisionsRecorded
  BY DEF IInv, LedgerInv
<1> QED
  BY <1>1, IInvHolds, PTL

\* Whatever templates and lists are applied concurrently, and whatever fails in
\* between, a job that is published or closed has a stage.
THEOREM PublishedJobsHaveStages == HiringSpec => []PublishedHasStage
<1>1. IInv => PublishedHasStage
  BY DEF IInv, JobInv, PublishedHasStage, HasRow, IsRow, StagesOf, StageExists
<1> QED
  BY <1>1, IInvHolds, PTL

\* The lookup of the first stage in create() never fails, however the stages of
\* the job were edited since create() read that it is published.
THEOREM FirstStageIsFound == HiringSpec => []CreateFindsStage
<1>1. ASSUME IInv, NEW r \in Request, At(r, "firstStage")
      PROVE  FirstStages(req[r].job) # {}
  <2> DEFINE j == req[r].job
             T == {stages[s].order : s \in StagesOf(j)}
             R == OpToRel(<, Nat)
  <2>1. HasRow(stages, j)
    BY <1>1 DEF IInv, JobInv, JobHolds, SeenStage, At
  <2>2. \A s \in StagesOf(j) : stages[s].order \in Nat
    BY <1>1 DEF IInv, HiringTypeOK, TablesTypeOK, StagesOf, StageExists, StageRow
  <2>3. IsWellFoundedOn(R, Nat)
    BY NatLessThanWellFounded
  <2>4. \A x, y \in Nat : y < x => <<y, x>> \in R
    BY DEF OpToRel
  <2> HIDE DEF R
  <2>5. T \subseteq Nat /\ T # {}
    BY <2>1, <2>2 DEF HasRow, IsRow, StagesOf, StageExists
  <2>6. PICK x \in T : \A y \in T : ~ (<<y, x>> \in R)
    BY <2>3, <2>5, WFMin
  <2>7. PICK s \in StagesOf(j) : stages[s].order = x
    BY <2>6
  <2>8. \A t \in StagesOf(j) : stages[s].order <= stages[t].order
    <3> SUFFICES ASSUME NEW t \in StagesOf(j)
                 PROVE  stages[s].order <= stages[t].order
      OBVIOUS
    <3>1. stages[t].order \in T
      OBVIOUS
    <3>2. ~ (stages[t].order < stages[s].order)
      BY <2>2, <2>4, <2>6, <2>7, <3>1
    <3> QED
      BY <2>2, <3>2
  <2> QED
    BY <2>7, <2>8 DEF FirstStages
<1>2. IInv => CreateFindsStage
  BY <1>1 DEF CreateFindsStage
<1> QED
  BY <1>2, IInvHolds, PTL

\* However stages are dropped and applications moved, an application is in an
\* existing stage of its own job.
THEOREM ApplicationsStayInTheirJob == HiringSpec => []StageOfOwnJob
<1>1. IInv => StageOfOwnJob
  BY DEF IInv, ServiceInv
<1> QED
  BY <1>1, IInvHolds, PTL

\* Editing the stages meanwhile does not part an application from its history.
THEOREM HistoryExplainsStage == HiringSpec => []StageIsLastMove
<1>1. IInv => StageIsLastMove
  BY DEF IInv, LedgerInv
<1> QED
  BY <1>1, IInvHolds, PTL

\* With job edits interleaved, the service still implements the ledger.
THEOREM LedgerRefinement == HiringSpec => ImplementsLedger
<1>1. Init => Ledger!Init
  BY InitInv DEF Init
<1>2. LedgerStep => [\E a \in Application : Ledger!Step(a)]_(Ledger!ledger)
  BY DEF LedgerStep, Ledger!ledger
<1>3. IInv /\ [HiringNext]_vars => [\E a \in Application : Ledger!Step(a)]_(Ledger!ledger)
  BY <1>2, StepIInv
<1> QED
  BY <1>1, <1>3, IInvHolds, PTL DEF HiringSpec, ImplementsLedger, Ledger!Spec

-----------------------------------------------------------------------------
(* Rejections, and who is told of them. *)

\* What a step may do for an application: tell nobody and end nobody's duty to; commit
\* a rejection that one more request has to tell of; tell of it, by a request that had to.
Tells(a) ==
    \/ /\ notifications'[a] = notifications[a]
       /\ Rejections(a) \subseteq Rejections(a)'
       /\ Notifying(a)' \subseteq Notifying(a)
    \/ /\ notifications'[a] = notifications[a]
       /\ \E i \in Nat \ Rejections(a) : Rejections(a) \cup {i} \subseteq Rejections(a)'
       /\ \E r \in Request : Notifying(a)' \subseteq Notifying(a) \cup {r}
    \/ /\ notifications'[a] = notifications[a] + 1
       /\ Rejections(a)' = Rejections(a)
       /\ \E r \in Notifying(a) : Notifying(a)' \subseteq Notifying(a) \ {r}

\* What is appended to an audit log leaves its rejections, and may be the next one.
LEMMA RejectionsGrow ==
    ASSUME TablesTypeOK, NEW a \in Applications, NEW action \in AuditAction,
           auditLog' = [auditLog EXCEPT ![a] = Append(@, action)]
    PROVE  /\ \A b \in Application : Rejections(b) \subseteq Rejections(b)'
           /\ action = "rejected" => \E i \in Nat \ Rejections(a) :
                                       Rejections(a) \cup {i} \subseteq Rejections(a)'
<1> DEFINE log == auditLog[a]
           n == Len(log) + 1
<1>1. a \in Application /\ log \in Seq(AuditAction)
  BY DEF TablesTypeOK, Applications
<1>2. /\ auditLog'[a] = Append(log, action)
      /\ \A b \in Application \ {a} : auditLog'[b] = auditLog[b]
  BY <1>1 DEF TablesTypeOK
<1>3. /\ n \in Nat /\ n \notin DOMAIN log
      /\ DOMAIN log \cup {n} \subseteq DOMAIN Append(log, action)
      /\ Append(log, action)[n] = action
      /\ \A i \in DOMAIN log : Append(log, action)[i] = log[i]
  BY <1>1
<1> HIDE DEF n
<1> QED
  BY <1>1, <1>2, <1>3 DEF Rejections

\* A request that goes on to another statement than notify() has nothing to tell.
LEMMA NotifyingLess ==
    ASSUME RequestsTyped, NEW r \in Request, NEW x, Goto(r, x), x.pc # "notify",
           NEW a \in Application
    PROVE  Notifying(a)' \subseteq Notifying(a) \ {r}
<1>1. req'[r] = x /\ \A q \in Request \ {r} : req'[q] = req[q]
  BY DEF RequestsTyped, Goto
<1> QED
  BY <1>1 DEF Notifying

\* A step that changes neither log nor notifications, and does not go on to notify().
LEMMA TellsNobody ==
    ASSUME RequestsTyped, NEW r \in Request, NEW x, Goto(r, x), x.pc # "notify",
           UNCHANGED <<auditLog, notifications>>, NEW a \in Application
    PROVE  Tells(a)
  BY NotifyingLess DEF Tells, Rejections

\* The statements that come before the decision.
LEMMA ReadsTell ==
    ASSUME IInv, NEW a \in Application, NEW r \in Request,
           \/ BeginApplication(r) \/ Fail(r)
           \/ CreateResolveCv(r) \/ CreateFindStage(r) \/ CreateInsert(r)
           \/ WithdrawUpdate(r) \/ ScreenFindNext(r) \/ ScreenMove(r)
    PROVE  Tells(a)
<1>0. RequestsTyped
  BY DEF IInv, ServiceInv
<1>1. Done.pc # "notify" /\ Lost.pc # "notify"
  BY DEF Done, Lost
<1>2. ASSUME Finish(r), UNCHANGED <<auditLog, notifications>>
      PROVE  Tells(a)
  BY <1>0, <1>1, <1>2, TellsNobody DEF Finish
<1>3. ASSUME NEW x, Goto(r, x), x.pc # "notify", UNCHANGED tables
      PROVE  Tells(a)
  BY <1>0, <1>3, TellsNobody DEF tables
<1>4. ASSUME NEW b \in Application, NEW x, ReadActive(r, b, x), x.pc # "notify"
      PROVE  Tells(a)
  BY <1>1, <1>3, <1>4 DEF ReadActive
<1>5. ASSUME NEW c \in Candidate, NEW j \in Job, CreateFindJob(r, c, j)
      PROVE  Tells(a)
  BY <1>1, <1>3, <1>5 DEF CreateFindJob, Finish
<1>6. ASSUME NEW b \in Application,
             WithdrawRead(r, b) \/ ScreenReadReject(r, b) \/ ScreenReadPass(r, b)
      PROVE  Tells(a)
  BY <1>4, <1>6 DEF WithdrawRead, ScreenReadReject, ScreenReadPass
<1>7. ASSUME NEW b \in Application, DecideRead(r, b)
      PROVE  Tells(a)
  BY <1>4, <1>7 DEF DecideRead
<1>8. CASE Fail(r)
  BY <1>1, <1>3, <1>8 DEF Fail, Fails
<1>9. CASE CreateResolveCv(r)
  BY <1>1, <1>3, <1>9 DEF CreateResolveCv, Finish
<1>10. CASE CreateFindStage(r)
  BY <1>1, <1>3, <1>10 DEF CreateFindStage, Finish
<1>11. CASE CreateInsert(r)
  <2>1. Finish(r) /\ UNCHANGED <<auditLog, notifications>>
    BY <1>11 DEF CreateInsert
  <2> QED
    BY <1>2, <2>1
<1>12. CASE WithdrawUpdate(r)
  BY <1>2, <1>12 DEF WithdrawUpdate
<1>13. CASE ScreenFindNext(r)
  <2>1. \/ Finish(r)
        \/ \E s \in NextStages(r) :
             Goto(r, [pc |-> "move", app |-> req[r].app, stage |-> req[r].stage, next |-> s])
    BY <1>13 DEF ScreenFindNext
  <2>2. UNCHANGED tables
    BY <1>13 DEF ScreenFindNext
  <2> QED
    BY <1>1, <1>3, <2>1, <2>2 DEF Finish
<1>14. CASE ScreenMove(r)
  <2>1. Finish(r) /\ UNCHANGED <<auditLog, notifications>>
    BY <1>14 DEF ScreenMove
  <2> QED
    BY <1>2, <2>1
<1> QED
  BY <1>5, <1>6, <1>7, <1>8, <1>9, <1>10, <1>11, <1>12, <1>13, <1>14
  DEF BeginApplication, ApplicationsController, JobApplicationsController

\* A decision, and the notification of one.
LEMMA DecisionsTell ==
    ASSUME IInv, NEW a \in Application, NEW r \in Request,
           DecideHire(r) \/ ScreenReject(r) \/ DecideReject(r) \/ Notify(r)
    PROVE  Tells(a)
<1>0. RequestsTyped /\ TablesTypeOK
  BY DEF IInv, ServiceInv, HiringTypeOK
<1>1. PICK b \in Applications : b = req[r].app
  BY AppExists DEF IInv, DecideHire, ScreenReject, DecideReject, Notify, At, OnApplication, HiringTypeOK
<1>2. CASE DecideHire(r)
  <2>1. /\ auditLog' = [auditLog EXCEPT ![b] = Append(@, "hired")]
        /\ UNCHANGED notifications /\ Goto(r, Done)
    BY <1>1, <1>2 DEF DecideHire, Decision, Finish
  <2>2. Notifying(a)' \subseteq Notifying(a)
    BY <1>0, <2>1, NotifyingLess DEF Done
  <2>3. Rejections(a) \subseteq Rejections(a)'
    BY <1>0, <2>1, RejectionsGrow DEF AuditAction
  <2> QED
    BY <2>1, <2>2, <2>3 DEF Tells
<1>3. CASE ScreenReject(r) \/ DecideReject(r)
  <2> DEFINE x == [pc |-> "notify", app |-> b]
  <2>1. /\ auditLog' = [auditLog EXCEPT ![b] = Append(@, "rejected")]
        /\ UNCHANGED notifications /\ Goto(r, x)
    BY <1>1, <1>3 DEF ScreenReject, DecideReject, Decision
  <2>2. req'[r] = x /\ \A q \in Request \ {r} : req'[q] = req[q]
    BY <1>0, <2>1 DEF RequestsTyped, Goto
  <2>3. Notifying(a)' \subseteq Notifying(a) \cup {r}
    BY <2>2 DEF Notifying
  <2>4. a # b => Notifying(a)' \subseteq Notifying(a)
    <3>1. x.app = b
      OBVIOUS
    <3>2. ASSUME a # b PROVE r \notin Notifying(a)'
      <4>1. [pc |-> "notify", app |-> a].app = a
        OBVIOUS
      <4> QED
        BY <2>2, <3>1, <3>2, <4>1 DEF Notifying
    <3> QED
      BY <2>3, <3>2
  <2>5. /\ Rejections(a) \subseteq Rejections(a)'
        /\ a = b => \E i \in Nat \ Rejections(a) : Rejections(a) \cup {i} \subseteq Rejections(a)'
    BY <1>0, <2>1, RejectionsGrow DEF AuditAction
  <2> QED
    BY <2>1, <2>3, <2>4, <2>5 DEF Tells
<1>4. CASE Notify(r)
  <2>1. req[r] = [pc |-> "notify", app |-> b]
    BY <1>0, <1>1, <1>4 DEF Notify, At, RequestsTyped, ApplicationPC, ApplicationRequest
  <2>2. /\ notifications' = [notifications EXCEPT ![b] = @ + 1]
        /\ Goto(r, Done) /\ UNCHANGED auditLog
    BY <1>1, <1>4 DEF Notify, Finish
  <2>3. Notifying(a)' \subseteq Notifying(a) \ {r}
    BY <1>0, <2>2, NotifyingLess DEF Done
  <2>4. Rejections(a)' = Rejections(a)
    BY <2>2 DEF Rejections
  <2>5. CASE a = b
    <3>1. r \in Notifying(a) /\ notifications'[a] = notifications[a] + 1
      BY <1>0, <2>1, <2>2, <2>5 DEF Notifying, TablesTypeOK
    <3> QED
      BY <2>3, <2>4, <3>1 DEF Tells
  <2>6. CASE a # b
    <3>1. notifications'[a] = notifications[a]
      BY <1>0, <2>2, <2>6 DEF TablesTypeOK
    <3> QED
      BY <2>3, <2>4, <3>1 DEF Tells
  <2> QED
    BY <2>5, <2>6
<1> QED
  BY <1>2, <1>3, <1>4

\* The edits of a recruiter.
LEMMA JobsTell ==
    ASSUME IInv, NEW a \in Application, NEW r \in Request, BeginJob(r) \/ ContinueJob(r)
    PROVE  Tells(a)
<1>1. PICK x \in JobAfter : Goto(r, x)
  BY BeginJobHolds, ContinueJobHolds DEF IInv
<1>2. x.pc # "notify"
  BY DEF JobAfter, Done, JobRequest
<1>3. UNCHANGED <<auditLog, notifications>>
  BY JobTables DEF IInv, HiringTypeOK
<1> QED
  BY <1>1, <1>2, <1>3, TellsNobody DEF IInv, ServiceInv

\* For any finite number of requests: a candidate is told of no more rejections than
\* were committed, whoever rejects at the same time and whoever is cut off.
THEOREM RejectionsComeFirst ==
    ASSUME IsFiniteSet(Request)
    PROVE  HiringSpec => []NotificationsFollowRejections
<1>1. Init => NotificationsFollowRejections
  <2> SUFFICES ASSUME Init, NEW a \in Application
               PROVE  notifications[a] + Cardinality(Notifying(a)) <= Cardinality(Rejections(a))
    BY DEF NotificationsFollowRejections
  <2>1. notifications[a] = 0 /\ auditLog[a] = <<>>
    BY DEF Init, TablesInit
  <2>2. Notifying(a) = {}
    <3>1. Idle.pc # [pc |-> "notify", app |-> a].pc
      BY DEF Idle
    <3> QED
      BY <3>1 DEF Init, RequestsInit, Notifying
  <2>3. Rejections(a) = {}
    BY <2>1 DEF Rejections
  <2> QED
    BY <2>1, <2>2, <2>3, FS_EmptySet
<1>2. ASSUME IInv, NotificationsFollowRejections, [HiringNext]_vars
      PROVE  NotificationsFollowRejections'
  <2> SUFFICES ASSUME NEW a \in Application
               PROVE  notifications'[a] + Cardinality(Notifying(a)') <= Cardinality(Rejections(a)')
    BY DEF NotificationsFollowRejections
  <2> DEFINE told == Notifying(a)
             tell == Notifying(a)'
             was == Rejections(a)
             is == Rejections(a)'
  <2>1. Tells(a)
    <3>1. CASE UNCHANGED vars
      BY <3>1 DEF vars, tables, Tells, Rejections, Notifying
    <3> QED
      BY <1>2, <3>1, ReadsTell, DecisionsTell, JobsTell
      DEF HiringNext, Editing, Next, ContinueApplication, Quiescent
  <2>2. IsFiniteSet(told) /\ IsFiniteSet(tell)
    BY FS_Subset DEF Notifying
  <2>3. IsFiniteSet(was) /\ IsFiniteSet(is)
    <3>1. ASSUME NEW log \in Seq(AuditAction)
          PROVE  IsFiniteSet({i \in DOMAIN log : log[i] = "rejected"})
      <4>1. DOMAIN log = 1..Len(log) /\ Len(log) \in Int
        OBVIOUS
      <4> QED
        BY <4>1, FS_Interval, FS_Subset
    <3>2. auditLog \in [Application -> Seq(AuditAction)] /\ HiringTypeOK'
      BY <1>2, StepIInv DEF IInv, HiringTypeOK, TablesTypeOK
    <3>3. auditLog'[a] \in Seq(AuditAction)
      BY <3>2 DEF HiringTypeOK, TablesTypeOK
    <3> QED
      BY <3>1, <3>2, <3>3 DEF Rejections
  <2>4. /\ Cardinality(told) \in Nat /\ Cardinality(tell) \in Nat
        /\ Cardinality(was) \in Nat /\ Cardinality(is) \in Nat
    BY <2>2, <2>3, FS_CardinalityType
  <2>5. /\ notifications[a] \in Nat
        /\ notifications[a] + Cardinality(told) <= Cardinality(was)
    BY <1>2 DEF IInv, HiringTypeOK, TablesTypeOK, NotificationsFollowRejections
  <2>6. \/ notifications'[a] = notifications[a] /\ was \subseteq is /\ tell \subseteq told
        \/ /\ notifications'[a] = notifications[a]
           /\ \E i \in Nat \ was : was \cup {i} \subseteq is
           /\ \E r \in Request : tell \subseteq told \cup {r}
        \/ /\ notifications'[a] = notifications[a] + 1 /\ is = was
           /\ \E r \in told : tell \subseteq told \ {r}
    BY <2>1 DEF Tells
  <2> HIDE DEF told, tell, was, is
  <2>7. CASE notifications'[a] = notifications[a] /\ was \subseteq is /\ tell \subseteq told
    <3>1. Cardinality(was) <= Cardinality(is) /\ Cardinality(tell) <= Cardinality(told)
      BY <2>2, <2>3, <2>7, FS_Subset
    <3>2. notifications'[a] + Cardinality(tell) <= Cardinality(is)
      BY <2>4, <2>5, <2>7, <3>1
    <3> QED
      BY <3>2 DEF tell, is
  <2>8. ASSUME notifications'[a] = notifications[a],
               NEW i \in Nat \ was, was \cup {i} \subseteq is,
               NEW r \in Request, tell \subseteq told \cup {r}
        PROVE  notifications'[a] + Cardinality(Notifying(a)') <= Cardinality(Rejections(a)')
    <3>1. /\ IsFiniteSet(told \cup {r})
          /\ Cardinality(told \cup {r}) = IF r \in told THEN Cardinality(told)
                                          ELSE Cardinality(told) + 1
      BY <2>2, FS_AddElement
    <3>2. Cardinality(was \cup {i}) = Cardinality(was) + 1
      BY <2>3, <2>8, FS_AddElement
    <3>3. Cardinality(was \cup {i}) <= Cardinality(is)
      BY <2>3, <2>8, FS_Subset
    <3>4. Cardinality(tell) <= Cardinality(told \cup {r})
      BY <2>8, <3>1, FS_Subset
    <3>5. notifications'[a] + Cardinality(tell) <= Cardinality(is)
      BY <2>4, <2>5, <2>8, <3>1, <3>2, <3>3, <3>4
    <3> QED
      BY <3>5 DEF tell, is
  <2>9. ASSUME notifications'[a] = notifications[a] + 1, is = was,
               NEW r \in told, tell \subseteq told \ {r}
        PROVE  notifications'[a] + Cardinality(Notifying(a)') <= Cardinality(Rejections(a)')
    <3>1. IsFiniteSet(told \ {r}) /\ Cardinality(told \ {r}) = Cardinality(told) - 1
      BY <2>2, <2>9, FS_RemoveElement
    <3>2. Cardinality(tell) <= Cardinality(told \ {r})
      BY <2>9, <3>1, FS_Subset
    <3>3. notifications'[a] + Cardinality(tell) <= Cardinality(is)
      BY <2>4, <2>5, <2>9, <3>1, <3>2
    <3> QED
      BY <3>3 DEF tell, is
  <2> QED
    BY <2>6, <2>7, <2>8, <2>9
<1> QED
  BY <1>1, <1>2, IInvHolds, PTL DEF HiringSpec

-----------------------------------------------------------------------------
(* Who may still write an application: handlers that have read it as ACTIVE. *)

\* The handler that holds x has read a as ACTIVE and has not written it yet.
WritesOn(x, a) ==
    /\ x.pc \in {"withdraw", "screenReject", "nextStage", "move", "hire", "reject"}
    /\ x.app = a

\* A step adds its request to the writers of a only if it was one of them, and takes it
\* from them when it moves on to a statement that does not lead to a write of a.
LEMMA WriterMoves ==
    ASSUME req = [q \in Request |-> req[q]], NEW r \in Request, NEW x, Goto(r, x), NEW a,
           WritesOn(x, a) => WritesOn(req[r], a)
    PROVE  /\ Writers(a)' \subseteq Writers(a)
           /\ WritesOn(req[r], a) /\ ~ WritesOn(x, a) => Writers(a)' # Writers(a)
<1>1. req'[r] = x /\ \A q \in Request \ {r} : req'[q] = req[q]
  BY DEF Goto
<1>2. \A q : q \in Writers(a) <=> q \in Request /\ WritesOn(req[q], a)
  BY DEF Writers, WritesOn
<1>3. \A q : q \in Writers(a)' <=> q \in Request /\ WritesOn(req'[q], a)
  BY DEF Writers, WritesOn
<1> QED
  BY <1>1, <1>2, <1>3

\* What a step may do to an application that is not ACTIVE.
Settles(a) ==
    /\ applications'[a] # None /\ applications'[a].status # "ACTIVE"
    /\ Writers(a)' \subseteq Writers(a)
    /\ applications'[a] # applications[a] => Writers(a)' # Writers(a)

\* A step that leaves the applications alone, and makes a writer of nobody.
LEMMA LeavesSettled ==
    ASSUME req = [q \in Request |-> req[q]], NEW r \in Request, NEW x, Goto(r, x),
           UNCHANGED applications, NEW a \in Applications, applications[a].status # "ACTIVE",
           WritesOn(x, a) => WritesOn(req[r], a)
    PROVE  Settles(a)
  BY WriterMoves DEF Settles, Applications

\* A handler begins: it is on its way to write an application that it has read as ACTIVE.
LEMMA BeginSettles ==
    ASSUME req = [q \in Request |-> req[q]], NEW r \in Request, BeginApplication(r),
           NEW a \in Applications, applications[a].status # "ACTIVE"
    PROVE  Settles(a)
<1>1. ASSUME NEW b \in Application, NEW x, ReadActive(r, b, x), x.app = b
      PROVE  Settles(a)
  <2>1. UNCHANGED applications /\ Goto(r, IF applications[b].status = "ACTIVE" THEN x ELSE Done)
    BY <1>1 DEF ReadActive, tables
  <2>2. CASE applications[b].status = "ACTIVE"
    BY <1>1, <2>1, <2>2, LeavesSettled DEF WritesOn
  <2>3. CASE applications[b].status # "ACTIVE"
    BY <2>1, <2>3, LeavesSettled DEF WritesOn, Done
  <2> QED
    BY <2>2, <2>3
<1>2. ASSUME NEW c \in Candidate, NEW j \in Job, CreateFindJob(r, c, j)
      PROVE  Settles(a)
  <2>1. PICK x \in {Done, [pc |-> "resolveCv", job |-> j, candidate |-> c]} : Goto(r, x)
    BY <1>2 DEF CreateFindJob, Finish
  <2>2. ~ WritesOn(x, a) /\ UNCHANGED applications
    BY <1>2 DEF CreateFindJob, tables, WritesOn, Done
  <2> QED
    BY <2>1, <2>2, LeavesSettled
<1>3. ASSUME NEW b \in Application, WithdrawRead(r, b) PROVE Settles(a)
  BY <1>1, <1>3 DEF WithdrawRead
<1>4. ASSUME NEW b \in Application, ScreenReadReject(r, b) PROVE Settles(a)
  BY <1>1, <1>4 DEF ScreenReadReject
<1>5. ASSUME NEW b \in Application, ScreenReadPass(r, b) PROVE Settles(a)
  BY <1>1, <1>5 DEF ScreenReadPass
<1>6. ASSUME NEW b \in Application, DecideRead(r, b) PROVE Settles(a)
  BY <1>1, <1>6 DEF DecideRead
<1> QED
  BY <1>2, <1>3, <1>4, <1>5, <1>6
  DEF BeginApplication, ApplicationsController, JobApplicationsController

\* A handler writes the application it has read, to a status that is not ACTIVE or to
\* another stage, and is through with it.
LEMMA ContinueSettles ==
    ASSUME TablesTypeOK, ServiceInv, NEW r \in Request, ContinueApplication(r),
           NEW a \in Applications, applications[a].status # "ACTIVE"
    PROVE  Settles(a)
<1> DEFINE b == req[r].app
<1>1. req = [q \in Request |-> req[q]]
  BY DEF ServiceInv, RequestsTyped
<1>2. ASSUME NEW x \in {Done, [pc |-> "notify", app |-> b]}, Goto(r, x)
      PROVE  ~ WritesOn(x, a)
  BY DEF WritesOn, Done
<1>3. CASE CreateResolveCv(r) \/ CreateFindStage(r) \/ Notify(r)
  <2>1. UNCHANGED applications
    BY <1>3 DEF CreateResolveCv, CreateFindStage, Notify, tables
  <2>2. PICK x : Goto(r, x) /\ x.pc \in {"done", "firstStage", "insert"}
    <3>1. CASE Finish(r)
      BY <3>1 DEF Finish, Done
    <3>2. CASE CreateResolveCv(r) /\ ~ Finish(r)
      BY <3>2 DEF CreateResolveCv
    <3>3. CASE CreateFindStage(r) /\ ~ Finish(r)
      <4>1. PICK s : Goto(r, [pc |-> "insert", job |-> req[r].job,
                              candidate |-> req[r].candidate, stage |-> s])
        BY <3>3 DEF CreateFindStage
      <4> QED
        BY <4>1
    <3> QED
      BY <1>3, <3>1, <3>2, <3>3 DEF Notify
  <2> QED
    BY <1>1, <2>1, <2>2, LeavesSettled DEF WritesOn
<1>4. CASE ScreenFindNext(r)
  <2>1. UNCHANGED applications /\ req[r].pc = "nextStage"
    BY <1>4 DEF ScreenFindNext, tables, At
  <2>2. PICK x : Goto(r, x) /\ (x = Done \/ x.app = b)
    <3>1. CASE Finish(r)
      BY <3>1 DEF Finish
    <3>2. CASE ~ Finish(r)
      <4>1. PICK s : Goto(r, [pc |-> "move", app |-> b, stage |-> req[r].stage, next |-> s])
        BY <1>4, <3>2 DEF ScreenFindNext
      <4> QED
        BY <4>1
    <3> QED
      BY <3>1, <3>2
  <2>3. WritesOn(x, a) => WritesOn(req[r], a)
    BY <2>1, <2>2 DEF WritesOn, Done
  <2> QED
    BY <1>1, <2>1, <2>2, <2>3, LeavesSettled
<1>5. CASE CreateInsert(r)
  <2>1. Goto(r, Done) /\ ~ WritesOn(Done, a)
    BY <1>5 DEF CreateInsert, Finish, WritesOn, Done
  <2>2. applications'[a] = applications[a]
    BY <1>5 DEF CreateInsert, TablesTypeOK, Applications
  <2> QED
    BY <1>1, <2>1, <2>2, WriterMoves DEF Settles, Applications
<1>6. ASSUME b \in Applications, WritesOn(req[r], b), NEW x, Goto(r, x),
             ~ WritesOn(x, a),
             \A c \in Application \ {b} : applications'[c] = applications[c],
             Applications' = Applications,
             applications'[b].status = applications[b].status
                 \/ applications'[b].status \in {"WITHDRAWN", "REJECTED", "HIRED"}
      PROVE  Settles(a)
  <2>1. Writers(a)' \subseteq Writers(a)
    BY <1>1, <1>6, WriterMoves
  <2>2. a = b => Writers(a)' # Writers(a)
    BY <1>1, <1>6, WriterMoves
  <2> QED
    BY <1>6, <2>1, <2>2 DEF Settles, Applications
<1>7. CASE WithdrawUpdate(r) \/ ScreenReject(r) \/ DecideHire(r) \/ DecideReject(r)
  <2>1. PICK status \in {"WITHDRAWN", "REJECTED", "HIRED"} : SetStatus(b, status)
    BY <1>7 DEF WithdrawUpdate, ScreenReject, DecideHire, DecideReject, Decision
  <2>2. req[r].pc \in {"withdraw", "screenReject", "hire", "reject"}
    BY <1>7 DEF WithdrawUpdate, ScreenReject, DecideHire, DecideReject, At
  <2>3. b \in Applications /\ WritesOn(req[r], b) /\ status \in ApplicationStatus
    BY <2>2, AppExists DEF OnApplication, WritesOn, ApplicationStatus
  <2>4. PICK x \in {Done, [pc |-> "notify", app |-> b]} : Goto(r, x)
    BY <1>7 DEF WithdrawUpdate, ScreenReject, DecideHire, DecideReject, Finish
  <2> QED
    BY <1>2, <1>6, <2>1, <2>3, <2>4, SetStatusRow
<1>8. CASE ScreenMove(r)
  <2>1. Goto(r, Done) /\ ~ WritesOn(Done, a) /\ req[r].pc = "move"
    BY <1>8 DEF ScreenMove, Finish, At, WritesOn, Done
  <2>2. CASE UNCHANGED applications
    BY <1>1, <2>1, <2>2, LeavesSettled
  <2>3. CASE applications' = [applications EXCEPT ![b].stage = req[r].next]
    <3>1. b \in Applications /\ WritesOn(req[r], b)
      BY <2>1, AppExists DEF OnApplication, WritesOn
    <3>2. req[r].next \in Stage
      BY <2>1, RequestFields DEF ServiceInv
    <3>3. /\ applications'[b].status = applications[b].status
          /\ \A c \in Application \ {b} : applications'[c] = applications[c]
          /\ Applications' = Applications
      BY <2>3, <3>1, <3>2, MoveRow
    <3> QED
      BY <1>6, <2>1, <3>1, <3>3
  <2> QED
    BY <1>8, <2>2, <2>3 DEF ScreenMove
<1> QED
  BY <1>3, <1>4, <1>5, <1>7, <1>8 DEF ContinueApplication

\* However many requests are in flight: once an application is decided or withdrawn, it
\* is written only by handlers that had read it as ACTIVE before, once by each, and when
\* they are through it stays as it is.
THEOREM DecisionsSettle == HiringSpec => SettledForGood
<1>1. ASSUME IInv, [HiringNext]_vars, NEW a \in Applications, applications[a].status # "ACTIVE"
      PROVE  Settles(a)
  <2>1. req = [q \in Request |-> req[q]] /\ TablesTypeOK /\ ServiceInv /\ JobInv
    BY <1>1 DEF IInv, HiringTypeOK, ServiceInv, RequestsTyped
  <2>2. CASE UNCHANGED vars
    BY <1>1, <2>2 DEF vars, tables, Settles, Writers, Applications
  <2>3. ASSUME NEW r \in Request, BeginApplication(r) \/ ContinueApplication(r)
        PROVE  Settles(a)
    BY <1>1, <2>1, <2>3, BeginSettles, ContinueSettles
  <2>4. ASSUME NEW r \in Request, BeginJob(r) \/ ContinueJob(r)
        PROVE  Settles(a)
    <3>1. UNCHANGED applications
      BY <2>1, <2>4, JobTables
    <3>2. PICK x \in JobAfter : Goto(r, x)
      BY <2>1, <2>4, BeginJobHolds, ContinueJobHolds
    <3>3. ~ WritesOn(x, a)
      BY <3>2 DEF JobAfter, JobRequest, Done, WritesOn
    <3> QED
      BY <1>1, <2>1, <3>1, <3>2, <3>3, LeavesSettled
  <2>5. ASSUME NEW r \in Request, Fail(r)
        PROVE  Settles(a)
    BY <1>1, <2>1, <2>5, LeavesSettled DEF Fail, Fails, tables, Lost, WritesOn
  <2> QED
    BY <1>1, <2>2, <2>3, <2>4, <2>5 DEF HiringNext, Next, Editing, Quiescent
<1>2. IInv /\ [HiringNext]_vars
        => [\A a \in Applications : applications[a].status # "ACTIVE" => Settles(a)]_<<tables, req>>
  BY <1>1
<1> QED
  BY <1>2, IInvHolds, PTL DEF HiringSpec, SettledForGood, Settles

-----------------------------------------------------------------------------
(* Who may still write the status of a job. *)

\* The handler that holds x has read job j and has not written its status yet.
WritesStatus(x, j) ==
    x.pc \in {"publishCount", "publish", "close", "archive"} /\ x.job = j

\* What a step may do to a job that is ARCHIVED.
Shelves(j) ==
    /\ StatusWriters(j)' \subseteq StatusWriters(j)
    /\ jobs'[j] # jobs[j] => StatusWriters(j)' # StatusWriters(j)

\* A step adds its request to those that may write j only if it was one of them; it
\* writes j, if at all, as one that leaves them.
LEMMA StatusWriterMoves ==
    ASSUME req = [q \in Request |-> req[q]], NEW r \in Request, NEW x, Goto(r, x), NEW j \in Job,
           WritesStatus(x, j) => WritesStatus(req[r], j),
           jobs'[j] # jobs[j] => WritesStatus(req[r], j) /\ ~ WritesStatus(x, j)
    PROVE  Shelves(j)
<1>1. req'[r] = x /\ \A q \in Request \ {r} : req'[q] = req[q]
  BY DEF Goto
<1>2. \A q : q \in StatusWriters(j) <=> q \in Request /\ WritesStatus(req[q], j)
  BY DEF StatusWriters, WritesStatus
<1>3. \A q : q \in StatusWriters(j)' <=> q \in Request /\ WritesStatus(req'[q], j)
  BY DEF StatusWriters, WritesStatus
<1> QED
  BY <1>1, <1>2, <1>3 DEF Shelves

\* No handler that reads an ARCHIVED job goes on to write its status.
LEMMA BeginShelves ==
    ASSUME HiringTypeOK, NEW r \in Request, BeginJob(r), NEW j \in Job, jobs[j] = "ARCHIVED"
    PROVE  Shelves(j)
<1>1. req = [q \in Request |-> req[q]] /\ jobs \in [Job -> JobStatus \cup {None}]
  BY DEF HiringTypeOK, TablesTypeOK
<1>2. ASSUME NEW k \in Job, NEW allowed, NEW x, RequireJob(r, k, allowed, x), x.job = k,
             x.pc \in {"publishCount", "publish", "close", "archive"} => "ARCHIVED" \notin allowed
      PROVE  Shelves(j)
  <2>1. UNCHANGED jobs
    BY <1>2 DEF RequireJob, tables
  <2>2. CASE jobs[k] \in allowed
    <3>1. Goto(r, x) /\ ~ WritesStatus(x, j)
      BY <1>2, <2>2 DEF RequireJob, WritesStatus
    <3> QED
      BY <1>1, <2>1, <3>1, StatusWriterMoves
  <2>3. CASE jobs[k] \notin allowed
    <3>1. Goto(r, Done) /\ ~ WritesStatus(Done, j)
      BY <1>2, <2>3 DEF RequireJob, WritesStatus, Done
    <3> QED
      BY <1>1, <2>1, <3>1, StatusWriterMoves
  <2> QED
    BY <2>2, <2>3
<1>3. ASSUME NEW k \in Job, CreateJob(r, k) PROVE Shelves(j)
  <2>1. k # j /\ Goto(r, Done) /\ ~ WritesStatus(Done, j)
    BY <1>3, NoneAssumption DEF CreateJob, Finish, WritesStatus, Done, JobStatus
  <2>2. jobs'[j] = jobs[j]
    BY <1>1, <1>3, <2>1 DEF CreateJob, SetJob
  <2> QED
    BY <1>1, <2>1, <2>2, StatusWriterMoves
<1>4. ASSUME NEW k \in Job, PublishRead(r, k) PROVE Shelves(j)
  BY <1>2, <1>4 DEF PublishRead
<1>5. ASSUME NEW k \in Job, CloseRead(r, k) PROVE Shelves(j)
  BY <1>2, <1>5 DEF CloseRead
<1>6. ASSUME NEW k \in Job, ArchiveRead(r, k) PROVE Shelves(j)
  BY <1>2, <1>6 DEF ArchiveRead
<1>7. ASSUME NEW k \in Job, NEW names \in StageList, ReplaceStages(r, k, names)
      PROVE  Shelves(j)
  <2>1. RequireJob(r, k, JobStatus, [pc |-> "stagesRead", job |-> k, names |-> names])
    BY <1>7 DEF ReplaceStages
  <2> QED
    BY <1>2, <2>1
<1>8. ASSUME NEW k \in Job, ApplyTemplate(r, k) PROVE Shelves(j)
  BY <1>2, <1>8 DEF ApplyTemplate
<1> QED
  BY <1>3, <1>4, <1>5, <1>6, <1>7, <1>8 DEF BeginJob

\* A handler writes the job it has read, and ends.
LEMMA ContinueShelves ==
    ASSUME HiringTypeOK, JobInv, NEW r \in Request, ContinueJob(r), NEW j \in Job
    PROVE  Shelves(j)
<1>1. req = [q \in Request |-> req[q]] /\ jobs \in [Job -> JobStatus \cup {None}]
  BY DEF HiringTypeOK, TablesTypeOK
<1>2. ~ WritesStatus(Done, j)
  BY DEF WritesStatus, Done
<1>3. CASE PublishUpdate(r) \/ CloseUpdate(r) \/ ArchiveUpdate(r)
  <2>1. PICK status : JobUpdate(r, req[r].pc, status) /\ req[r].pc \in {"publish", "close", "archive"}
    BY <1>3 DEF PublishUpdate, CloseUpdate, ArchiveUpdate, JobUpdate, At
  <2>2. Goto(r, Done) /\ jobs' = [jobs EXCEPT ![req[r].job] = status]
    BY <2>1 DEF JobUpdate, Finish, SetJob
  <2>3. jobs'[j] = jobs[j] \/ WritesStatus(req[r], j)
    BY <1>1, <2>1, <2>2 DEF WritesStatus
  <2> QED
    BY <1>1, <1>2, <2>2, <2>3, StatusWriterMoves
<1>4. CASE PublishCount(r)
  <2>1. PICK x : Goto(r, x) /\ (x = Done \/ x = [pc |-> "publish", job |-> req[r].job])
    BY <1>4 DEF PublishCount
  <2>2. WritesStatus(x, j) => WritesStatus(req[r], j)
    BY <1>4, <2>1 DEF PublishCount, At, WritesStatus, Done
  <2>3. jobs'[j] = jobs[j]
    BY <1>4 DEF PublishCount, tables
  <2> QED
    BY <1>1, <2>1, <2>2, <2>3, StatusWriterMoves
<1>5. CASE ApplyTemplateRead(r) \/ SetStagesRead(r) \/ SetStagesInUse(r) \/ SetStagesWrite(r)
  <2>1. UNCHANGED jobs
    BY <1>5 DEF ApplyTemplateRead, SetStagesRead, SetStagesInUse, SetStagesWrite, tables
  <2>2. PICK x : Goto(r, x) /\ x.pc \in {"done", "stagesRead", "stagesInUse", "stagesWrite"}
    <3>1. CASE Finish(r)
      BY <3>1 DEF Finish, Done
    <3>2. CASE ApplyTemplateRead(r) /\ ~ Finish(r)
      <4>1. PICK names : Goto(r, [pc |-> "stagesRead", job |-> req[r].job, names |-> names])
        BY <3>2 DEF ApplyTemplateRead
      <4> QED
        BY <4>1
    <3>3. CASE SetStagesRead(r)
      <4>1. PICK match : Goto(r, [pc |-> "stagesInUse", job |-> req[r].job,
                                  names |-> req[r].names,
                                  remove |-> Dropped(StagesOf(req[r].job), req[r].names),
                                  match |-> match])
        BY <3>3 DEF SetStagesRead
      <4> QED
        BY <4>1
    <3>4. CASE SetStagesInUse(r) /\ ~ Finish(r)
      <4>1. Goto(r, [req[r] EXCEPT !.pc = "stagesWrite"])
        BY <3>4 DEF SetStagesInUse, Finish
      <4>2. req[r] \in [pc: {"stagesInUse", "stagesWrite"}, job: Job, names: StageList,
                        remove: SUBSET Stage, match: [StageName -> Stage \cup {None}]]
        BY <3>4 DEF SetStagesInUse, At, JobInv, JobHolds, JobPC, JobRequest
      <4>3. [req[r] EXCEPT !.pc = "stagesWrite"].pc = "stagesWrite"
        BY <4>2
      <4> QED
        BY <4>1, <4>3
    <3> QED
      BY <1>5, <3>1, <3>2, <3>3, <3>4 DEF SetStagesWrite
  <2>3. ~ WritesStatus(x, j)
    BY <2>2 DEF WritesStatus
  <2> QED
    BY <1>1, <2>1, <2>2, <2>3, StatusWriterMoves
<1> QED
  BY <1>3, <1>4, <1>5 DEF ContinueJob

\* However many requests are in flight: once a job is ARCHIVED, its status is written only
\* by handlers that had read another one before, once by each.
THEOREM ArchivesSettle == HiringSpec => ArchivedForGood
<1>1. ASSUME IInv, [HiringNext]_vars, NEW j \in Job, jobs[j] = "ARCHIVED"
      PROVE  Shelves(j)
  <2>1. req = [q \in Request |-> req[q]] /\ HiringTypeOK /\ TablesTypeOK /\ ServiceInv /\ JobInv
    BY <1>1 DEF IInv, HiringTypeOK, ServiceInv, RequestsTyped
  <2>2. CASE UNCHANGED vars
    BY <2>2 DEF vars, tables, Shelves, StatusWriters
  <2>3. ASSUME NEW r \in Request, BeginApplication(r) \/ ContinueApplication(r)
        PROVE  Shelves(j)
    <3>1. UNCHANGED jobs
      BY <2>1, <2>3, BeginGoto, ContinueTypes DEF tables
    <3>2. PICK x \in After : Goto(r, x)
      BY <2>1, <2>3, BeginGoto, ContinueHolds
    <3>3. ~ WritesStatus(x, j)
      BY <3>2 DEF After, ApplicationRequest, Done, WritesStatus
    <3> QED
      BY <2>1, <3>1, <3>2, <3>3, StatusWriterMoves
  <2>4. ASSUME NEW r \in Request, BeginJob(r) \/ ContinueJob(r)
        PROVE  Shelves(j)
    BY <1>1, <2>1, <2>4, BeginShelves, ContinueShelves
  <2>5. ASSUME NEW r \in Request, Fail(r)
        PROVE  Shelves(j)
    BY <2>1, <2>5, StatusWriterMoves DEF Fail, Fails, tables, Lost, WritesStatus
  <2> QED
    BY <1>1, <2>2, <2>3, <2>4, <2>5 DEF HiringNext, Next, Editing, Quiescent
<1>2. IInv /\ [HiringNext]_vars
        => [\A j \in Job : jobs[j] = "ARCHIVED" => Shelves(j)]_<<tables, req>>
  BY <1>1
<1> QED
  BY <1>2, IInvHolds, PTL DEF HiringSpec, ArchivedForGood, Shelves

-----------------------------------------------------------------------------
(* The commit of a replacement leaves the list it was given. *)

Distinct(names) == \A i, k \in DOMAIN names : names[i] = names[k] => i = k

\* The last position of a name that is listed once is its position.
LEMMA OnlyIndex ==
    ASSUME NEW names \in StageList, Distinct(names), NEW i \in DOMAIN names
    PROVE  LastIndex(names, names[i]) = i
<1>1. LastIndex(names, names[i]) \in DOMAIN names
      /\ names[LastIndex(names, names[i])] = names[i]
  <2>1. DOMAIN names = 1 .. Len(names) /\ Len(names) \in Nat
    BY ListNames
  <2>2. \A k \in DOMAIN names : names[k] = names[i] => k <= i
    BY <2>1 DEF Distinct
  <2>3. \E k \in DOMAIN names :
            names[k] = names[i] /\ \A m \in DOMAIN names : names[m] = names[i] => m <= k
    BY <2>2
  <2> QED
    BY <2>3 DEF LastIndex
<1> QED
  BY <1>1 DEF Distinct

\* The rows it keeps and those it inserts are the listed ones, each at its index.
LEMMA WriteLists ==
    ASSUME TablesTypeOK, JobInv, NEW r \in Request, SetStagesWrite(r),
           NEW j \in Job, NEW names \in StageList, req[r].job = j, req[r].names = names,
           Distinct(names), AsRead(r), ~ Rejected(names, req[r].remove, req[r].match)
    PROVE  ListedAs(j, names)'
<1> DEFINE remove == req[r].remove
           match == req[r].match
           free == {s \in Stage : stages[s] = None}
           new == NewIndices(names, match)
<1>1. /\ remove \subseteq Stage /\ match \in [StageName -> Stage \cup {None}]
      /\ Replacement(req[r], stages)
  BY ReplacementFields DEF SetStagesWrite, At
<1>2. PICK id \in [new -> free] :
        /\ \A i, k \in new : id[i] = id[k] => i = k
        /\ stages' = [s \in Stage |->
            IF s \in remove THEN Deleted
            ELSE IF \E i \in new : id[i] = s
            THEN LET i == CHOOSE k \in new : id[k] = s
                 IN  [job |-> j, name |-> names[i], order |-> i - 1]
            ELSE IF \E n \in NamesIn(names) : match[n] = s
            THEN [stages[s] EXCEPT !.order = LastIndex(names, stages[s].name) - 1]
            ELSE stages[s]]
  BY DEF SetStagesWrite
<1>3. PICK n \in Nat : n = Len(names) /\ DOMAIN names = 1 .. n
  BY ListNames
<1>4. \A i \in 1 .. n : names[i] \in StageName /\ names[i] \in NamesIn(names)
  BY <1>3, ListNames DEF NamesIn
<1>5. \A s \in remove : stages[s] # None
  BY <1>1 DEF Replacement, OfJob
<1>6. \A i \in new : i \in 1 .. n /\ match[names[i]] = None /\ id[i] \in Stage
                     /\ stages[id[i]] = None /\ id[i] \notin remove
  BY <1>2, <1>3, <1>5 DEF NewIndices
<1>7. \A i \in (1 .. n) \ new :
         /\ match[names[i]] \in Stage \ remove /\ stages[match[names[i]]] \in StageRow
         /\ stages[match[names[i]]].job = j /\ stages[match[names[i]]].name = names[i]
  <2> SUFFICES ASSUME NEW i \in (1 .. n) \ new
               PROVE  /\ match[names[i]] \in Stage \ remove
                      /\ stages[match[names[i]]] \in StageRow
                      /\ stages[match[names[i]]].job = j
                      /\ stages[match[names[i]]].name = names[i]
    OBVIOUS
  <2>1. PICK m \in NamesIn(names) : m = names[i] /\ m \in StageName /\ match[m] # None
    BY <1>3, <1>4 DEF NewIndices
  <2>2. match[m] \in Stage /\ StageExists(match[m])
    BY <1>1, <2>1 DEF Rejected
  <2>3. stages[match[m]] \in StageRow
    BY <2>2 DEF StageExists, TablesTypeOK
  <2>4. /\ stages[match[m]].job = j /\ stages[match[m]].name = m /\ match[m] \notin remove
    BY <1>1, <2>1, <2>2 DEF Replacement, OfJob, IsRow, StageExists
  <2> QED
    BY <2>1, <2>2, <2>3, <2>4
<1>8. \A i \in new : stages'[id[i]] = [job |-> j, name |-> names[i], order |-> i - 1]
  <2> SUFFICES ASSUME NEW i \in new
               PROVE  stages'[id[i]] = [job |-> j, name |-> names[i], order |-> i - 1]
    OBVIOUS
  <2>1. PICK k \in new : k = CHOOSE m \in new : id[m] = id[i]
    OBVIOUS
  <2>2. id[k] = id[i]
    BY <2>1
  <2>3. k = i
    BY <1>2, <2>2
  <2> QED
    BY <1>2, <1>6, <2>1, <2>3
<1>9. \A i \in (1 .. n) \ new :
          stages'[match[names[i]]] = [stages[match[names[i]]] EXCEPT !.order = i - 1]
  <2> SUFFICES ASSUME NEW i \in (1 .. n) \ new
               PROVE  stages'[match[names[i]]] =
                          [stages[match[names[i]]] EXCEPT !.order = i - 1]
    OBVIOUS
  <2>1. PICK s \in Stage \ remove : /\ s = match[names[i]] /\ stages[s] \in StageRow
                                    /\ stages[s].name = names[i]
    BY <1>7
  <2>2. ~ \E k \in new : id[k] = s
    BY <1>6, <2>1, NoneAssumption
  <2>3. \E m \in NamesIn(names) : match[m] = s
    BY <1>4, <2>1
  <2>4. LastIndex(names, stages[s].name) = i
    BY <1>3, <2>1, OnlyIndex
  <2> QED
    BY <1>2, <2>1, <2>2, <2>3, <2>4
<1>10. PICK list : list = [i \in 1 .. n |-> IF i \in new THEN id[i] ELSE match[names[i]]]
  OBVIOUS
<1>11. \A i \in 1 .. n : /\ list[i] \in Stage /\ StageExists(list[i])' /\ stages'[list[i]].job = j
                         /\ stages'[list[i]].order = i - 1 /\ stages'[list[i]].name = names[i]
  <2> SUFFICES ASSUME NEW i \in 1 .. n
               PROVE  /\ list[i] \in Stage /\ StageExists(list[i])' /\ stages'[list[i]].job = j
                      /\ stages'[list[i]].order = i - 1 /\ stages'[list[i]].name = names[i]
    OBVIOUS
  <2>1. PICK row : /\ row \in StageRow /\ row.job = j /\ row.order = i - 1
                   /\ row.name = names[i] /\ stages'[list[i]] = row
    <3>1. CASE i \in new
      <4>1. list[i] = id[i]
        BY <1>10, <3>1
      <4>2. PICK row : row = [job |-> j, name |-> names[i], order |-> i - 1]
        OBVIOUS
      <4>3. row.job = j /\ row.name = names[i] /\ row.order = i - 1 /\ i - 1 \in Nat
        BY <4>2
      <4>4. row \in StageRow
        BY <1>4, <4>2, <4>3 DEF StageRow
      <4>5. stages'[list[i]] = row
        BY <1>8, <3>1, <4>1, <4>2
      <4> QED
        BY <4>3, <4>4, <4>5
    <3>2. CASE i \notin new
      <4>1. list[i] = match[names[i]]
        BY <1>10, <3>2
      <4>2. PICK old \in StageRow : old = stages[list[i]] /\ old.job = j /\ old.name = names[i]
        BY <1>7, <3>2, <4>1
      <4>3. stages'[list[i]] = [old EXCEPT !.order = i - 1]
        BY <1>9, <3>2, <4>1, <4>2
      <4>4. PICK row : row = [old EXCEPT !.order = i - 1]
        OBVIOUS
      <4>5. i - 1 \in Nat
        OBVIOUS
      <4>6. row \in StageRow /\ row.job = j /\ row.name = names[i] /\ row.order = i - 1
        BY <4>2, <4>4, <4>5 DEF StageRow
      <4> QED
        BY <4>3, <4>4, <4>6
    <3> QED
      BY <3>1, <3>2
  <2>2. list[i] \in Stage
    BY <1>6, <1>7, <1>10
  <2> QED
    BY <2>1, <2>2, NoneAssumption DEF StageExists
<1>12. ASSUME NEW s \in Stage, StageExists(s)', stages'[s].job = j
       PROVE  \E i \in 1 .. n : list[i] = s
  <2>1. s \notin remove
    BY <1>2, <1>12 DEF StageExists
  <2>2. CASE \E i \in new : id[i] = s
    BY <1>6, <1>10, <2>2
  <2>3. CASE \E m \in NamesIn(names) : match[m] = s
    <3>1. PICK i \in 1 .. n : match[names[i]] = s
      BY <1>3, <2>3 DEF NamesIn
    <3>2. i \notin new
      BY <1>6, <3>1, NoneAssumption
    <3> QED
      BY <1>10, <3>1, <3>2
  <2>4. CASE ~ (\E i \in new : id[i] = s) /\ ~ (\E m \in NamesIn(names) : match[m] = s)
    <3>1. stages'[s] = stages[s]
      BY <1>2, <2>1, <2>4
    <3>2. s \in StagesOf(j)
      BY <1>12, <3>1 DEF StagesOf, StageExists
    <3> QED
      BY <2>1, <2>4, <3>2 DEF AsRead
  <2> QED
    BY <2>2, <2>3, <2>4
<1>13. \A s : s \in StagesOf(j)' <=> s \in Stage /\ StageExists(s)' /\ stages'[s].job = j
  BY DEF StagesOf
<1>14. ASSUME NEW s \in StagesOf(j)'
       PROVE  \E i \in DOMAIN names : stages'[s].order = i - 1 /\ stages'[s].name = names[i]
  <2>1. PICK i \in 1 .. n : list[i] = s
    BY <1>12, <1>13
  <2> QED
    BY <1>3, <1>11, <2>1
<1>15. ASSUME NEW i \in DOMAIN names
       PROVE  \E s \in StagesOf(j)' : stages'[s].order = i - 1 /\ stages'[s].name = names[i]
  BY <1>3, <1>11, <1>13
<1> QED
  BY <1>14, <1>15 DEF ListedAs

\* Nothing but the commit of its transaction ends a handler that stands at it.
LEMMA CommitEnds ==
    ASSUME HiringTypeOK, ServiceInv, JobInv, [HiringNext]_vars, NEW r \in Request,
           At(r, "stagesWrite"), req'[r] = Done
    PROVE  SetStagesWrite(r)
<1>1. req = [q \in Request |-> req[q]] /\ req[r].pc = "stagesWrite" /\ req'[r] # req[r]
  BY DEF HiringTypeOK, At, Done
<1>2. ASSUME NEW q \in Request, NEW x, Goto(q, x)
      PROVE  q = r
  BY <1>1, <1>2 DEF Goto
<1>3. ~ Arrives(r)
  BY <1>1 DEF Arrives, Idle
<1>4. ~ UNCHANGED vars
  BY <1>1 DEF vars
<1>5. ASSUME NEW q \in Request, BeginApplication(q)
      PROVE  FALSE
  <2>1. Arrives(q) /\ \E x : Goto(q, x)
    BY <1>5 DEF BeginApplication, ApplicationsController, JobApplicationsController,
                CreateFindJob, WithdrawRead, ScreenReadReject, ScreenReadPass, DecideRead,
                ReadActive, Finish
  <2> QED
    BY <1>2, <1>3, <2>1
<1>6. ASSUME NEW q \in Request, BeginJob(q)
      PROVE  FALSE
  <2>1. PICK x : Goto(q, x)
    BY <1>6, BeginJobHolds
  <2>2. Arrives(q)
    BY <1>6 DEF BeginJob, CreateJob, PublishRead, CloseRead, ArchiveRead, ReplaceStages,
                ApplyTemplate, RequireJob
  <2> QED
    BY <1>2, <1>3, <2>1, <2>2
<1>7. ASSUME NEW q \in Request, ContinueApplication(q)
      PROVE  FALSE
  <2>1. PICK x : Goto(q, x)
    BY <1>7, ContinueHolds DEF HiringTypeOK
  <2>2. req[q].pc \in ApplicationPC
    BY <1>7 DEF ContinueApplication, CreateResolveCv, CreateFindStage, CreateInsert,
                WithdrawUpdate, ScreenReject, ScreenFindNext, ScreenMove, DecideHire,
                DecideReject, Notify, At, ApplicationPC
  <2> QED
    BY <1>1, <1>2, <2>1, <2>2 DEF ApplicationPC
<1>8. ASSUME NEW q \in Request, ContinueJob(q)
      PROVE  SetStagesWrite(r)
  <2>1. PICK x : Goto(q, x)
    BY <1>8, ContinueJobHolds
  <2>2. q = r
    BY <1>2, <2>1
  <2> QED
    BY <1>1, <1>8, <2>2 DEF ContinueJob, PublishCount, PublishUpdate, CloseUpdate, ArchiveUpdate,
                            ApplyTemplateRead, SetStagesRead, SetStagesInUse, JobUpdate, At
<1>9. ASSUME NEW q \in Request, Fail(q)
      PROVE  FALSE
  <2>1. Goto(q, Lost)
    BY <1>9 DEF Fail, Fails
  <2>2. q = r
    BY <1>2, <2>1
  <2> QED
    BY <1>1, <2>1, <2>2 DEF Goto, Lost, Done
<1> QED
  BY <1>4, <1>5, <1>6, <1>7, <1>8, <1>9 DEF HiringNext, Next, Editing, Quiescent

\* However many requests are in flight: a replacement by a list of distinct names, of rows
\* nobody has replaced since it read them, leaves the list, each name at its index.
THEOREM ListsAreOrders == HiringSpec => OrderIsIndex
<1>1. ASSUME IInv, [HiringNext]_vars, NEW r \in Request, NEW j \in Job, NEW names \in StageList,
             At(r, "stagesWrite"), req[r].job = j, req[r].names = names,
             \A i, k \in DOMAIN names : names[i] = names[k] => i = k,
             AsRead(r), ~ Rejected(names, req[r].remove, req[r].match), req'[r] = Done
      PROVE  ListedAs(j, names)'
  <2>1. TablesTypeOK /\ JobInv /\ HiringTypeOK
    BY <1>1 DEF IInv, HiringTypeOK
  <2>2. SetStagesWrite(r)
    BY <1>1, <2>1, CommitEnds DEF IInv
  <2> QED
    BY <1>1, <2>1, <2>2, WriteLists DEF Distinct
<1>2. ASSUME IInv, [HiringNext]_vars
      PROVE  \A r \in Request, j \in Job, names \in StageList :
                /\ At(r, "stagesWrite") /\ req[r].job = j /\ req[r].names = names
                /\ \A i, k \in DOMAIN names : names[i] = names[k] => i = k
                /\ AsRead(r) /\ ~ Rejected(names, req[r].remove, req[r].match)
                /\ req'[r] = Done
                => ListedAs(j, names)'
  BY <1>1, <1>2
<1>3. IInv /\ [HiringNext]_vars
        => [\A r \in Request, j \in Job, names \in StageList :
                /\ At(r, "stagesWrite") /\ req[r].job = j /\ req[r].names = names
                /\ \A i, k \in DOMAIN names : names[i] = names[k] => i = k
                /\ AsRead(r) /\ ~ Rejected(names, req[r].remove, req[r].match)
                /\ req'[r] = Done
                => ListedAs(j, names)']_<<tables, req>>
  BY <1>2
<1> QED
  BY <1>3, IInvHolds, PTL DEF HiringSpec, OrderIsIndex
=============================================================================
