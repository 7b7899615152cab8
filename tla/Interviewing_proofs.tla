------------------------- MODULE Interviewing_proofs -------------------------
(***************************************************************************)
(* Theorems on interviews.  A slot that a handler has read may be moved     *)
(* before it writes, even by another request on its way to move it; that it *)
(* is there, and its panel, stay as they were read.                         *)
(***************************************************************************)
EXTENDS Interviewing, TLAPS

RowsInv ==
    /\ req = [r \in Request |-> req[r]]
    /\ interviews \in [Interview -> InterviewRow \cup {None}]
    /\ evaluations \in [Interview -> [Interviewer -> Nat]]
    /\ notified \in [Interview -> [Interviewer -> Nat]]
    /\ members \subseteq joined

\* Whom the panel of a slot consists of; nobody where there is no slot.
PanelOf(i) == IF interviews[i] = None THEN {} ELSE interviews[i].panel
Panels == [i \in Interview |-> PanelOf(i)]

InterviewPcs == {"members", "interview", "notifyPanel", "reschedule", "evaluate"}

\* What a request must hold for the next statement of its handler: a panel that is
\* still checked, the slot read with its panel, or who is left to be told.
HandlerHolds(x, slots, panels, told, ever) ==
    /\ x.pc \in {"members", "interview"} =>
         /\ x = [pc |-> x.pc, app |-> x.app, panel |-> x.panel]
         /\ x.app \in Application /\ x.panel \in (SUBSET Interviewer) \ {{}}
         /\ x.pc = "interview" => x.panel \subseteq ever
    /\ x.pc = "notifyPanel" =>
         /\ x = [pc |-> x.pc, interview |-> x.interview, rest |-> x.rest]
         /\ x.interview \in slots /\ x.rest \subseteq panels[x.interview]
         /\ \A u \in x.rest : told[x.interview][u] = 0
    /\ x.pc = "reschedule" => x.interview \in slots /\ x.panel = panels[x.interview]
    /\ x.pc = "evaluate" => x.interview \in slots /\ x.interviewer \in panels[x.interview]

\* No two requests tell the panel of one interview.
HandlersInv ==
    /\ \A r \in Request : HandlerHolds(req[r], Interviews, Panels, notified, joined)
    /\ \A r, q \in Request : r # q /\ At(r, "notifyPanel") /\ At(q, "notifyPanel") =>
         req[r].interview # req[q].interview

IInv == RowsInv /\ ReschedulesAreLinked /\ PanelActsOnce /\ HandlersInv

-----------------------------------------------------------------------------
(* Steps that leave the interviews alone. *)

LEMMA Held ==
    ASSUME IInv, NEW r \in Request
    PROVE  HandlerHolds(req[r], Interviews, Panels, notified, joined)
  BY DEF IInv, HandlersInv

\* A request that goes on to tell nobody, with what it must hold.
LEMMA Reads ==
    ASSUME IInv, UNCHANGED interviewTables, NEW r \in Request, NEW x, Goto(r, x),
           HandlerHolds(x, Interviews, Panels, notified, joined), x.pc # "notifyPanel"
    PROVE  IInv'
<1>1. /\ Interviews' = Interviews /\ Panels' = Panels
      /\ UNCHANGED <<interviews, evaluations, notified, members, joined>>
  BY DEF interviewTables, membership, Interviews, Panels, PanelOf
<1>2. /\ req'[r] = x /\ \A q \in Request \ {r} : req'[q] = req[q]
      /\ req' = [q \in Request |-> req'[q]]
  BY DEF IInv, RowsInv, Goto
<1>3. HandlersInv'
  BY <1>1, <1>2 DEF IInv, HandlersInv, At
<1> QED
  BY <1>1, <1>2, <1>3 DEF IInv, RowsInv, ReschedulesAreLinked, PanelActsOnce

\* Other handlers hold nothing of interviews.
LEMMA OthersHold ==
    ASSUME NEW x, x.pc \notin InterviewPcs
    PROVE  HandlerHolds(x, Interviews, Panels, notified, joined) /\ x.pc # "notifyPanel"
  BY DEF HandlerHolds, InterviewPcs

\* r goes on with a handler of another service, or ends.
GoesOn(r) == \E x : Goto(r, x) /\ x.pc \notin InterviewPcs

\* The handlers of ApplicationsService among them.
LEMMA ApplicationsGoOn ==
    ASSUME NEW r \in Request, BeginApplication(r) \/ ContinueApplication(r)
    PROVE  GoesOn(r)
<1>1. \A x : Goto(r, x) /\ x.pc \notin InterviewPcs => GoesOn(r)
  BY DEF GoesOn
<1>2. Done.pc \notin InterviewPcs
  BY DEF Done, InterviewPcs
<1>3. Finish(r) => GoesOn(r)
  BY <1>1, <1>2 DEF Finish
<1>4. ASSUME NEW a \in Application, NEW x, ReadActive(r, a, x), x.pc \notin InterviewPcs
      PROVE  GoesOn(r)
  BY <1>1, <1>2, <1>4 DEF ReadActive
<1>5. ASSUME NEW c \in Candidate, NEW j \in Job, CreateFindJob(r, c, j)
      PROVE  GoesOn(r)
  BY <1>1, <1>3, <1>5 DEF CreateFindJob, InterviewPcs
<1>6. ASSUME NEW a \in Application,
             WithdrawRead(r, a) \/ ScreenReadReject(r, a) \/ ScreenReadPass(r, a)
      PROVE  GoesOn(r)
  BY <1>4, <1>6 DEF WithdrawRead, ScreenReadReject, ScreenReadPass, InterviewPcs
<1>7. ASSUME NEW a \in Application, DecideRead(r, a)
      PROVE  GoesOn(r)
  BY <1>4, <1>7 DEF DecideRead, InterviewPcs
<1>8. CASE CreateResolveCv(r)
  BY <1>1, <1>3, <1>8 DEF CreateResolveCv, InterviewPcs
<1>9. CASE CreateFindStage(r)
  BY <1>1, <1>3, <1>9 DEF CreateFindStage, InterviewPcs
<1>10. CASE CreateInsert(r) \/ WithdrawUpdate(r) \/ ScreenMove(r) \/ DecideHire(r) \/ Notify(r)
  <2>1. CreateInsert(r) => Finish(r)
    BY DEF CreateInsert
  <2>2. WithdrawUpdate(r) \/ DecideHire(r) \/ Notify(r) => Finish(r)
    BY DEF WithdrawUpdate, DecideHire, Notify
  <2>3. ScreenMove(r) => Finish(r)
    BY DEF ScreenMove
  <2> QED
    BY <1>3, <1>10, <2>1, <2>2, <2>3
<1>11. CASE ScreenReject(r) \/ DecideReject(r)
  BY <1>1, <1>11 DEF ScreenReject, DecideReject, InterviewPcs
<1>12. CASE ScreenFindNext(r)
  <2>1. \/ Finish(r)
        \/ \E s \in NextStages(r) :
             Goto(r, [pc |-> "move", app |-> req[r].app, stage |-> req[r].stage, next |-> s])
    BY <1>12 DEF ScreenFindNext
  <2> QED
    BY <1>1, <1>3, <2>1 DEF InterviewPcs
<1> QED
  BY <1>5, <1>6, <1>7, <1>8, <1>9, <1>10, <1>11, <1>12
  DEF BeginApplication, ApplicationsController, JobApplicationsController, ContinueApplication

\* They leave the interviews alone.
LEMMA ApplicationsInv ==
    ASSUME IInv, NEW r \in Request, ApplicationStep(r)
    PROVE  IInv'
  BY ApplicationsGoOn, OthersHold, Reads DEF ApplicationStep, GoesOn

\* What is read or checked before a write is what the write relies on.
LEMMA InterviewReads ==
    ASSUME IInv, NEW r \in Request, BeginInterview(r) \/ RequireOrgMembers(r)
    PROVE  IInv'
<1> DEFINE HoldsNow(x) == HandlerHolds(x, Interviews, Panels, notified, joined)
<1>1. HoldsNow(Done) /\ Done.pc # "notifyPanel"
  BY DEF Done, HandlerHolds
<1>2. ASSUME NEW a \in Application, NEW panel \in (SUBSET Interviewer) \ {{}},
             ScheduleRead(r, a, panel)
      PROVE  IInv'
  <2> DEFINE x == [pc |-> "members", app |-> a, panel |-> panel]
  <2>1. HoldsNow(x) /\ x.pc # "notifyPanel"
    BY DEF HandlerHolds
  <2>2. Goto(r, x) \/ Goto(r, Done)
    BY <1>2 DEF ScheduleRead
  <2>3. UNCHANGED interviewTables
    BY <1>2 DEF ScheduleRead
  <2> HIDE DEF x
  <2> QED
    BY <1>1, <2>1, <2>2, <2>3, Reads
<1>3. ASSUME NEW i \in Interview, RescheduleRead(r, i)
      PROVE  IInv'
  <2> DEFINE x == [pc |-> "reschedule", interview |-> i, panel |-> interviews[i].panel]
  <2>1. HoldsNow(x) /\ x.pc # "notifyPanel"
    BY <1>3 DEF HandlerHolds, RescheduleRead, Interviews, Panels, PanelOf
  <2>2. Goto(r, x) \/ Goto(r, Done)
    BY <1>3 DEF RescheduleRead
  <2>3. UNCHANGED interviewTables
    BY <1>3 DEF RescheduleRead
  <2> HIDE DEF x
  <2> QED
    BY <1>1, <2>1, <2>2, <2>3, Reads
<1>4. ASSUME NEW i \in Interview, NEW u \in Interviewer, EvaluateRead(r, i, u)
      PROVE  IInv'
  <2> DEFINE x == [pc |-> "evaluate", interview |-> i, interviewer |-> u]
  <2>1. u \in interviews[i].panel => HoldsNow(x) /\ x.pc # "notifyPanel"
    BY <1>4 DEF HandlerHolds, EvaluateRead, Interviews, Panels, PanelOf
  <2>2. (u \in interviews[i].panel /\ Goto(r, x)) \/ Goto(r, Done)
    BY <1>4 DEF EvaluateRead
  <2>3. UNCHANGED interviewTables
    BY <1>4 DEF EvaluateRead
  <2> HIDE DEF x
  <2> QED
    BY <1>1, <2>1, <2>2, <2>3, Reads
<1>5. CASE RequireOrgMembers(r)
  <2> DEFINE x == [req[r] EXCEPT !.pc = "interview"]
             y == [pc |-> "interview", app |-> req[r].app, panel |-> req[r].panel]
  <2>1. /\ req[r] = [pc |-> "members", app |-> req[r].app, panel |-> req[r].panel]
        /\ req[r].app \in Application /\ req[r].panel \in (SUBSET Interviewer) \ {{}}
    BY <1>5, Held DEF RequireOrgMembers, At, HandlerHolds
  <2>2. x = y
    BY <2>1
  <2>3. req[r].panel \subseteq members => HoldsNow(y) /\ y.pc # "notifyPanel"
    BY <2>1 DEF IInv, RowsInv, HandlerHolds
  <2>4. (req[r].panel \subseteq members /\ Goto(r, y)) \/ Goto(r, Done)
    BY <1>5, <2>2 DEF RequireOrgMembers
  <2>5. UNCHANGED interviewTables
    BY <1>5 DEF RequireOrgMembers
  <2> HIDE DEF x, y
  <2> QED
    BY <1>1, <2>3, <2>4, <2>5, Reads
<1> QED
  BY <1>2, <1>3, <1>4, <1>5
  DEF BeginInterview, JobApplicationInterviewsController, InterviewsController

-----------------------------------------------------------------------------
(* Slots that are added. *)

\* A slot is added, one that is there may be moved to it, and panels stay: what other
\* handlers hold stays of use.
LEMMA OthersKeep ==
    ASSUME IInv, NEW r \in Request, NEW q \in Request \ {r}, req'[q] = req[q],
           UNCHANGED notified, joined \subseteq joined', Interviews \subseteq Interviews',
           \A i \in Interviews : Panels'[i] = Panels[i]
    PROVE  HandlerHolds(req'[q], Interviews', Panels', notified', joined')
  BY Held DEF HandlerHolds

\* Before there is a slot nobody is told of it or evaluates it.
LEMMA NobodyActs ==
    ASSUME IInv, NEW i \in Interview \ Interviews, NEW u \in Interviewer
    PROVE  notified[i][u] = 0 /\ evaluations[i][u] = 0
<1>1. notified[i][u] \in Nat /\ evaluations[i][u] \in Nat
  BY DEF IInv, RowsInv
<1>2. ~ notified[i][u] + evaluations[i][u] > 0
  BY DEF IInv, PanelActsOnce
<1> QED
  BY <1>1, <1>2

\* The panel of a new slot is the one that was checked, and nobody has been told yet.
LEMMA ScheduleInv ==
    ASSUME IInv, NEW r \in Request, ScheduleInsert(r)
    PROVE  IInv'
<1>0. /\ RowsInv /\ None \notin InterviewRow /\ None \notin Interview
      /\ \A i \in Interview \ Interviews, u \in Interviewer :
           notified[i][u] = 0 /\ evaluations[i][u] = 0
  BY InterviewAssumption, NobodyActs DEF IInv
<1>1. /\ req[r].app \in Application /\ req[r].panel \in (SUBSET Interviewer) \ {{}}
      /\ req[r].panel \subseteq joined
  BY Held DEF ScheduleInsert, At, HandlerHolds
<1> DEFINE panel == req[r].panel
           row == NewInterview(req[r].app, panel, None)
<1>2. PICK i \in Interview \ Interviews :
        /\ interviews' = [interviews EXCEPT ![i] = row]
        /\ Goto(r, [pc |-> "notifyPanel", interview |-> i, rest |-> panel])
  BY DEF ScheduleInsert
<1>3. UNCHANGED <<evaluations, notified, members, joined>>
  BY DEF ScheduleInsert, membership
<1> DEFINE x == [pc |-> "notifyPanel", interview |-> i, rest |-> panel]
<1>4. /\ row \in InterviewRow /\ row.panel = panel /\ row.status = "SCHEDULED"
      /\ row.rescheduledTo = None
  BY <1>1 DEF NewInterview, InterviewRow
<1> HIDE DEF row
<1>5. /\ interviews' \in [Interview -> InterviewRow \cup {None}]
      /\ interviews'[i] = row /\ \A k \in Interview \ {i} : interviews'[k] = interviews[k]
      /\ Interviews' = Interviews \cup {i}
  BY <1>0, <1>2, <1>4 DEF RowsInv, Interviews
<1>6. Panels'[i] = panel /\ \A k \in Interviews : Panels'[k] = Panels[k]
  BY <1>0, <1>2, <1>4, <1>5 DEF Panels, PanelOf, Interviews
<1>7. /\ req'[r] = x /\ \A q \in Request \ {r} : req'[q] = req[q]
      /\ req' = [q \in Request |-> req'[q]]
  BY <1>0, <1>2 DEF RowsInv, Goto
<1>8. x.pc = "notifyPanel" /\ x.interview = i /\ x.rest = panel
  OBVIOUS
<1>9. HandlerHolds(x, Interviews', Panels', notified', joined')
  BY <1>0, <1>1, <1>3, <1>5, <1>6, <1>8 DEF HandlerHolds
<1> HIDE DEF x, panel
<1>10. HandlersInv'
  <2>1. \A q \in Request : HandlerHolds(req'[q], Interviews', Panels', notified', joined')
    BY <1>3, <1>5, <1>6, <1>7, <1>9, OthersKeep
  <2>2. ASSUME NEW q \in Request \ {r}, req'[q].pc = "notifyPanel"
        PROVE  req'[q].interview # i
    <3>1. req[q].pc = "notifyPanel" /\ HandlerHolds(req[q], Interviews, Panels, notified, joined)
      BY <1>7, <2>2, Held
    <3>2. req[q].interview \in Interviews
      BY <3>1 DEF HandlerHolds
    <3> QED
      BY <1>2, <1>7, <3>2
  <2>3. \A p, q \in Request : p # q /\ At(p, "notifyPanel")' /\ At(q, "notifyPanel")' =>
          req'[p].interview # req'[q].interview
    BY <1>7, <1>8, <2>2 DEF IInv, HandlersInv, At
  <2> QED
    BY <2>1, <2>3 DEF HandlersInv
<1>11. ReschedulesAreLinked'
  <2>1. ASSUME NEW k \in Interviews, interviews[k].rescheduledTo # None
        PROVE  interviews[k].rescheduledTo \in Interviews
    BY <2>1 DEF IInv, ReschedulesAreLinked
  <2>2. \A k \in Interviews : interviews'[k] = interviews[k]
    BY <1>2, <1>5 DEF Interviews
  <2> QED
    <3>1. /\ row.panel # {} /\ row.panel \subseteq joined
          /\ row.status # "RESCHEDULED" /\ row.rescheduledTo = None
      BY <1>1, <1>4 DEF panel
    <3> QED
      BY <1>3, <1>5, <2>1, <2>2, <3>1 DEF IInv, ReschedulesAreLinked
<1>12. PanelActsOnce'
  BY <1>0, <1>3, <1>5 DEF IInv, PanelActsOnce, Interviews
<1> QED
  BY <1>0, <1>3, <1>5, <1>7, <1>10, <1>11, <1>12 DEF IInv, RowsInv

\* The new slot links back to the one that was read, which links to it from now on,
\* whichever slot it was moved to before.
LEMMA RescheduleInv ==
    ASSUME IInv, NEW r \in Request, RescheduleWrite(r)
    PROVE  IInv'
<1>0. /\ RowsInv /\ None \notin InterviewRow /\ None \notin Interview
      /\ \A i \in Interview \ Interviews, u \in Interviewer :
           notified[i][u] = 0 /\ evaluations[i][u] = 0
  BY InterviewAssumption, NobodyActs DEF IInv
<1>1. req[r].interview \in Interviews /\ req[r].panel = Panels[req[r].interview]
  BY Held DEF RescheduleWrite, At, HandlerHolds
<1>2. PICK old \in Interviews : old = req[r].interview
  BY <1>1
<1>3. /\ old \in Interview /\ interviews[old] \in InterviewRow
      /\ req[r].panel = interviews[old].panel
      /\ interviews[old].panel # {} /\ interviews[old].panel \subseteq joined
  BY <1>0, <1>1, <1>2 DEF RowsInv, Interviews, Panels, PanelOf, IInv, ReschedulesAreLinked
<1> DEFINE row == NewInterview(interviews[old].app, interviews[old].panel, old)
<1>4. PICK new \in Interview \ Interviews :
        interviews' = [interviews EXCEPT ![new] = row, ![old].status = "RESCHEDULED",
                                         ![old].rescheduledTo = new]
  BY <1>2, <1>3 DEF RescheduleWrite
<1> DEFINE moved == [interviews[old] EXCEPT !.status = "RESCHEDULED", !.rescheduledTo = new]
<1>5. /\ row \in InterviewRow /\ row.panel = interviews[old].panel /\ row.from = old
      /\ row.app = interviews[old].app /\ row.status = "SCHEDULED" /\ row.rescheduledTo = None
  BY <1>3 DEF NewInterview, InterviewRow
<1>6. /\ moved \in InterviewRow /\ moved.panel = interviews[old].panel
      /\ moved.app = interviews[old].app /\ moved.from = interviews[old].from
      /\ moved.status = "RESCHEDULED" /\ moved.rescheduledTo = new
  BY <1>3 DEF InterviewRow
<1>7. new # old
  BY <1>4
<1> HIDE DEF row
<1>8. /\ interviews' = [interviews EXCEPT ![new] = row, ![old] = moved]
  BY <1>0, <1>3, <1>4, <1>7 DEF RowsInv
<1> HIDE DEF moved
<1>9. /\ interviews' \in [Interview -> InterviewRow \cup {None}]
      /\ interviews'[new] = row /\ interviews'[old] = moved
      /\ \A k \in Interview \ {old, new} : interviews'[k] = interviews[k]
      /\ Interviews' = Interviews \cup {new}
  BY <1>0, <1>3, <1>5, <1>6, <1>7, <1>8 DEF RowsInv, Interviews
<1>10. \A k \in Interviews : /\ Panels'[k] = Panels[k]
                            /\ interviews'[k].from = interviews[k].from
                            /\ interviews'[k].app = interviews[k].app
                            /\ interviews'[k].panel = interviews[k].panel
  BY <1>0, <1>4, <1>6, <1>9 DEF Panels, PanelOf, Interviews
<1>11. Finish(r) /\ UNCHANGED <<evaluations, notified, members, joined>>
  BY DEF RescheduleWrite, membership
<1>12. /\ req'[r] = Done /\ \A q \in Request \ {r} : req'[q] = req[q]
       /\ req' = [q \in Request |-> req'[q]]
  BY <1>0, <1>11 DEF RowsInv, Goto, Finish
<1>13. HandlersInv'
  <2>1. HandlerHolds(Done, Interviews', Panels', notified', joined') /\ Done.pc # "notifyPanel"
    BY DEF Done, HandlerHolds
  <2>2. \A q \in Request : HandlerHolds(req'[q], Interviews', Panels', notified', joined')
    BY <1>9, <1>10, <1>11, <1>12, <2>1, OthersKeep
  <2> QED
    BY <1>12, <2>1, <2>2 DEF IInv, HandlersInv, At
<1>14. ReschedulesAreLinked'
  <2> SUFFICES ASSUME NEW k \in Interviews'
               PROVE  LET slot == interviews'[k]
                          next == slot.rescheduledTo
                      IN  /\ slot.panel # {} /\ slot.panel \subseteq joined
                          /\ slot.status = "RESCHEDULED" <=> next # None
                          /\ next # None =>
                               /\ next \in Interviews'
                               /\ interviews'[next].from = k
                               /\ interviews'[next].app = slot.app
                               /\ interviews'[next].panel = slot.panel
    BY <1>11 DEF ReschedulesAreLinked
  <2>1. CASE k = new
    BY <1>3, <1>5, <1>9, <2>1
  <2>2. CASE k = old
    BY <1>0, <1>3, <1>4, <1>5, <1>6, <1>9, <2>2
  <2>3. CASE k \in Interviews \ {old}
    <3>1. interviews'[k] = interviews[k]
      BY <1>4, <1>9, <2>3 DEF Interviews
    <3>2. /\ interviews[k].panel # {} /\ interviews[k].panel \subseteq joined
          /\ interviews[k].status = "RESCHEDULED" <=> interviews[k].rescheduledTo # None
          /\ interviews[k].rescheduledTo # None =>
               LET next == interviews[k].rescheduledTo
               IN  /\ next \in Interviews /\ interviews[next].from = k
                   /\ interviews[next].app = interviews[k].app
                   /\ interviews[next].panel = interviews[k].panel
      BY <2>3 DEF IInv, ReschedulesAreLinked
    <3> QED
      BY <1>9, <1>10, <3>1, <3>2
  <2> QED
    BY <1>9, <2>1, <2>2, <2>3
<1>15. PanelActsOnce'
  BY <1>0, <1>9, <1>10, <1>11 DEF IInv, PanelActsOnce
<1> QED
  BY <1>0, <1>9, <1>11, <1>12, <1>13, <1>14, <1>15 DEF IInv, RowsInv

-----------------------------------------------------------------------------
(* What panel members are told and submit. *)

\* Of those left to be told one is told, by the only request that tells this panel.
LEMMA NotifyInv ==
    ASSUME IInv, NEW r \in Request, NotifyInterviewer(r)
    PROVE  IInv'
<1>0. RowsInv
  BY DEF IInv
<1>1. /\ req[r] = [pc |-> "notifyPanel", interview |-> req[r].interview, rest |-> req[r].rest]
      /\ req[r].interview \in Interviews /\ req[r].rest \subseteq Panels[req[r].interview]
      /\ \A u \in req[r].rest : notified[req[r].interview][u] = 0
  BY Held DEF NotifyInterviewer, At, HandlerHolds
<1>2. PICK i \in Interviews : i = req[r].interview
  BY <1>1
<1> DEFINE rest == req[r].rest
<1>3. /\ i \in Interview /\ Panels[i] = interviews[i].panel /\ rest \subseteq Interviewer
      /\ rest \subseteq Panels[i] /\ \A u \in rest : notified[i][u] = 0
  BY <1>0, <1>1, <1>2 DEF RowsInv, Interviews, Panels, PanelOf, InterviewRow
<1>4. PICK u \in rest :
        /\ notified' = [notified EXCEPT ![i][u] = @ + 1]
        /\ Goto(r, IF rest = {u} THEN Done ELSE [req[r] EXCEPT !.rest = rest \ {u}])
  BY <1>2 DEF NotifyInterviewer
<1> DEFINE x == [pc |-> "notifyPanel", interview |-> i, rest |-> rest \ {u}]
<1>5. Goto(r, x) \/ Goto(r, Done)
  <2>1. [req[r] EXCEPT !.rest = rest \ {u}] = x
    BY <1>1, <1>2
  <2> QED
    BY <1>4, <2>1
<1> HIDE DEF rest
<1>6. UNCHANGED <<interviews, evaluations, members, joined>>
  BY DEF NotifyInterviewer, membership
<1>7. Interviews' = Interviews /\ Panels' = Panels
  BY <1>6 DEF Interviews, Panels, PanelOf
<1>8. /\ notified' \in [Interview -> [Interviewer -> Nat]]
      /\ notified'[i][u] = notified[i][u] + 1
      /\ \A k \in Interview, v \in Interviewer : k # i \/ v # u =>
           notified'[k][v] = notified[k][v]
  BY <1>0, <1>2, <1>3, <1>4 DEF RowsInv
<1>9. HandlerHolds(x, Interviews', Panels', notified', joined') /\ x.pc = "notifyPanel" /\ x.interview = i
  <2>1. \A v \in rest \ {u} : notified'[i][v] = 0
    BY <1>3, <1>8
  <2> QED
    BY <1>2, <1>3, <1>7, <2>1 DEF HandlerHolds
<1>10. HandlerHolds(Done, Interviews', Panels', notified', joined') /\ Done.pc # "notifyPanel"
  BY DEF Done, HandlerHolds
<1> HIDE DEF x
<1>11. PICK y \in {x, Done} : req'[r] = y
  BY <1>0, <1>5 DEF RowsInv, Goto
<1>12. /\ \A q \in Request \ {r} : req'[q] = req[q]
       /\ req' = [q \in Request |-> req'[q]]
  BY <1>0, <1>5 DEF RowsInv, Goto
<1>13. HandlersInv'
  <2>1. ASSUME NEW q \in Request \ {r}
        PROVE  HandlerHolds(req'[q], Interviews', Panels', notified', joined')
    <3>1. HandlerHolds(req[q], Interviews, Panels, notified, joined)
      BY Held
    <3>2. ASSUME req[q].pc = "notifyPanel"
          PROVE  /\ req[q].interview \in Interview /\ req[q].interview # i
                 /\ req[q].rest \subseteq Interviewer
      <4>1. req[q].interview # i
        BY <1>2, <3>2 DEF IInv, HandlersInv, At, NotifyInterviewer
      <4>2. req[q].interview \in Interviews /\ req[q].rest \subseteq Panels[req[q].interview]
        BY <3>1, <3>2 DEF HandlerHolds
      <4> QED
        BY <1>0, <4>1, <4>2 DEF RowsInv, Interviews, Panels, PanelOf, InterviewRow
    <3>3. req[q].pc = "notifyPanel" => \A v \in req[q].rest : notified'[req[q].interview][v] = 0
      BY <1>8, <3>1, <3>2 DEF HandlerHolds
    <3> QED
      BY <1>6, <1>7, <1>12, <3>1, <3>3 DEF HandlerHolds
  <2>2. \A p, q \in Request : p # q /\ At(p, "notifyPanel")' /\ At(q, "notifyPanel")' =>
          req'[p].interview # req'[q].interview
    BY <1>2, <1>9, <1>10, <1>11, <1>12 DEF IInv, HandlersInv, At, NotifyInterviewer
  <2> QED
    BY <1>9, <1>10, <1>11, <2>1, <2>2 DEF HandlersInv
<1>14. ReschedulesAreLinked'
  BY <1>6, <1>7 DEF IInv, ReschedulesAreLinked
<1>15. PanelActsOnce'
  <2> SUFFICES ASSUME NEW k \in Interview, NEW v \in Interviewer,
                      notified'[k][v] + evaluations[k][v] > 0
               PROVE  /\ k \in Interviews /\ v \in interviews[k].panel
                      /\ notified'[k][v] <= 1 /\ evaluations[k][v] <= 1
    BY <1>6, <1>7 DEF PanelActsOnce
  <2>1. CASE k = i /\ v = u
    <3>1. notified'[k][v] = 1 /\ evaluations[k][v] \in Nat /\ notified[k][v] = 0
      BY <1>0, <1>3, <1>8, <2>1 DEF RowsInv
    <3>2. evaluations[k][v] <= 1
      BY <3>1 DEF IInv, PanelActsOnce
    <3> QED
      BY <1>2, <1>3, <2>1, <3>1, <3>2
  <2>2. CASE k # i \/ v # u
    BY <1>8, <2>2 DEF IInv, PanelActsOnce
  <2> QED
    BY <2>1, <2>2
<1> QED
  BY <1>0, <1>6, <1>8, <1>12, <1>13, <1>14, <1>15 DEF IInv, RowsInv

\* The second evaluation of a panel member is refused.
LEMMA EvaluateInv ==
    ASSUME IInv, NEW r \in Request, EvaluateInsert(r)
    PROVE  IInv'
<1>0. RowsInv
  BY DEF IInv
<1> DEFINE i == req[r].interview
           u == req[r].interviewer
<1>1. i \in Interviews /\ u \in Panels[i]
  BY Held DEF EvaluateInsert, At, HandlerHolds
<1>2. /\ i \in Interview /\ u \in interviews[i].panel /\ u \in Interviewer
  BY <1>0, <1>1 DEF RowsInv, Interviews, Panels, PanelOf, InterviewRow
<1>3. /\ \/ evaluations[i][u] = 0 /\ evaluations' = [evaluations EXCEPT ![i][u] = @ + 1]
         \/ UNCHANGED evaluations
      /\ Finish(r) /\ UNCHANGED <<interviews, notified, members, joined>>
  BY <1>1 DEF EvaluateInsert, membership
<1> HIDE DEF i, u
<1>4. /\ Interviews' = Interviews /\ Panels' = Panels
  BY <1>3 DEF Interviews, Panels, PanelOf
<1>5. /\ evaluations' \in [Interview -> [Interviewer -> Nat]]
      /\ evaluations'[i][u] = evaluations[i][u] \/ evaluations'[i][u] = 1
      /\ \A k \in Interview, v \in Interviewer : k # i \/ v # u =>
           evaluations'[k][v] = evaluations[k][v]
  <2>1. CASE UNCHANGED evaluations
    BY <1>0, <2>1 DEF RowsInv
  <2>2. CASE evaluations[i][u] = 0 /\ evaluations' = [evaluations EXCEPT ![i][u] = @ + 1]
    BY <1>0, <1>2, <2>2 DEF RowsInv
  <2> QED
    BY <1>3, <2>1, <2>2
<1>6. /\ req'[r] = Done /\ \A q \in Request \ {r} : req'[q] = req[q]
      /\ req' = [q \in Request |-> req'[q]]
  BY <1>0, <1>3 DEF RowsInv, Goto, Finish
<1>7. HandlersInv'
  <2>1. HandlerHolds(Done, Interviews, Panels, notified, joined) /\ Done.pc # "notifyPanel"
    BY DEF Done, HandlerHolds
  <2> QED
    BY <1>3, <1>4, <1>6, <2>1 DEF IInv, HandlersInv, At
<1>8. ReschedulesAreLinked'
  BY <1>3, <1>4 DEF IInv, ReschedulesAreLinked
<1>9. PanelActsOnce'
  <2> SUFFICES ASSUME NEW k \in Interview, NEW v \in Interviewer,
                      notified[k][v] + evaluations'[k][v] > 0
               PROVE  /\ k \in Interviews /\ v \in interviews[k].panel
                      /\ notified[k][v] <= 1 /\ evaluations'[k][v] <= 1
    BY <1>3, <1>4 DEF PanelActsOnce
  <2>1. CASE k = i /\ v = u
    <3>1. notified[k][v] \in Nat /\ evaluations[k][v] \in Nat
      BY <1>0 DEF RowsInv
    <3>2. notified[k][v] <= 1 /\ evaluations[k][v] <= 1
      BY <3>1 DEF IInv, PanelActsOnce
    <3> QED
      BY <1>1, <1>2, <1>5, <2>1, <3>2
  <2>2. CASE k # i \/ v # u
    BY <1>5, <2>2 DEF IInv, PanelActsOnce
  <2> QED
    BY <2>1, <2>2
<1> QED
  BY <1>0, <1>3, <1>5, <1>6, <1>7, <1>8, <1>9 DEF IInv, RowsInv

-----------------------------------------------------------------------------
(* Who is a member while panels stand. *)

\* Whoever joins or is removed, nobody who was ever a member ceases to have been one:
\* panels stay, and those that were checked may still be inserted.
LEMMA MembershipInv ==
    ASSUME IInv, RoleInserted \/ RolesDeleted
    PROVE  IInv'
<1>1. UNCHANGED <<interviews, evaluations, notified, req>>
  BY DEF RoleInserted, RolesDeleted
<1>2. joined \subseteq joined' /\ members' \subseteq joined'
  BY DEF RoleInserted, RolesDeleted, IInv, RowsInv
<1>3. Interviews' = Interviews /\ Panels' = Panels
  BY <1>1 DEF Interviews, Panels, PanelOf
<1>4. \A r \in Request : HandlerHolds(req'[r], Interviews', Panels', notified', joined')
  BY <1>1, <1>2, <1>3, Held DEF HandlerHolds
<1>5. HandlersInv'
  BY <1>1, <1>4 DEF IInv, HandlersInv, At
<1>6. ReschedulesAreLinked'
  BY <1>1, <1>2, <1>3 DEF IInv, ReschedulesAreLinked
<1> QED
  BY <1>1, <1>2, <1>3, <1>5, <1>6 DEF IInv, RowsInv, PanelActsOnce

-----------------------------------------------------------------------------
\* There are no interviews at the start.
LEMMA InitIInv == Init => IInv
<1> SUFFICES ASSUME Init PROVE IInv
  OBVIOUS
<1>1. RowsInv
  BY DEF Init, RequestsInit, InterviewTablesInit, RowsInv
<1>2. Interviews = {}
  BY DEF Init, InterviewTablesInit, Interviews
<1>3. ReschedulesAreLinked /\ PanelActsOnce
  BY <1>2 DEF Init, InterviewTablesInit, ReschedulesAreLinked, PanelActsOnce
<1>4. HandlersInv
  BY OthersHold DEF Init, RequestsInit, Idle, HandlersInv, At, InterviewPcs
<1> QED
  BY <1>1, <1>3, <1>4 DEF IInv

\* Every step keeps the invariant.
LEMMA StepIInv == IInv /\ [Next]_vars => IInv'
<1> SUFFICES ASSUME IInv, [Next]_vars
             PROVE  IInv'
  OBVIOUS
<1>1. ASSUME NEW r \in Request, BeginInterview(r)
      PROVE  IInv'
  BY <1>1, InterviewReads
<1>2. ASSUME NEW r \in Request, ContinueInterview(r)
      PROVE  IInv'
  BY <1>2, InterviewReads, ScheduleInv, NotifyInv, RescheduleInv, EvaluateInv
  DEF ContinueInterview
<1>3. ASSUME NEW r \in Request, Fail(r)
      PROVE  IInv'
  BY <1>3, OthersHold, Reads DEF Fail, Fails, Lost, InterviewPcs
<1>4. CASE UNCHANGED vars
  BY <1>4 DEF vars, interviewTables, membership, IInv, RowsInv, ReschedulesAreLinked, PanelActsOnce,
              HandlersInv, At, Interviews, Panels, PanelOf
<1> QED
  BY <1>1, <1>2, <1>3, <1>4, ApplicationsInv, MembershipInv DEF Next, Quiescent

\* The inductive invariant holds in every reachable state.
THEOREM IInvHolds == Spec => []IInv
  BY InitIInv, StepIInv, PTL DEF Spec

\* For any number of slots and of requests that move one slot at a time: moved slots and
\* the slots they were moved to link to each other, with one application and panel,
\* and whoever joins or leaves meanwhile, all on a panel have been members.
THEOREM MovesAreLinked == Spec => []ReschedulesAreLinked
  BY IInvHolds, PTL DEF IInv

\* Whatever requests overlap or are cut off, only panel members are told of an interview
\* or evaluate it, each of them once at most.
THEOREM EachActsOnce == Spec => []PanelActsOnce
  BY IInvHolds, PTL DEF IInv
=============================================================================
