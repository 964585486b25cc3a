---------------------------- MODULE ExamListing ----------------------------
(* What users are shown of exams and attempts: the public and the            *)
(* institution's listing, the access check behind a listed exam, and the     *)
(* history of one student's attempts.  The rules are written down several    *)
(* times, as query conditions and as code, and must mean the same.           *)
EXTENDS Naturals

CONSTANTS
  PublicExam, InstitutionExam,   \* personal_exams; one institution's exams
  User,
  Student,                       \* whose history is read
  Global,                        \* viewers with the role GLOBAL_ADMIN
  MaxTime

ListingAssumption ==
  /\ PublicExam \cap InstitutionExam = {} /\ Student \in User
  /\ Global \subseteq User /\ MaxTime \in Nat

VARIABLES
  clock,
  exam,        \* the rows
  active,      \* is the institution ACTIVE
  admins,      \* its administrators
  enrollment,  \* when an enrollment ends; 0 when there is none
  attempt,     \* the student's attempt at each exam
  page         \* the history being put together
vars == <<clock, exam, active, admins, enrollment, attempt, page>>

Exam == PublicExam \cup InstitutionExam
Time == 0..MaxTime
None == "none"
Forever == MaxTime + 1
Draft == [status |-> "DRAFT"]
NoPage == [at |-> None]

-----------------------------------------------------------------------------
(* The listings.                                                             *)
Visible(e) == exam[e].status \notin {"DRAFT", "CANCELLED"}

ScheduleWhere(e, status) ==
  CASE status = "SCHEDULED" -> exam[e].startsAt > clock /\ exam[e].closesAt > clock
    [] status = "RUNNING"   -> exam[e].startsAt <= clock /\ exam[e].closesAt > clock
    [] OTHER                -> exam[e].closesAt <= clock

Filter == {"SCHEDULED", "RUNNING", "COMPLETED"}

ListedPublic(e, filters) == e \in PublicExam /\ Visible(e) /\ \E s \in filters : ScheduleWhere(e, s)

DisplayStatus(e) ==
  IF exam[e].closesAt <= clock THEN "COMPLETED"
  ELSE IF exam[e].startsAt <= clock THEN "RUNNING" ELSE "SCHEDULED"

Enrolled(u) == enrollment[u] > clock

ListedToEnrolled(e, u) ==
  /\ e \in InstitutionExam /\ Enrolled(u)
  /\ Visible(e) /\ active /\ exam[e].closesAt > clock

(* authorize and authorizePractice.  They name the statuses they let in, the *)
(* listings those they hide; an exam with a schedule has the duration and    *)
(* the content that they ask for as well.                                    *)
InScope(e, u) == e \in InstitutionExam => active /\ Enrolled(u)

Authorize_UntilClosed(e, u, invited) ==
  /\ exam[e].status \in {"SCHEDULED", "RUNNING"} /\ clock <= exam[e].closesAt
  /\ InScope(e, u)
  /\ exam[e].accessMode = "INVITE_ONLY" => invited
Authorize(e, u, invited) ==
  /\ exam[e].status \in {"SCHEDULED", "RUNNING"} /\ clock < exam[e].closesAt
  /\ InScope(e, u)
  /\ exam[e].accessMode = "INVITE_ONLY" => invited

AuthorizePractice(e, u) ==
  /\ exam[e].status \in {"SCHEDULED", "RUNNING", "COMPLETED"} /\ clock >= exam[e].closesAt
  /\ InScope(e, u)

(* authorizeAccess: authorised, or told when to come back.                   *)
Enters(e, u, invited) == Authorize(e, u, invited) /\ clock >= exam[e].startsAt

-----------------------------------------------------------------------------
Init ==
  /\ clock = 0 /\ active = TRUE /\ admins = {}
  /\ exam = [e \in Exam |-> Draft]
  /\ enrollment = [u \in User |-> 0]
  /\ attempt = [e \in Exam |-> None]
  /\ page = NoPage

(* Exam authoring: an exam is scheduled, and rescheduled until it begins.    *)
Schedules(e, start, close, mode) ==
  /\ exam[e] # Draft => clock < exam[e].startsAt /\ clock < start
  /\ start < close
  /\ exam' = [exam EXCEPT ![e] =
       [status |-> "SCHEDULED", startsAt |-> start, closesAt |-> close, accessMode |-> mode]]
  /\ UNCHANGED <<clock, active, admins, enrollment, attempt, page>>

(* Institutions: status, administrators, and the student's enrollment.       *)
InstitutionChanges(u) ==
  /\ \/ active' = ~active /\ UNCHANGED <<admins, enrollment>>
     \/ /\ u # Student
        /\ admins' = IF u \in admins THEN admins \ {u} ELSE admins \cup {u}
        /\ UNCHANGED <<active, enrollment>>
     \/ /\ u = Student
        /\ \E until \in {clock + 1, Forever} : enrollment' = [enrollment EXCEPT ![u] = until]
        /\ UNCHANGED <<active, admins>>
  /\ UNCHANGED <<clock, exam, attempt, page>>

(* Live exam: an attempt is started, and graded in one transaction.          *)
Starts(e) ==
  /\ attempt[e] = None /\ Enters(e, Student, TRUE)
  /\ attempt' = [attempt EXCEPT ![e] = "started"]
  /\ UNCHANGED <<clock, exam, active, admins, enrollment, page>>

Grades(e) ==
  /\ attempt[e] = "started"
  /\ attempt' = [attempt EXCEPT ![e] = "graded"]
  /\ UNCHANGED <<clock, exam, active, admins, enrollment, page>>

(* findHistory: who the viewer is, the attempts with their results, and then *)
(* the answers of those whose answers the viewer may read.                   *)
FullAccess(v) == v = Student \/ v \in Global

HistoryAccess(v) ==
  /\ page = NoPage
  /\ page' = [at |-> "rows", viewer |-> v, administers |-> ~FullAccess(v) /\ active /\ v \in admins]
  /\ UNCHANGED <<clock, exam, active, admins, enrollment, attempt>>

Found(e) ==
  attempt[e] # None /\ (e \in PublicExam \/ FullAccess(page.viewer) \/ page.administers)

HistoryRows ==
  /\ page.at = "rows"
  /\ page' = [at |-> "answers", viewer |-> page.viewer, administers |-> page.administers,
              result |-> [e \in {x \in Exam : Found(x)} |-> attempt[e] = "graded"]]
  /\ UNCHANGED <<clock, exam, active, admins, enrollment, attempt>>

CanReadAnswers(e) ==
  /\ e \in DOMAIN page.result
  /\ FullAccess(page.viewer) \/ (e \in InstitutionExam /\ page.administers)

(* What a history item shows: the result, and the marks of the answers.      *)
Item_AnswersFirst(e) == [result |-> attempt[e] = "graded", marks |-> page.result[e]]
Item(e) == [result |-> page.result[e], marks |-> attempt[e] = "graded"]

HistoryAnswers ==
  /\ page.at = "answers"
  /\ page' = [at |-> "sent", viewer |-> page.viewer,
              items |-> [e \in {x \in Exam : CanReadAnswers(x)} |-> Item(e)]]
  /\ UNCHANGED <<clock, exam, active, admins, enrollment, attempt>>

HistoryEnds ==
  /\ page.at = "sent"
  /\ page' = NoPage
  /\ UNCHANGED <<clock, exam, active, admins, enrollment, attempt>>

ClockTicks ==
  /\ clock < MaxTime /\ clock' = clock + 1
  /\ UNCHANGED <<exam, active, admins, enrollment, attempt, page>>

Next ==
  \/ \E e \in Exam :
       \/ Starts(e) \/ Grades(e)
       \/ \E start, close \in Time, mode \in {"OPEN", "INVITE_ONLY"} : Schedules(e, start, close, mode)
  \/ \E u \in User : InstitutionChanges(u) \/ HistoryAccess(u)
  \/ HistoryRows \/ HistoryAnswers \/ HistoryEnds \/ ClockTicks

Spec == Init /\ [][Next]_vars
-----------------------------------------------------------------------------
Row ==
  {Draft} \cup [status : {"SCHEDULED"}, startsAt : Time, closesAt : Time,
                accessMode : {"OPEN", "INVITE_ONLY"}]

(* Exams, enrollments and attempts are well-formed.                          *)
TypeOK ==
  /\ clock \in Time /\ active \in BOOLEAN /\ admins \subseteq User
  /\ exam \in [Exam -> Row]
  /\ enrollment \in [User -> 0..Forever]
  /\ attempt \in [Exam -> {None, "started", "graded"}]
  /\ page.at \in {None, "rows", "answers", "sent"}

(* The query that filters a listing by status and the status shown with each *)
(* exam agree at every moment, the boundaries included: each listed exam is  *)
(* found under exactly the status it shows.                                  *)
FiltersAgree ==
  \A e \in PublicExam, s \in Filter :
    ListedPublic(e, {s}) <=> ListedPublic(e, Filter) /\ DisplayStatus(e) = s

(* The listings keep their word: who finds an exam running is let in (with   *)
(* an invitation, if it asks for one), who finds it scheduled is not yet,    *)
(* and who finds it completed may practise.                                  *)
ListedUsable ==
  \A e \in Exam, u \in User :
    ListedPublic(e, Filter) \/ ListedToEnrolled(e, u) =>
      /\ DisplayStatus(e) = "RUNNING" <=> Enters(e, u, TRUE)
      /\ DisplayStatus(e) = "COMPLETED" <=> AuthorizePractice(e, u)

(* A history never shows a result without the marks it was made from,        *)
(* although an attempt may be graded between the queries.                    *)
ResultHasMarks ==
  page.at = "sent" => \A e \in DOMAIN page.items : page.items[e].result => page.items[e].marks

(* No one reads the answers of another's public attempt, unless the platform *)
(* made them its administrator.                                              *)
AnswersPrivate ==
  page.at = "sent" /\ page.viewer \notin Global \cup {Student}
    => DOMAIN page.items \subseteq InstitutionExam

-----------------------------------------------------------------------------
(* The inductive invariant: a result that a page found is still there when   *)
(* its answers are read.                                                     *)
ResultsStand ==
  page.at = "answers" =>
    /\ DOMAIN page.result \subseteq Exam
    /\ \A e \in DOMAIN page.result : page.result[e] => attempt[e] = "graded"

Inv == TypeOK /\ ResultsStand /\ ResultHasMarks /\ AnswersPrivate
=============================================================================
