------------------------------- MODULE Office -------------------------------
(***************************************************************************)
(* The services of a school's office and staff room side by side:          *)
(* Timetable, Lessons (the syllabus, and the plans pinned to it),          *)
(* Gradebook (marks and report cards, and comments), RoleTemplates,        *)
(* Enrolment, Tickets and Devices.  They share no table that one of them   *)
(* relies on.                                                              *)
(***************************************************************************)
EXTENDS Timetable, Lessons, Gradebook, RoleTemplates, Enrolment, Tickets, Devices

timeVars == <<timetableVars, lessonVars>>
peopleVars == <<templateVars, enrolmentVars>>
contactVars == <<ticketVars, deviceVars>>
officeVars == <<timeVars, gradebookVars, peopleVars, contactVars>>

OfficeInit ==
    /\ TimetableInit
    /\ LessonInit
    /\ GradebookInit
    /\ TemplateInit
    /\ EnrolmentInit
    /\ TicketInit
    /\ DeviceInit

TimetableTurn == TimetableNext /\ UNCHANGED <<lessonVars, gradebookVars, peopleVars, contactVars>>
LessonTurn == LessonNext /\ UNCHANGED <<timetableVars, gradebookVars, peopleVars, contactVars>>
GradebookTurn == GradebookNext /\ UNCHANGED <<timeVars, peopleVars, contactVars>>
TemplateTurn == TemplateNext /\ UNCHANGED <<timeVars, gradebookVars, enrolmentVars, contactVars>>
EnrolmentTurn == EnrolmentNext /\ UNCHANGED <<timeVars, gradebookVars, templateVars, contactVars>>
TicketTurn == TicketNext /\ UNCHANGED <<timeVars, gradebookVars, peopleVars, deviceVars>>
DeviceTurn == DeviceNext /\ UNCHANGED <<timeVars, gradebookVars, peopleVars, ticketVars>>

OfficeNext ==
    \/ TimetableTurn
    \/ LessonTurn
    \/ GradebookTurn
    \/ TemplateTurn
    \/ EnrolmentTurn
    \/ TicketTurn
    \/ DeviceTurn

OfficeSpec == OfficeInit /\ [][OfficeNext]_officeVars

(* Rows and requests have their shape, and whatever a row points to exists. *)
OfficeTablesOK ==
    /\ TimetableTypeOK
    /\ LessonTypeOK
    /\ GradebookTypeOK
    /\ TemplateTypeOK
    /\ EnrolmentTypeOK
    /\ TicketTypeOK
    /\ DeviceTypeOK
==============================================================================
