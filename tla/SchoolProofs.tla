---------------------------- MODULE SchoolProofs ----------------------------
(***************************************************************************)
(* Proofs about leave and quizzes, for any number of staff, students, rows *)
(* and requests under way, any ranges of days and any allowance.           *)
(***************************************************************************)
EXTENDS School, Counting

(***************************************************************************)
(* Leave.                                                                  *)
(***************************************************************************)
(* What has been filed is finite and covers a working day; so does what is *)
(* about to be, and it is within the allowance of a year.                  *)
Filed == {l \in LeaveRequests : leave[l] # NoLeave}

LeaveShape ==
  /\ LeaveTypeOK
  /\ IsFiniteSet(Filed)
  /\ \A f \in Filers : filer[f] # NoFiling =>
       /\ filer[f] \in Filings
       /\ WorkingDays(filer[f].first, filer[f].last) # {}
       /\ Cardinality(WorkingDays(filer[f].first, filer[f].last)) <= Allowance

LEMMA LeaveFacts ==
  ASSUME LeaveTypeOK
  PROVE  /\ \A l \in LeaveRequests :
              /\ leave[l] # NoLeave <=> leave[l] \in LeaveRows
              /\ leave[l] = NoLeave <=> leave[l].status = "NONE"
         /\ NoFiling \notin Filings
<1>1. NoLeave.status = "NONE"
  BY DEF NoLeave
<1>2. \A x \in LeaveRows : x.status \in LeaveStatuses
  BY DEF LeaveRows
<1>3. NoFiling.step = "idle" /\ \A x \in Filings : x.step = "allowed"
  BY DEF NoFiling, Filings
<1> QED
  BY <1>1, <1>2, <1>3 DEF LeaveTypeOK, LeaveStatuses

LEMMA WorkingDaysFinite ==
  ASSUME NEW first \in Nat, NEW last \in Nat
  PROVE  /\ IsFiniteSet(WorkingDays(first, last)) /\ WorkingDays(first, last) \subseteq Nat
         /\ Cardinality(WorkingDays(first, last)) \in Nat
         /\ WorkingDays(first, last) # {} => Cardinality(WorkingDays(first, last)) > 0
<1>1. IsFiniteSet(first..last)
  BY FS_Interval
<1>2. WorkingDays(first, last) \subseteq first..last /\ first..last \subseteq Nat
  BY DEF WorkingDays
<1>3. IsFiniteSet(WorkingDays(first, last))
  BY <1>1, <1>2, FS_Subset
<1>4. Cardinality(WorkingDays(first, last)) \in Nat
  BY <1>3, FS_CardinalityType
<1> QED
  BY <1>2, <1>3, <1>4, FS_EmptySet

(* The days that some of the rows cover, once for each row.                *)
DaysOver(S, row) == UNION {{i} \X WorkingDays(row[i].first, row[i].last) : i \in S}

LEMMA DaysOverMembers ==
  ASSUME NEW S, NEW row
  PROVE  \A e : e \in DaysOver(S, row) <=>
           \E i \in S : e \in {i} \X WorkingDays(row[i].first, row[i].last)
BY DEF DaysOver

LEMMA DaysOverFinite ==
  ASSUME NEW S, IsFiniteSet(S), NEW row,
         \A i \in S : row[i].first \in Nat /\ row[i].last \in Nat
  PROVE  IsFiniteSet(DaysOver(S, row)) /\ Cardinality(DaysOver(S, row)) \in Nat
<1> DEFINE days == [i \in S |-> {i} \X WorkingDays(row[i].first, row[i].last)]
<1>1. \A i \in S : IsFiniteSet(days[i])
  <2> SUFFICES ASSUME NEW i \in S
               PROVE  IsFiniteSet({i} \X WorkingDays(row[i].first, row[i].last))
    OBVIOUS
  <2>1. IsFiniteSet({i}) /\ IsFiniteSet(WorkingDays(row[i].first, row[i].last))
    BY FS_Singleton, WorkingDaysFinite
  <2> QED
    BY <2>1, FS_Product
<1>2. DaysOver(S, row) = UNION {days[i] : i \in S}
  BY DEF DaysOver
<1>3. DOMAIN days = S
  OBVIOUS
<1> HIDE DEF days
<1>4. IsFiniteSet({days[i] : i \in S})
  BY <1>3, ImageFinite
<1>5. IsFiniteSet(UNION {days[i] : i \in S})
  BY <1>1, <1>4, FS_UNION
<1> QED
  BY <1>2, <1>5, FS_CardinalityType

(* Fewer rows of the same days cover fewer days. *)
LEMMA DaysOverFewer ==
  ASSUME NEW S, NEW T, S \subseteq T, NEW row, NEW old, IsFiniteSet(DaysOver(T, old)),
         \A i \in S : row[i].first = old[i].first /\ row[i].last = old[i].last
  PROVE  /\ DaysOver(S, row) \subseteq DaysOver(T, old)
         /\ Cardinality(DaysOver(S, row)) \in Nat /\ Cardinality(DaysOver(T, old)) \in Nat
         /\ Cardinality(DaysOver(S, row)) <= Cardinality(DaysOver(T, old))
<1>1. DaysOver(S, row) \subseteq DaysOver(T, old)
  BY DaysOverMembers
<1> QED
  BY <1>1, FS_Subset, FS_CardinalityType

LEMMA OneRow ==
  ASSUME NEW i, NEW first \in Nat, NEW last \in Nat
  PROVE  /\ IsFiniteSet({i} \X WorkingDays(first, last))
         /\ Cardinality({i} \X WorkingDays(first, last)) = Cardinality(WorkingDays(first, last))
         /\ Cardinality(WorkingDays(first, last)) \in Nat
<1> DEFINE W == WorkingDays(first, last)
<1>1. IsFiniteSet(W) /\ Cardinality(W) \in Nat
  BY WorkingDaysFinite
<1> HIDE DEF W
<1>2. IsFiniteSet({i}) /\ Cardinality({i}) = 1
  BY FS_Singleton
<1>3. IsFiniteSet({i} \X W) /\ Cardinality({i} \X W) = Cardinality({i}) * Cardinality(W)
  BY <1>1, <1>2, FS_Product
<1>4. IsFiniteSet({i} \X W) /\ Cardinality({i} \X W) = Cardinality(W) /\ Cardinality(W) \in Nat
  BY <1>1, <1>2, <1>3
<1> QED
  BY <1>4 DEF W

(* One row more covers at most its own days more. *)
LEMMA DaysOverOneMore ==
  ASSUME NEW S, NEW row, NEW old, IsFiniteSet(DaysOver(S, old)), NEW i,
         row[i].first \in Nat, row[i].last \in Nat,
         \A j \in S : j # i => row[j].first = old[j].first /\ row[j].last = old[j].last
  PROVE  /\ IsFiniteSet(DaysOver(S \cup {i}, row))
         /\ Cardinality(DaysOver(S \cup {i}, row)) \in Nat
         /\ Cardinality(DaysOver(S, old)) \in Nat
         /\ Cardinality(DaysOver(S \cup {i}, row)) <=
              Cardinality(DaysOver(S, old)) + Cardinality(WorkingDays(row[i].first, row[i].last))
<1> DEFINE D == DaysOver(S, old)
           E == {i} \X WorkingDays(row[i].first, row[i].last)
<1>1. DaysOver(S \cup {i}, row) \subseteq D \cup E
  <2> SUFFICES ASSUME NEW j \in S \cup {i},
                      NEW e \in {j} \X WorkingDays(row[j].first, row[j].last)
               PROVE  e \in D \cup E
    BY DaysOverMembers
  <2>1. CASE j = i
    BY <2>1
  <2>2. CASE j # i
    BY <2>2, DaysOverMembers
  <2> QED
    BY <2>1, <2>2
<1>2. /\ IsFiniteSet(D) /\ IsFiniteSet(E) /\ Cardinality(D) \in Nat
      /\ Cardinality(E) = Cardinality(WorkingDays(row[i].first, row[i].last))
      /\ Cardinality(E) \in Nat
  <2>1. IsFiniteSet(D) /\ Cardinality(D) \in Nat
    BY FS_CardinalityType
  <2>2. /\ IsFiniteSet(E) /\ Cardinality(E) \in Nat
        /\ Cardinality(E) = Cardinality(WorkingDays(row[i].first, row[i].last))
    BY OneRow
  <2> QED
    BY <2>1, <2>2
<1> HIDE DEF D, E
<1>3. /\ IsFiniteSet(D \cup E)
      /\ Cardinality(D \cup E) = Cardinality(D) + Cardinality(E) - Cardinality(D \cap E)
  BY <1>2, FS_Union
<1>4. Cardinality(D \cap E) \in Nat
  BY <1>2, FS_Intersection, FS_CardinalityType
<1>5. /\ IsFiniteSet(DaysOver(S \cup {i}, row))
      /\ Cardinality(DaysOver(S \cup {i}, row)) \in Nat
      /\ Cardinality(DaysOver(S \cup {i}, row)) <= Cardinality(D \cup E)
      /\ Cardinality(D \cup E) \in Nat
  BY <1>1, <1>3, FS_Subset, FS_CardinalityType
<1>6. Cardinality(DaysOver(S \cup {i}, row)) <= Cardinality(D) + Cardinality(E)
  BY <1>2, <1>3, <1>4, <1>5
<1> QED
  BY <1>2, <1>5, <1>6 DEF D

(* One row fewer covers its own days fewer. *)
LEMMA DaysOverOneLess ==
  ASSUME NEW S, NEW i \in S, NEW row, NEW old, IsFiniteSet(DaysOver(S, old)),
         old[i].first \in Nat, old[i].last \in Nat,
         \A j \in S : j # i => row[j].first = old[j].first /\ row[j].last = old[j].last
  PROVE  /\ Cardinality(DaysOver(S \ {i}, row)) \in Nat
         /\ Cardinality(DaysOver(S, old)) \in Nat
         /\ Cardinality(DaysOver(S \ {i}, row)) +
              Cardinality(WorkingDays(old[i].first, old[i].last)) <= Cardinality(DaysOver(S, old))
<1> DEFINE D == DaysOver(S, old)
           E == {i} \X WorkingDays(old[i].first, old[i].last)
<1>1. E \subseteq D
  BY DaysOverMembers
<1>2. DaysOver(S \ {i}, row) \subseteq D \ E
  <2> SUFFICES ASSUME NEW j \in S \ {i}, NEW e \in {j} \X WorkingDays(row[j].first, row[j].last)
               PROVE  e \in D \ E
    BY DaysOverMembers
  <2>1. e \in {j} \X WorkingDays(old[j].first, old[j].last)
    OBVIOUS
  <2> QED
    BY <2>1, DaysOverMembers
<1>3. /\ IsFiniteSet(D) /\ Cardinality(D) \in Nat
      /\ Cardinality(E) = Cardinality(WorkingDays(old[i].first, old[i].last))
      /\ Cardinality(E) \in Nat
  <2>1. IsFiniteSet(D) /\ Cardinality(D) \in Nat
    BY FS_CardinalityType
  <2>2. /\ IsFiniteSet(E) /\ Cardinality(E) \in Nat
        /\ Cardinality(E) = Cardinality(WorkingDays(old[i].first, old[i].last))
    <3> DEFINE first == old[i].first
               last == old[i].last
    <3>1. first \in Nat /\ last \in Nat
      OBVIOUS
    <3>2. E = {i} \X WorkingDays(first, last)
      OBVIOUS
    <3> HIDE DEF first, last, D, E
    <3>3. /\ IsFiniteSet(E) /\ Cardinality(E) \in Nat
          /\ Cardinality(E) = Cardinality(WorkingDays(first, last))
      BY <3>1, <3>2, OneRow
    <3> QED
      BY <3>3 DEF first, last
  <2> QED
    BY <2>1, <2>2
<1> HIDE DEF D, E
<1>4. D \cap E = E
  BY <1>1
<1>5. IsFiniteSet(D \ E) /\ Cardinality(D \ E) = Cardinality(D) - Cardinality(E)
  <2>1. IsFiniteSet(D \ E) /\ Cardinality(D \ E) = Cardinality(D) - Cardinality(D \cap E)
    BY <1>3, FS_Difference
  <2> QED
    BY <1>4, <2>1
<1>6. /\ Cardinality(DaysOver(S \ {i}, row)) \in Nat
      /\ Cardinality(DaysOver(S \ {i}, row)) <= Cardinality(D \ E)
  BY <1>2, <1>5, FS_Subset, FS_CardinalityType
<1>7. Cardinality(DaysOver(S \ {i}, row)) + Cardinality(E) <= Cardinality(D)
  BY <1>3, <1>5, <1>6
<1> QED
  BY <1>3, <1>6, <1>7 DEF D

(* What the balance counts is finite. *)
LEMMA LeaveDaysFinite ==
  ASSUME LeaveShape, NEW s \in Staff
  PROVE  /\ DaysOff(s) = DaysOver(Counting(s), leave)
         /\ IsFiniteSet(DaysOff(s)) /\ DaysUsed(s) \in Nat
<1>1. \A l \in LeaveRequests : /\ leave[l] # NoLeave <=> leave[l] \in LeaveRows
                               /\ leave[l] = NoLeave <=> leave[l].status = "NONE"
  BY LeaveFacts DEF LeaveShape
<1>2. Counting(s) \subseteq Filed
  BY <1>1 DEF Counting, OfStaff, Filed
<1>3. IsFiniteSet(Counting(s))
  BY <1>2, FS_Subset DEF LeaveShape
<1>4. \A l \in Counting(s) : leave[l].first \in Nat /\ leave[l].last \in Nat
  BY <1>1 DEF Counting, OfStaff, LeaveRows
<1>5. DaysOff(s) = DaysOver(Counting(s), leave)
  BY DEF DaysOff, DaysOver
<1> QED
  BY <1>3, <1>4, <1>5, DaysOverFinite DEF DaysUsed

(* What a decision and a withdrawal make of a row. *)
LEMMA DecidedRow ==
  ASSUME LeaveTypeOK, NEW l \in LeaveRequests
  PROVE  /\ \A status \in {"APPROVED", "REJECTED"} : Review(l, status) =>
              /\ leave[l] \in LeaveRows
              /\ \E revived \in BOOLEAN :
                   /\ leave' = [leave EXCEPT ![l] =
                        [leave[l] EXCEPT !.status = status, !.revived = revived]]
                   /\ leave[l].revived => revived
                   /\ status = "APPROVED" /\ leave[l].status \in {"REJECTED", "CANCELLED"}
                        => revived
         /\ Cancel(l) =>
              /\ leave[l] \in LeaveRows
              /\ leave' = [leave EXCEPT ![l] =
                   [leave[l] EXCEPT !.status = "CANCELLED", !.revived = leave[l].revived]]
<1>1. l \in toReview \cup toCancel => leave[l] \in LeaveRows
  BY LeaveFacts DEF LeaveTypeOK
<1>2. \A x \in LeaveRows : x.revived \in BOOLEAN
  BY DEF LeaveRows
<1>3. ASSUME NEW status \in {"APPROVED", "REJECTED"}, Review(l, status)
      PROVE  \E revived \in BOOLEAN :
               /\ leave' = [leave EXCEPT ![l] =
                    [leave[l] EXCEPT !.status = status, !.revived = revived]]
               /\ leave[l].revived => revived
               /\ status = "APPROVED" /\ leave[l].status \in {"REJECTED", "CANCELLED"}
                    => revived
  <2> DEFINE revived == leave[l].revived \/ (status = "APPROVED"
                          /\ leave[l].status \in {"REJECTED", "CANCELLED"})
  <2>1. revived \in BOOLEAN
    OBVIOUS
  <2>2. leave' = [leave EXCEPT ![l] =
          [leave[l] EXCEPT !.status = status, !.revived = revived]]
    BY <1>3, <1>1 DEF Review, LeaveTypeOK, LeaveRows
  <2> QED
    BY <2>1, <2>2
<1>4. ASSUME Cancel(l)
      PROVE  leave' = [leave EXCEPT ![l] =
               [leave[l] EXCEPT !.status = "CANCELLED", !.revived = leave[l].revived]]
  BY <1>4, <1>1 DEF Cancel, LeaveTypeOK, LeaveRows
<1> QED
  BY <1>1, <1>3, <1>4 DEF Review, Cancel

LEMMA LeaveShapeStep == LeaveShape /\ [LeaveNext]_leaveVars => LeaveShape'
<1> SUFFICES ASSUME LeaveShape, [LeaveNext]_leaveVars
             PROVE  LeaveShape'
  OBVIOUS
<1>t. LeaveTypeOK
  BY DEF LeaveShape
<1>f. /\ \A l \in LeaveRequests :
           /\ leave[l] # NoLeave <=> leave[l] \in LeaveRows
           /\ leave[l] = NoLeave <=> leave[l].status = "NONE"
      /\ NoFiling \notin Filings
  BY <1>t, LeaveFacts
<1>1. ASSUME NEW f \in Filers, NEW s \in Staff, NEW x \in Ranges, CheckBalance(f, s, x)
      PROVE  LeaveShape'
  <2> DEFINE w == [step |-> "allowed", who |-> s, first |-> x[1], last |-> x[2],
                   asked |-> yearStart]
  <2>1. w \in Filings /\ WorkingDays(w.first, w.last) # {}
    BY <1>1, <1>t, LeaveDaysAssumption DEF CheckBalance, HasWorkingDays, Filings, LeaveTypeOK
  <2>2. Cardinality(WorkingDays(w.first, w.last)) <= Allowance
    <3>1. Cardinality(WorkingDays(x[1], x[2])) \in Nat
      BY WorkingDaysFinite, LeaveDaysAssumption
    <3>2. Cardinality(WorkingDays(x[1], x[2])) <= Remaining(s)
      BY <1>1 DEF CheckBalance
    <3>3. CASE DaysUsed(s) > Allowance
      BY <3>1, <3>2, <3>3, AllowanceAssumption DEF Remaining
    <3>4. CASE ~ (DaysUsed(s) > Allowance)
      <4>1. DaysUsed(s) \in Nat
        BY LeaveDaysFinite
      <4> QED
        BY <3>1, <3>2, <3>4, <4>1, AllowanceAssumption DEF Remaining
    <3> QED
      BY <3>3, <3>4
  <2>3. filer' = [filer EXCEPT ![f] = w] /\ UNCHANGED <<leave, yearStart, toReview, toCancel>>
    BY <1>1 DEF CheckBalance
  <2>4. crowded' \subseteq Staff
    BY <1>1, <1>t DEF CheckBalance, LeaveTypeOK
  <2> HIDE DEF w
  <2>5. Filed' = Filed
    BY <2>3 DEF Filed
  <2> QED
    BY <2>1, <2>2, <2>3, <2>4, <2>5 DEF LeaveShape, LeaveTypeOK
<1>2. ASSUME NEW f \in Filers, NEW l \in LeaveRequests, File(f, l)
      PROVE  LeaveShape'
  <2> DEFINE w == [status |-> "PENDING", who |-> filer[f].who, first |-> filer[f].first,
                   last |-> filer[f].last, asked |-> filer[f].asked, revived |-> FALSE]
  <2>1. filer[f] \in Filings /\ WorkingDays(filer[f].first, filer[f].last) # {}
    BY <1>2 DEF File, LeaveShape
  <2>2. w \in LeaveRows /\ w # NoLeave
        /\ w.first = filer[f].first /\ w.last = filer[f].last
    <3>1. w \in LeaveRows
      BY <2>1 DEF Filings, LeaveRows, LeaveStatuses
    <3>2. w.status = "PENDING" /\ NoLeave.status = "NONE"
      BY DEF NoLeave
    <3> QED
      BY <3>1, <3>2
  <2>3. /\ leave' = [leave EXCEPT ![l] = w] /\ filer' = [filer EXCEPT ![f] = NoFiling]
        /\ UNCHANGED <<yearStart, toReview, toCancel, crowded>>
    BY <1>2 DEF File
  <2> HIDE DEF w
  <2>4. Filed' = Filed \cup {l}
    BY <1>t, <2>2, <2>3 DEF Filed, LeaveTypeOK
  <2>5. IsFiniteSet(Filed')
    BY <2>4, FS_AddElement DEF LeaveShape
  <2> QED
    BY <2>1, <2>2, <2>3, <2>5 DEF LeaveShape, LeaveTypeOK
<1>3. ASSUME NEW f \in Filers, DropFiling(f)
      PROVE  LeaveShape'
  BY <1>3 DEF DropFiling, LeaveShape, LeaveTypeOK, Filed
<1>4. ASSUME NEW l \in LeaveRequests, CheckToReview(l) \/ CheckToCancel(l)
      PROVE  LeaveShape'
  <2>1. leave[l] # NoLeave
    BY <1>4, <1>f DEF CheckToReview, CheckToCancel
  <2> QED
    BY <1>4, <2>1 DEF CheckToReview, CheckToCancel, LeaveShape, LeaveTypeOK, Filed
<1>5. ASSUME NEW l \in LeaveRequests, NEW status \in LeaveStatuses, NEW revived \in BOOLEAN,
             leave[l] # NoLeave,
             leave' = [leave EXCEPT ![l] =
               [leave[l] EXCEPT !.status = status, !.revived = revived]],
             UNCHANGED <<yearStart, filer, toReview, toCancel, crowded>>
      PROVE  LeaveShape'
  <2>1. leave[l] \in LeaveRows
    BY <1>5, <1>f
  <2>2. /\ leave'[l] \in LeaveRows
        /\ leave'[l].first = leave[l].first /\ leave'[l].last = leave[l].last
    BY <1>t, <1>5, <2>1 DEF LeaveTypeOK, LeaveRows
  <2>3. leave'[l] # NoLeave
    <3>1. leave'[l].status \in LeaveStatuses /\ NoLeave.status = "NONE"
      BY <2>2 DEF LeaveRows, NoLeave
    <3> QED
      BY <3>1 DEF LeaveStatuses
  <2>4. \A k \in LeaveRequests : k # l => leave'[k] = leave[k]
    BY <1>t, <1>5 DEF LeaveTypeOK
  <2>5. leave' \in [LeaveRequests -> LeaveRows \cup {NoLeave}]
    BY <1>t, <1>5, <2>2, <2>4 DEF LeaveTypeOK
  <2>6. \A k \in LeaveRequests : leave'[k] # NoLeave =>
          WorkingDays(leave'[k].first, leave'[k].last) # {}
    BY <1>t, <1>5, <2>2, <2>4 DEF LeaveTypeOK
  <2>7. \A k \in toReview' \cup toCancel' : k \in LeaveRequests /\ leave'[k] # NoLeave
    BY <1>t, <1>5, <2>3, <2>4 DEF LeaveTypeOK
  <2>8. Filed' = Filed
    BY <1>5, <2>3, <2>4 DEF Filed
  <2> QED
    BY <1>t, <1>5, <2>5, <2>6, <2>7, <2>8 DEF LeaveShape, LeaveTypeOK
<1>6. ASSUME NEW l \in LeaveRequests, NEW status \in {"APPROVED", "REJECTED"}, Review(l, status)
      PROVE  LeaveShape'
  <2>1. leave[l] # NoLeave /\ status \in LeaveStatuses
    BY <1>t, <1>f, <1>6, DecidedRow DEF LeaveStatuses
  <2>2. UNCHANGED <<yearStart, filer, toReview, toCancel, crowded>>
    BY <1>6 DEF Review
  <2>3. PICK revived \in BOOLEAN : leave' = [leave EXCEPT ![l] =
          [leave[l] EXCEPT !.status = status, !.revived = revived]]
    BY <1>t, <1>6, DecidedRow
  <2> QED
    BY <1>5, <2>1, <2>2, <2>3
<1>7. ASSUME NEW l \in LeaveRequests, Cancel(l)
      PROVE  LeaveShape'
  <2>1. leave[l] # NoLeave /\ "CANCELLED" \in LeaveStatuses /\ leave[l].revived \in BOOLEAN
    BY <1>t, <1>f, <1>7, DecidedRow DEF LeaveStatuses, LeaveRows
  <2>2. UNCHANGED <<yearStart, filer, toReview, toCancel, crowded>>
    BY <1>7 DEF Cancel
  <2> QED
    BY <1>5, <1>t, <1>7, <2>1, <2>2, DecidedRow
<1>8. CASE NewYear
  BY <1>8 DEF NewYear, LeaveShape, LeaveTypeOK, Filed
<1>9. CASE UNCHANGED leaveVars
  BY <1>9 DEF leaveVars, LeaveShape, LeaveTypeOK, Filed
<1> QED
  BY <1>1, <1>2, <1>3, <1>4, <1>6, <1>7, <1>8, <1>9 DEF LeaveNext

LEMMA LeaveShapeHolds == LeaveSpec => []LeaveShape
<1>1. LeaveInit => LeaveShape
  <2> SUFFICES ASSUME LeaveInit
               PROVE  LeaveShape
    OBVIOUS
  <2>1. Filed = {}
    BY DEF LeaveInit, Filed
  <2> QED
    BY <2>1, FS_EmptySet DEF LeaveInit, LeaveShape, LeaveTypeOK, NoLeave
<1> QED
  BY <1>1, LeaveShapeStep, PTL DEF LeaveSpec

(* Rows of leave keep their shape and cover a working day.                 *)
THEOREM LeaveTypeCorrect == LeaveSpec => []LeaveTypeOK
<1>1. LeaveShape => LeaveTypeOK
  BY DEF LeaveShape
<1> QED
  BY <1>1, LeaveShapeHolds, PTL

(* What is granted or waits and what is about to be filed are together     *)
(* within the limit; of staff whose filings have not overlapped no two are *)
(* under way.                                                              *)
Years == {0, NewYearsDay}
Underway(s) == {f \in Filers : filer[f] # NoFiling /\ filer[f].who = s}
Sought(s, year) ==
  {f \in Underway(s) : AskedInTime(filer[f]) /\ YearOf(filer[f].first) = year}
DaysSought(s, year) == DaysOver(Sought(s, year), filer)
Fits(s) ==
  /\ \A year \in Years :
       Cardinality(DaysHeld(s, year)) + Cardinality(DaysSought(s, year)) <= Limit(s)
  /\ s \notin crowded => \A f, o \in Underway(s) : f = o
LeaveInv == \A s \in Staff : Fits(s)

LEMMA LeaveSetsFinite ==
  ASSUME LeaveShape, NEW s \in Staff, NEW year \in Years
  PROVE  /\ DaysHeld(s, year) = DaysOver(HeldIn(s, year), leave)
         /\ IsFiniteSet(DaysHeld(s, year)) /\ Cardinality(DaysHeld(s, year)) \in Nat
         /\ IsFiniteSet(DaysSought(s, year)) /\ Cardinality(DaysSought(s, year)) \in Nat
         /\ Limit(s) \in Nat /\ Cardinality(Filers) \in Nat
<1>1. \A l \in LeaveRequests : /\ leave[l] # NoLeave <=> leave[l] \in LeaveRows
                               /\ leave[l] = NoLeave <=> leave[l].status = "NONE"
  BY LeaveFacts DEF LeaveShape
<1>2. HeldIn(s, year) \subseteq Filed
  BY <1>1 DEF HeldIn, OfStaff, Filed
<1>3. IsFiniteSet(HeldIn(s, year))
  BY <1>2, FS_Subset DEF LeaveShape
<1>4. \A l \in HeldIn(s, year) : leave[l].first \in Nat /\ leave[l].last \in Nat
  BY <1>1 DEF HeldIn, OfStaff, LeaveRows
<1>5. DaysHeld(s, year) = DaysOver(HeldIn(s, year), leave)
  BY DEF DaysHeld, DaysOver
<1>6. Sought(s, year) \subseteq Filers
  BY DEF Sought, Underway
<1>7. IsFiniteSet(Sought(s, year))
  BY <1>6, FilersAssumption, FS_Subset
<1>8. \A f \in Sought(s, year) : filer[f].first \in Nat /\ filer[f].last \in Nat
  BY DEF Sought, Underway, LeaveShape, Filings
<1>9. Cardinality(Filers) \in Nat
  BY FilersAssumption, FS_CardinalityType
<1>10. Limit(s) \in Nat
  BY <1>9, AllowanceAssumption DEF Limit
<1> QED
  BY <1>3, <1>4, <1>5, <1>7, <1>8, <1>9, <1>10, DaysOverFinite DEF DaysSought

(* Each filing under way is worth at most one allowance. *)
LEMMA SoughtBound ==
  ASSUME LeaveShape, NEW s \in Staff, NEW year \in Years,
         NEW F, F \subseteq Filers, Sought(s, year) \subseteq F
  PROVE  Cardinality(F) \in Nat /\ Cardinality(DaysSought(s, year)) <= Cardinality(F) * Allowance
<1> DEFINE W(f) == WorkingDays(filer[f].first, filer[f].last)
           D == DaysSought(s, year)
           T == F \X (1..Allowance)
           place == [e \in D |-> <<e[1], Place(W(e[1]), e[2])>>]
<1>1. IsFiniteSet(F) /\ Cardinality(F) \in Nat
  BY FilersAssumption, FS_Subset, FS_CardinalityType
<1>2. IsFiniteSet(1..Allowance) /\ Cardinality(1..Allowance) = Allowance
  BY PrefixFinite, AllowanceAssumption
<1>3. IsFiniteSet(T) /\ Cardinality(T) = Cardinality(F) * Allowance
  BY <1>1, <1>2, FS_Product
<1>4. ASSUME NEW f \in Sought(s, year)
      PROVE  /\ W(f) \subseteq Nat /\ IsFiniteSet(W(f))
             /\ Cardinality(W(f)) \in Nat /\ Cardinality(W(f)) <= Allowance
  <2>1. f \in Filers /\ filer[f] # NoFiling
    BY <1>4 DEF Sought, Underway
  <2>2. filer[f].first \in Nat /\ filer[f].last \in Nat /\ Cardinality(W(f)) <= Allowance
    BY <2>1 DEF LeaveShape, Filings
  <2> QED
    BY <2>2, WorkingDaysFinite
<1>5. \A e \in D : \E f \in Sought(s, year) : \E d \in W(f) : e = <<f, d>>
  BY DaysOverMembers DEF DaysSought
<1> HIDE DEF W
<1>6. \A f \in Sought(s, year) : \A d \in W(f) :
        Place(W(f), d) \in Nat /\ <<f, Place(W(f), d)>> \in T
  <2> SUFFICES ASSUME NEW f \in Sought(s, year), NEW d \in W(f)
               PROVE  Place(W(f), d) \in 1..Allowance /\ Place(W(f), d) \in Nat /\ f \in F
    OBVIOUS
  <2>1. Place(W(f), d) \in 1..Cardinality(W(f))
    BY <1>4, PlaceBounds
  <2> QED
    BY <1>4, <2>1, AllowanceAssumption
<1>7. \A f \in Sought(s, year) : \A c, d \in W(f) : Place(W(f), c) = Place(W(f), d) => c = d
  <2> SUFFICES ASSUME NEW f \in Sought(s, year), NEW c \in W(f), NEW d \in W(f), c # d
               PROVE  Place(W(f), c) # Place(W(f), d)
    OBVIOUS
  <2>1. c \in Nat /\ d \in Nat /\ (c < d \/ d < c)
    BY <1>4
  <2>2. Place(W(f), c) \in Nat /\ Place(W(f), d) \in Nat
    BY <1>6
  <2>3. Place(W(f), c) < Place(W(f), d) \/ Place(W(f), d) < Place(W(f), c)
    BY <1>4, <2>1, PlaceGrows
  <2> QED
    BY <2>2, <2>3
<1> HIDE DEF D, T
<1>8. \A e \in D : place[e] \in T
  BY <1>5, <1>6
<1>9. \A a, b \in D : place[a] = place[b] => a = b
  <2> SUFFICES ASSUME NEW a \in D, NEW b \in D, place[a] = place[b]
               PROVE  a = b
    OBVIOUS
  <2>1. PICK f \in Sought(s, year) : \E d \in W(f) : a = <<f, d>>
    BY <1>5
  <2>2. PICK c \in W(f) : a = <<f, c>>
    BY <2>1
  <2>3. PICK g \in Sought(s, year) : \E d \in W(g) : b = <<g, d>>
    BY <1>5
  <2>4. PICK d \in W(g) : b = <<g, d>>
    BY <2>3
  <2>5. f = g /\ Place(W(f), c) = Place(W(g), d)
    BY <2>2, <2>4
  <2> QED
    BY <1>7, <2>2, <2>4, <2>5
<1>10. place \in Injection(D, T)
  BY <1>8, <1>9 DEF Injection, IsInjective
<1>11. Cardinality(D) <= Cardinality(T)
  BY <1>3, <1>10, FS_Injection
<1> QED
  BY <1>1, <1>3, <1>11 DEF D

(* A step after which fewer requests stand and fewer are under way keeps   *)
(* to the limit.                                                           *)
LEMMA FewerHeld ==
  ASSUME LeaveShape, LeaveShape', NEW s \in Staff, Fits(s),
         \A year \in Years : HeldIn(s, year)' \subseteq HeldIn(s, year),
         \A year \in Years : \A l \in HeldIn(s, year)' :
           leave'[l].first = leave[l].first /\ leave'[l].last = leave[l].last,
         \A f \in Filers : filer'[f] = filer[f] \/ filer'[f] = NoFiling,
         crowded' = crowded
  PROVE  Fits(s)'
<1>1. Underway(s)' \subseteq Underway(s) /\ \A f \in Underway(s)' : filer'[f] = filer[f]
  BY DEF Underway
<1>2. ASSUME NEW year \in Years
      PROVE  Cardinality(DaysHeld(s, year))' + Cardinality(DaysSought(s, year))' <= Limit(s)'
  <2>1. Sought(s, year)' \subseteq Sought(s, year)
        /\ \A f \in Sought(s, year)' : filer'[f] = filer[f]
    BY <1>1 DEF Sought, AskedInTime, YearOf
  <2>2. Limit(s)' = Limit(s)
    BY DEF Limit
  <2>3. /\ DaysHeld(s, year) = DaysOver(HeldIn(s, year), leave)
        /\ IsFiniteSet(DaysHeld(s, year)) /\ IsFiniteSet(DaysSought(s, year)) /\ Limit(s) \in Nat
    BY LeaveSetsFinite
  <2>4. DaysHeld(s, year)' = DaysOver(HeldIn(s, year)', leave')
    BY DEF DaysHeld, DaysOver
  <2>5. /\ Cardinality(DaysHeld(s, year)') \in Nat /\ Cardinality(DaysHeld(s, year)) \in Nat
        /\ Cardinality(DaysHeld(s, year)') <= Cardinality(DaysHeld(s, year))
    <3> DEFINE now == HeldIn(s, year)'
               rows == leave'
               then == HeldIn(s, year)
    <3>1. /\ now \subseteq then
          /\ \A l \in now : rows[l].first = leave[l].first /\ rows[l].last = leave[l].last
      OBVIOUS
    <3>2. IsFiniteSet(DaysOver(then, leave))
      BY <2>3
    <3> HIDE DEF now, rows, then
    <3>3. /\ Cardinality(DaysOver(now, rows)) \in Nat
          /\ Cardinality(DaysOver(then, leave)) \in Nat
          /\ Cardinality(DaysOver(now, rows)) <= Cardinality(DaysOver(then, leave))
      BY <3>1, <3>2, DaysOverFewer
    <3> QED
      BY <2>3, <2>4, <3>3 DEF now, rows, then
  <2>6. /\ Cardinality(DaysSought(s, year)') \in Nat /\ Cardinality(DaysSought(s, year)) \in Nat
        /\ Cardinality(DaysSought(s, year)') <= Cardinality(DaysSought(s, year))
    BY <2>1, <2>3, DaysOverFewer DEF DaysSought
  <2>7. Cardinality(DaysHeld(s, year)) + Cardinality(DaysSought(s, year)) <= Limit(s)
    BY DEF Fits
  <2> QED
    BY <2>2, <2>3, <2>5, <2>6, <2>7
<1>3. s \notin crowded' => \A f, o \in Underway(s)' : f = o
  BY <1>1 DEF Fits
<1> QED
  BY <1>2, <1>3 DEF Fits

LEMMA TimesFacts ==
  ASSUME NEW n \in Nat, n > 0, NEW a \in Nat
  PROVE  a <= n * a /\ (n - 1) * a + a = n * a
<1>1. PICK m \in Nat : n = m + 1
  <2>1. n - 1 \in Nat /\ n = (n - 1) + 1
    OBVIOUS
  <2> QED
    BY <2>1
<1>2. n * a = m * a + a
  BY <1>1
<1>3. m * a \in Nat /\ n - 1 = m
  BY <1>1
<1> QED
  BY <1>2, <1>3

LEMMA LeaveInvStep ==
  LeaveShape /\ LeaveShape' /\ LeaveInv /\ [LeaveNext]_leaveVars => LeaveInv'
<1> SUFFICES ASSUME LeaveShape, LeaveShape', LeaveInv, [LeaveNext]_leaveVars, NEW s \in Staff
             PROVE  Fits(s)'
  BY DEF LeaveInv
<1>t. LeaveTypeOK
  BY DEF LeaveShape
<1>f. /\ \A l \in LeaveRequests :
           /\ leave[l] # NoLeave <=> leave[l] \in LeaveRows
           /\ leave[l] = NoLeave <=> leave[l].status = "NONE"
      /\ NoFiling \notin Filings
  BY <1>t, LeaveFacts
<1>s. Fits(s)
  BY DEF LeaveInv
<1>1. ASSUME NEW f \in Filers, NEW t \in Staff, NEW x \in Ranges, CheckBalance(f, t, x)
      PROVE  Fits(s)'
  <2> DEFINE w == [step |-> "allowed", who |-> t, first |-> x[1], last |-> x[2],
                   asked |-> yearStart]
             days == Cardinality(WorkingDays(x[1], x[2]))
  <2>1. w.who = t /\ w.first = x[1] /\ w.last = x[2] /\ w.asked = yearStart /\ w # NoFiling
    <3>1. w.step = "allowed" /\ NoFiling.step = "idle"
      BY DEF NoFiling
    <3> QED
      BY <3>1
  <2>2. filer' = [filer EXCEPT ![f] = w] /\ filer[f] = NoFiling /\ leave' = leave
    BY <1>1 DEF CheckBalance
  <2> HIDE DEF w
  <2>3. \A o \in Filers : filer'[o] = IF o = f THEN w ELSE filer[o]
    BY <1>t, <2>2 DEF LeaveTypeOK
  <2>4. \A year \in Years : DaysHeld(s, year)' = DaysHeld(s, year)
    BY <2>2 DEF DaysHeld, HeldIn, OfStaff, Stands, AskedInTime, YearOf
  <2>5. CASE t # s
    <3>1. Underway(s)' = Underway(s) /\ \A o \in Underway(s) : filer'[o] = filer[o]
      BY <2>1, <2>2, <2>3, <2>5 DEF Underway
    <3>2. s \in crowded' <=> s \in crowded
      BY <1>1, <2>5 DEF CheckBalance
    <3>3. \A year \in Years : Sought(s, year)' = Sought(s, year)
      BY <3>1 DEF Sought, AskedInTime, YearOf
    <3>4. \A year \in Years : \A o \in Sought(s, year) : filer'[o] = filer[o]
      BY <3>1 DEF Sought
    <3>5. \A year \in Years : DaysSought(s, year)' = DaysSought(s, year)
      BY <3>3, <3>4 DEF DaysSought, DaysOver
    <3>6. Limit(s)' = Limit(s)
      BY <3>2 DEF Limit
    <3> QED
      BY <1>s, <2>4, <3>1, <3>2, <3>5, <3>6 DEF Fits
  <2>6. CASE t = s
    <3>1. Underway(s)' = Underway(s) \cup {f} /\ f \notin Underway(s)
      BY <2>1, <2>2, <2>3, <2>6 DEF Underway
    <3>2. crowded' = IF Underway(s) = {} THEN crowded ELSE crowded \cup {s}
      BY <1>1, <2>6 DEF CheckBalance, Underway
    <3>3. s \notin crowded' => \A o, p \in Underway(s)' : o = p
      BY <3>1, <3>2
    <3>n. Cardinality(Filers) \in Nat /\ Cardinality(Filers \ {f}) = Cardinality(Filers) - 1
          /\ Cardinality(Filers) > 0
      <4>1. Cardinality(Filers) \in Nat
        BY FilersAssumption, FS_CardinalityType
      <4>2. Cardinality(Filers \ {f}) = Cardinality(Filers) - 1
        BY FilersAssumption, FS_RemoveElement
      <4>3. Cardinality(Filers) # 0
        BY FilersAssumption, FS_EmptySet
      <4> QED
        BY <4>1, <4>2, <4>3
    <3>m. Allowance <= Cardinality(Filers) * Allowance
          /\ (Cardinality(Filers) - 1) * Allowance + Allowance = Cardinality(Filers) * Allowance
      BY <3>n, AllowanceAssumption, TimesFacts
    <3>l. Limit(s) <= Limit(s)' /\ Limit(s) \in Nat /\ Limit(s)' \in Nat
          /\ Allowance <= Limit(s)'
          /\ (Underway(s) # {} => Limit(s)' = Cardinality(Filers) * Allowance)
      <4>1. s \in crowded => s \in crowded'
        BY <3>2
      <4>2. Cardinality(Filers) * Allowance \in Nat
        BY <3>n, AllowanceAssumption
      <4> QED
        BY <3>2, <3>m, <4>1, <4>2, AllowanceAssumption DEF Limit
    <3>4. ASSUME NEW year \in Years
          PROVE  Cardinality(DaysHeld(s, year))' + Cardinality(DaysSought(s, year))' <= Limit(s)'
      <4>0. /\ DaysHeld(s, year) = DaysOver(HeldIn(s, year), leave)
            /\ IsFiniteSet(DaysSought(s, year))
            /\ Cardinality(DaysHeld(s, year)) \in Nat /\ Cardinality(DaysSought(s, year)) \in Nat
        BY LeaveSetsFinite
      <4>1. CASE yearStart <= x[1] /\ YearOf(x[1]) = year
        <5>1. HeldIn(s, year) \subseteq Counting(s)
          <6> SUFFICES ASSUME NEW l \in HeldIn(s, year)
                       PROVE  leave[l].first >= yearStart
            BY DEF HeldIn, Counting, Stands, Counted
          <6>1. leave[l].first \in Nat /\ YearOf(leave[l].first) = year
            BY <1>f DEF HeldIn, OfStaff, LeaveRows
          <6>2. yearStart \in {0, NewYearsDay}
            BY <1>t DEF LeaveTypeOK
          <6> QED
            BY <4>1, <6>1, <6>2, LeaveDaysAssumption DEF YearOf
        <5>2. /\ Cardinality(DaysHeld(s, year)) <= DaysUsed(s)
              /\ DaysUsed(s) \in Nat
          <6>1. /\ DaysOff(s) = DaysOver(Counting(s), leave) /\ IsFiniteSet(DaysOff(s))
                /\ DaysUsed(s) \in Nat
            BY LeaveDaysFinite
          <6>2. Cardinality(DaysOver(HeldIn(s, year), leave))
                  <= Cardinality(DaysOver(Counting(s), leave))
            BY <5>1, <6>1, DaysOverFewer
          <6> QED
            BY <4>0, <6>1, <6>2 DEF DaysUsed
        <5>3. days \in Nat /\ days > 0 /\ days <= Remaining(s)
          <6>1. WorkingDays(x[1], x[2]) # {} /\ days <= Remaining(s)
            BY <1>1, <2>6 DEF CheckBalance, HasWorkingDays
          <6>2. x[1] \in Nat /\ x[2] \in Nat
            BY LeaveDaysAssumption
          <6> QED
            BY <6>1, <6>2, WorkingDaysFinite
        <5>4. Cardinality(DaysHeld(s, year)) + days <= Allowance
          BY <4>0, <5>2, <5>3, AllowanceAssumption DEF Remaining
        <5>5. Sought(s, year)' = Sought(s, year) \cup {f}
          <6>1. AskedInTime(filer'[f]) /\ YearOf(filer'[f].first) = year
            BY <1>t, <2>1, <2>3, <4>1, LeaveDaysAssumption DEF AskedInTime, LeaveTypeOK
          <6>2. \A o \in Underway(s) : filer'[o] = filer[o]
            BY <2>3, <3>1 DEF Underway
          <6> QED
            BY <3>1, <6>1, <6>2 DEF Sought, AskedInTime, YearOf
        <5>6. /\ Cardinality(DaysSought(s, year)') \in Nat
              /\ Cardinality(DaysSought(s, year)') <= Cardinality(DaysSought(s, year)) + days
          <6>1. \A o \in Sought(s, year) : o # f => filer'[o] = filer[o]
            BY <2>3 DEF Sought, Underway
          <6>2. filer'[f].first = x[1] /\ filer'[f].last = x[2] /\ x[1] \in Nat /\ x[2] \in Nat
            BY <2>1, <2>3, LeaveDaysAssumption
          <6>3. DaysSought(s, year)' = DaysOver(Sought(s, year) \cup {f}, filer')
            BY <5>5 DEF DaysSought, DaysOver
          <6> QED
            BY <4>0, <6>1, <6>2, <6>3, DaysOverOneMore DEF DaysSought
        <5>7. CASE Underway(s) = {}
          <6>1. DaysSought(s, year) = {}
            BY <5>7 DEF DaysSought, DaysOver, Sought
          <6>2. Cardinality(DaysSought(s, year)) = 0
            BY <6>1, FS_EmptySet
          <6> QED
            BY <2>4, <3>l, <4>0, <5>3, <5>4, <5>6, <6>2, AllowanceAssumption
        <5>8. CASE Underway(s) # {}
          <6>1. Sought(s, year) \subseteq Filers \ {f}
            BY <3>1 DEF Sought, Underway
          <6>2. Cardinality(DaysSought(s, year)) <= Cardinality(Filers \ {f}) * Allowance
            BY <6>1, SoughtBound
          <6>3. Cardinality(DaysSought(s, year)) <= (Cardinality(Filers) - 1) * Allowance
            BY <3>n, <6>2
          <6> DEFINE rest == (Cardinality(Filers) - 1) * Allowance
                     all == Cardinality(Filers) * Allowance
          <6>4. rest \in Nat /\ all \in Nat /\ rest + Allowance = all
            BY <3>n, <3>m, AllowanceAssumption
          <6>5. Cardinality(DaysSought(s, year)) <= rest /\ Limit(s)' = all
            BY <3>l, <5>8, <6>3
          <6> HIDE DEF rest, all
          <6> QED
            BY <2>4, <4>0, <5>3, <5>4, <5>6, <6>4, <6>5, AllowanceAssumption
        <5> QED
          BY <5>7, <5>8
      <4>2. CASE ~ (yearStart <= x[1] /\ YearOf(x[1]) = year)
        <5>1. ~ (AskedInTime(filer'[f]) /\ YearOf(filer'[f].first) = year)
          BY <1>t, <2>1, <2>3, <4>2, LeaveDaysAssumption DEF AskedInTime, LeaveTypeOK
        <5>2. \A o \in Underway(s) : filer'[o] = filer[o]
          BY <2>3, <3>1 DEF Underway
        <5>3. Sought(s, year)' = Sought(s, year)
          BY <3>1, <5>1, <5>2 DEF Sought, AskedInTime, YearOf
        <5>4. \A o \in Sought(s, year) : filer'[o] = filer[o]
          BY <5>2 DEF Sought
        <5>5. DaysSought(s, year)' = DaysSought(s, year)
          BY <5>3, <5>4 DEF DaysSought, DaysOver
        <5>6. Cardinality(DaysHeld(s, year)) + Cardinality(DaysSought(s, year)) <= Limit(s)
          BY <1>s DEF Fits
        <5> QED
          BY <2>4, <3>l, <4>0, <5>5, <5>6
      <4> QED
        BY <4>1, <4>2
    <3> QED
      BY <3>3, <3>4 DEF Fits
  <2> QED
    BY <2>5, <2>6
<1>2. ASSUME NEW f \in Filers, NEW l \in LeaveRequests, File(f, l)
      PROVE  Fits(s)'
  <2> DEFINE a == filer[f].first
             b == filer[f].last
             w == [status |-> "PENDING", who |-> filer[f].who, first |-> a, last |-> b,
                   asked |-> filer[f].asked, revived |-> FALSE]
  <2>1. filer[f] \in Filings /\ a \in Nat /\ b \in Nat
    BY <1>2 DEF File, LeaveShape, Filings
  <2>2. /\ w.status = "PENDING" /\ w.who = filer[f].who /\ w.first = a /\ w.last = b
        /\ w.asked = filer[f].asked /\ w.revived = FALSE
    OBVIOUS
  <2>3. /\ leave' = [leave EXCEPT ![l] = w] /\ filer' = [filer EXCEPT ![f] = NoFiling]
        /\ UNCHANGED <<yearStart, crowded>> /\ leave[l] = NoLeave /\ filer[f] # NoFiling
    BY <1>2 DEF File
  <2> HIDE DEF w
  <2>4. \A k \in LeaveRequests : leave'[k] = IF k = l THEN w ELSE leave[k]
    BY <1>t, <2>3 DEF LeaveTypeOK
  <2>5. \A o \in Filers : filer'[o] = IF o = f THEN NoFiling ELSE filer[o]
    BY <1>t, <2>3 DEF LeaveTypeOK
  <2>6. \A year \in Years : l \notin HeldIn(s, year)
    BY <1>f, <2>3 DEF HeldIn, OfStaff
  <2>7. \A year \in Years : \A k \in HeldIn(s, year) : k \in LeaveRequests /\ leave'[k] = leave[k]
    BY <2>4, <2>6 DEF HeldIn, OfStaff
  <2>8. Underway(s)' = Underway(s) \ {f} /\ \A o \in Underway(s)' : filer'[o] = filer[o]
    BY <2>3, <2>5 DEF Underway
  <2>9. \A year \in Years : HeldIn(s, year)' \subseteq
          IF f \in Sought(s, year) THEN HeldIn(s, year) \cup {l} ELSE HeldIn(s, year)
    <3> SUFFICES ASSUME NEW year \in Years, NEW k \in HeldIn(s, year)', k \notin HeldIn(s, year)
                 PROVE  k = l /\ f \in Sought(s, year)
      OBVIOUS
    <3>1. k \in LeaveRequests
      BY DEF HeldIn, OfStaff
    <3>2. k = l
      BY <2>4, <3>1 DEF HeldIn, OfStaff, Stands, AskedInTime, YearOf
    <3>3. /\ w.who = s /\ AskedInTime(w) /\ YearOf(w.first) = year
      BY <2>4, <3>1, <3>2 DEF HeldIn, OfStaff, AskedInTime, YearOf
    <3>4. filer[f].who = s /\ AskedInTime(filer[f]) /\ YearOf(filer[f].first) = year
      BY <2>2, <3>3 DEF AskedInTime
    <3> QED
      BY <2>3, <3>2, <3>4 DEF Sought, Underway
  <2>10. \A year \in Years : Sought(s, year)' = Sought(s, year) \ {f}
    BY <2>8 DEF Sought, AskedInTime, YearOf
  <2>11. \A year \in Years : \A o \in Sought(s, year) : o # f => filer'[o] = filer[o]
    BY <2>5 DEF Sought, Underway
  <2>12. ASSUME NEW year \in Years
         PROVE  Cardinality(DaysHeld(s, year))' + Cardinality(DaysSought(s, year))' <= Limit(s)'
    <3>1. /\ DaysHeld(s, year) = DaysOver(HeldIn(s, year), leave)
          /\ IsFiniteSet(DaysHeld(s, year)) /\ Cardinality(DaysHeld(s, year)) \in Nat
          /\ IsFiniteSet(DaysSought(s, year)) /\ Cardinality(DaysSought(s, year)) \in Nat
          /\ Limit(s) \in Nat
      BY LeaveSetsFinite
    <3>2. DaysHeld(s, year)' = DaysOver(HeldIn(s, year)', leave')
      BY DEF DaysHeld, DaysOver
    <3>3. DaysSought(s, year)' = DaysOver(Sought(s, year) \ {f}, filer')
      BY <2>10 DEF DaysSought, DaysOver
    <3>4. Limit(s)' = Limit(s)
      BY <2>3 DEF Limit
    <3>5. Cardinality(DaysHeld(s, year)) + Cardinality(DaysSought(s, year)) <= Limit(s)
      BY <1>s DEF Fits
    <3> DEFINE now == HeldIn(s, year)'
               rows == leave'
               more == HeldIn(s, year) \cup {l}
    <3>6. DaysHeld(s, year)' = DaysOver(now, rows)
      BY <3>2
    <3>7. CASE f \in Sought(s, year)
      <4>1. now \subseteq more /\ \A k \in HeldIn(s, year) : rows[k] = leave[k]
        BY <2>7, <2>9, <3>7
      <4>2. rows[l].first = a /\ rows[l].last = b
        BY <2>2, <2>4
      <4>3. /\ IsFiniteSet(DaysOver(more, rows)) /\ Cardinality(DaysOver(more, rows)) \in Nat
            /\ Cardinality(DaysOver(more, rows)) <=
                 Cardinality(DaysHeld(s, year)) + Cardinality(WorkingDays(a, b))
        <5> HIDE DEF rows
        <5> QED
          BY <2>1, <3>1, <4>1, <4>2, DaysOverOneMore
      <4>4. /\ Cardinality(DaysOver(now, rows)) <= Cardinality(DaysOver(more, rows))
            /\ Cardinality(DaysOver(now, rows)) \in Nat
        <5> HIDE DEF now, more, rows
        <5> QED
          BY <4>1, <4>3, DaysOverFewer
      <4>5. /\ Cardinality(DaysSought(s, year)') + Cardinality(WorkingDays(a, b))
                 <= Cardinality(DaysSought(s, year))
            /\ Cardinality(DaysSought(s, year)') \in Nat
        BY <2>1, <2>11, <3>1, <3>3, <3>7, DaysOverOneLess DEF DaysSought
      <4>6. Cardinality(WorkingDays(a, b)) \in Nat
        BY <2>1, WorkingDaysFinite
      <4> HIDE DEF now, more, rows
      <4> QED
        BY <3>1, <3>4, <3>5, <3>6, <4>3, <4>4, <4>5, <4>6
    <3>8. CASE f \notin Sought(s, year)
      <4>1. now \subseteq HeldIn(s, year) /\ \A k \in HeldIn(s, year) : rows[k] = leave[k]
        BY <2>7, <2>9, <3>8
      <4>2. /\ Cardinality(DaysOver(now, rows)) <= Cardinality(DaysHeld(s, year))
            /\ Cardinality(DaysOver(now, rows)) \in Nat
        <5> HIDE DEF now, rows
        <5> QED
          BY <3>1, <4>1, DaysOverFewer
      <4>3. Sought(s, year) \ {f} \subseteq Sought(s, year)
            /\ \A o \in Sought(s, year) \ {f} : filer'[o] = filer[o]
        BY <2>11
      <4>4. /\ Cardinality(DaysSought(s, year)') <= Cardinality(DaysSought(s, year))
            /\ Cardinality(DaysSought(s, year)') \in Nat
        BY <3>1, <3>3, <4>3, DaysOverFewer DEF DaysSought
      <4> HIDE DEF now, rows
      <4> QED
        BY <3>1, <3>4, <3>5, <3>6, <4>2, <4>4
    <3> QED
      BY <3>7, <3>8
  <2>13. s \notin crowded' => \A o, p \in Underway(s)' : o = p
    BY <1>s, <2>3, <2>8 DEF Fits
  <2> QED
    BY <2>12, <2>13 DEF Fits
<1>3. ASSUME NEW f \in Filers, DropFiling(f)
      PROVE  Fits(s)'
  <2>1. \A o \in Filers : filer'[o] = filer[o] \/ filer'[o] = NoFiling
    BY <1>t, <1>3 DEF DropFiling, LeaveTypeOK
  <2>2. leave' = leave /\ crowded' = crowded
    BY <1>3 DEF DropFiling
  <2>3. \A year \in Years : HeldIn(s, year)' = HeldIn(s, year)
    BY <2>2 DEF HeldIn, OfStaff, Stands, AskedInTime, YearOf
  <2> QED
    BY <1>s, <2>1, <2>2, <2>3, FewerHeld
<1>4. ASSUME NEW l \in LeaveRequests, NEW status \in LeaveStatuses, NEW revived \in BOOLEAN,
             leave[l] \in LeaveRows, UNCHANGED <<filer, crowded>>,
             leave' = [leave EXCEPT ![l] =
               [leave[l] EXCEPT !.status = status, !.revived = revived]],
             leave[l].revived => revived,
             status = "APPROVED" /\ leave[l].status \in {"REJECTED", "CANCELLED"} => revived,
             status # "PENDING"
      PROVE  Fits(s)'
  <2>1. /\ leave'[l].status = status /\ leave'[l].who = leave[l].who
        /\ leave'[l].first = leave[l].first /\ leave'[l].last = leave[l].last
        /\ leave'[l].asked = leave[l].asked /\ leave'[l].revived = revived
    BY <1>t, <1>4 DEF LeaveTypeOK, LeaveRows
  <2>2. \A k \in LeaveRequests : k # l => leave'[k] = leave[k]
    BY <1>t, <1>4 DEF LeaveTypeOK
  <2>3. leave[l].status \in LeaveStatuses /\ leave[l].status # "NONE"
    BY <1>4 DEF LeaveRows, LeaveStatuses
  <2>4. Stands(l)' => Stands(l)
    BY <1>4, <2>1, <2>3 DEF Stands, LeaveStatuses
  <2>5. ASSUME NEW year \in Years
        PROVE  HeldIn(s, year)' \subseteq HeldIn(s, year)
    <3> SUFFICES ASSUME NEW k \in HeldIn(s, year)'
                 PROVE  k \in HeldIn(s, year)
      OBVIOUS
    <3>1. k \in LeaveRequests
      BY DEF HeldIn, OfStaff
    <3>2. CASE k = l
      BY <2>1, <2>3, <2>4, <3>2 DEF HeldIn, OfStaff, AskedInTime, YearOf
    <3>3. CASE k # l
      BY <2>2, <3>1, <3>3 DEF HeldIn, OfStaff, Stands, AskedInTime, YearOf
    <3> QED
      BY <3>2, <3>3
  <2>6. \A year \in Years : \A k \in HeldIn(s, year)' :
          leave'[k].first = leave[k].first /\ leave'[k].last = leave[k].last
    BY <2>1, <2>2 DEF HeldIn, OfStaff
  <2> QED
    BY <1>s, <1>4, <2>5, <2>6, FewerHeld
<1>5. ASSUME NEW l \in LeaveRequests, NEW status \in {"APPROVED", "REJECTED"}, Review(l, status)
      PROVE  Fits(s)'
  <2>1. PICK revived \in BOOLEAN :
          /\ leave' = [leave EXCEPT ![l] =
               [leave[l] EXCEPT !.status = status, !.revived = revived]]
          /\ leave[l].revived => revived
          /\ status = "APPROVED" /\ leave[l].status \in {"REJECTED", "CANCELLED"} => revived
    BY <1>t, <1>5, DecidedRow
  <2>2. leave[l] \in LeaveRows /\ UNCHANGED <<filer, crowded>>
    BY <1>t, <1>5, DecidedRow DEF Review
  <2>3. status \in LeaveStatuses /\ status # "PENDING"
    BY DEF LeaveStatuses
  <2> QED
    BY <1>4, <2>1, <2>2, <2>3
<1>6. ASSUME NEW l \in LeaveRequests, Cancel(l)
      PROVE  Fits(s)'
  <2>1. /\ leave[l] \in LeaveRows
        /\ leave' = [leave EXCEPT ![l] =
             [leave[l] EXCEPT !.status = "CANCELLED", !.revived = leave[l].revived]]
    BY <1>t, <1>6, DecidedRow
  <2>2. UNCHANGED <<filer, crowded>> /\ leave[l].revived \in BOOLEAN
    BY <1>6, <2>1 DEF Cancel, LeaveRows
  <2>3. "CANCELLED" \in LeaveStatuses
    BY DEF LeaveStatuses
  <2> QED
    BY <1>4, <2>1, <2>2, <2>3
<1>7. ASSUME UNCHANGED <<leave, filer, crowded>>
      PROVE  Fits(s)'
  <2>1. \A year \in Years : HeldIn(s, year)' = HeldIn(s, year)
    BY <1>7 DEF HeldIn, OfStaff, Stands, AskedInTime, YearOf
  <2> QED
    BY <1>s, <1>7, <2>1, FewerHeld
<1> QED
  BY <1>1, <1>2, <1>3, <1>5, <1>6, <1>7
  DEF LeaveNext, leaveVars, CheckToReview, CheckToCancel, NewYear

(* "Otherwise someone could file three overlapping requests that each look *)
(* affordable alone": of the leave that begins in a year, asked for before *)
(* that year was over, what is granted or waits never exceeds the year's   *)
(* allowance, and filings that overlap are worth one allowance each.       *)
THEOREM AllowanceHoldsAlways == LeaveSpec => []AllowanceHolds
<1>1. LeaveInit => LeaveInv
  <2> SUFFICES ASSUME LeaveInit, NEW s \in Staff
               PROVE  Fits(s)
    BY DEF LeaveInv
  <2>1. Underway(s) = {} /\ \A year \in Years : HeldIn(s, year) = {}
    BY DEF LeaveInit, Underway, HeldIn, OfStaff, NoLeave
  <2>2. \A year \in Years : DaysHeld(s, year) = {} /\ DaysSought(s, year) = {}
    BY <2>1 DEF DaysHeld, DaysSought, DaysOver, Sought
  <2>3. Limit(s) = Allowance
    BY DEF LeaveInit, Limit
  <2> QED
    BY <2>1, <2>2, <2>3, FS_EmptySet, AllowanceAssumption DEF Fits
<1>2. LeaveShape /\ LeaveInv => AllowanceHolds
  <2> SUFFICES ASSUME LeaveShape, LeaveInv, NEW s \in Staff, NEW year \in {0, NewYearsDay}
               PROVE  Cardinality(DaysHeld(s, year)) <= Limit(s)
    BY DEF AllowanceHolds
  <2>1. /\ Cardinality(DaysHeld(s, year)) \in Nat /\ Cardinality(DaysSought(s, year)) \in Nat
        /\ Limit(s) \in Nat
    BY LeaveSetsFinite DEF Years
  <2>2. Cardinality(DaysHeld(s, year)) + Cardinality(DaysSought(s, year)) <= Limit(s)
    BY DEF LeaveInv, Fits, Years
  <2> QED
    BY <2>1, <2>2
<1> QED
  BY <1>1, <1>2, LeaveShapeHolds, LeaveInvStep, PTL DEF LeaveSpec

(***************************************************************************)
(* Quizzes.                                                                *)
(***************************************************************************)
LEMMA QuestionsFinite == IsFiniteSet(Questions) /\ Cardinality(Questions) \in Nat
BY PapersAssumption, FS_UNION, FS_CardinalityType DEF Questions

(* The attempts of a student are numbered from 1 without a gap, at most    *)
(* one is in progress, and a number that is about to be opened has been    *)
(* given out or is the next one while nothing is in progress.  A start     *)
(* that settles an attempt first holds its number back until then.         *)
Prefix(s) == \E k \in 0..MaxAttempts : Sat(s) = 1..k
NextAfter(s, n) == n = 1 \/ n - 1 \in Sat(s)
Due(s, n) == n \in Sat(s) \/ (NextAfter(s, n) /\ NothingInProgress(s))
DueAfter(s, n, m) ==
  n \in Sat(s) \/ (NextAfter(s, n) /\ \A i \in Sat(s) : InProgress(s, i) => i = m)
OneAtMost(s) == \A m, n \in Numbers : InProgress(s, m) /\ InProgress(s, n) => m = n

Numbered == \A s \in Sitters : Prefix(s) /\ OneAtMost(s)
OpensNext == \A s \in Sitters, n \in Numbers : <<s, n>> \in toOpen =>
  n <= MaxAttempts /\ (quiz.stage # "REMOVED" => Due(s, n))
GoesOnToNext == \A g \in Graders, s \in Sitters, n \in Numbers :
  grader[g].step # "idle" /\ grader[g].student = s /\ grader[g].next = n =>
    /\ n <= MaxAttempts
    /\ quiz.stage # "REMOVED" =>
         IF grader[g].step \in {"reading", "marked"}
         THEN \A m \in Numbers : grader[g].number = m => DueAfter(s, n, m)
         ELSE Due(s, n)
Numbering == Numbered /\ OpensNext /\ GoesOnToNext

Answers == [pick : {"none", "right", "wrong"}, mark : {"none", "earned", "missed"}]
Sheets == [Sitters -> [Numbers -> [Questions -> Answers]]]

(* Before it is created a quiz has no paper, and no score exceeds the      *)
(* number of questions there are.                                          *)
QuizShape ==
  /\ QuizTypeOK
  /\ quiz.stage = "NONE" => paper = {}
  /\ \A s \in Sitters, n \in Numbers : attempt[s][n].score # NoScore =>
       attempt[s][n].score <= Cardinality(Questions)

LEMMA GraderFacts ==
  ASSUME QuizTypeOK, NEW g \in Graders
  PROVE  /\ grader[g].step # "idle" <=> grader[g] \in Settlements
         /\ grader[g].step # "idle" =>
              /\ grader[g].student \in Sitters /\ grader[g].number \in Numbers
              /\ grader[g].next \in Numbers \cup {0} /\ grader[g].as \in Settled
              /\ grader[g].right \subseteq Questions /\ grader[g].wrong \subseteq Questions
              /\ grader[g].best \in Nat \cup {NoScore}
         /\ grader[g].next # 0 => grader[g].step # "idle"
<1>1. NoGrader.step = "idle" /\ NoGrader.next = 0
  BY DEF NoGrader
<1>2. \A x \in Settlements :
        /\ x.step # "idle" /\ x.student \in Sitters /\ x.number \in Numbers
        /\ x.next \in Numbers \cup {0} /\ x.as \in Settled
        /\ x.right \subseteq Questions /\ x.wrong \subseteq Questions
        /\ x.best \in Nat \cup {NoScore}
  BY DEF Settlements
<1>3. grader[g] \in Settlements \/ grader[g] = NoGrader
  BY DEF QuizTypeOK
<1> QED
  BY <1>1, <1>2, <1>3

LEMMA NextFits ==
  ASSUME QuizTypeOK, NEW s \in Sitters, Prefix(s), AllowanceLeft(s)
  PROVE  /\ NextNumber(s) \in Numbers /\ NextNumber(s) <= MaxAttempts
         /\ NextAfter(s, NextNumber(s)) /\ NextNumber(s) # 0
<1> USE MaxAttemptsAssumption
<1>1. PICK k \in 0..MaxAttempts : Sat(s) = 1..k
  BY DEF Prefix
<1>2. Cardinality(1..k) = k
  BY FS_Interval
<1>3. k < MaxAttempts
  BY <1>1, <1>2 DEF AllowanceLeft
<1>4. CASE k = 0
  BY <1>1, <1>4 DEF NextNumber, NextAfter, Numbers
<1>5. CASE k # 0
  <2>1. k \in 1..k /\ \A y \in 1..k : k >= y
    BY <1>5
  <2>2. Max(1..k) \in 1..k /\ \A y \in 1..k : Max(1..k) >= y
    BY <2>1 DEF Max
  <2>3. Max(1..k) = k
    BY <2>1, <2>2
  <2> QED
    BY <1>1, <1>3, <1>5, <2>1, <2>3 DEF NextNumber, NextAfter, Numbers
<1> QED
  BY <1>4, <1>5

LEMMA BestFits ==
  ASSUME QuizShape, NEW s \in Sitters
  PROVE  /\ Scores(s) \subseteq Nat
         /\ Scores(s) # {} => BestScore(s) \in Scores(s) /\ \A x \in Scores(s) : x <= BestScore(s)
         /\ Scores(s) = {} => BestScore(s) = NoScore
<1>1. \A x \in Scores(s) : x \in Nat /\ x <= Cardinality(Questions)
  BY DEF Scores, QuizShape, QuizTypeOK
<1>2. Scores(s) # {} => Max(Scores(s)) \in Scores(s) /\ \A x \in Scores(s) : x <= Max(Scores(s))
  BY <1>1, MaxExists, QuestionsFinite
<1> QED
  BY <1>1, <1>2 DEF BestScore

LEMMA QuizShapeStep ==
  QuizShape /\ Numbering /\ [QuizNext]_quizVars => QuizShape'
<1> SUFFICES ASSUME QuizShape, Numbering, [QuizNext]_quizVars
             PROVE  QuizShape'
  OBVIOUS
<1> USE MaxAttemptsAssumption, NoScoreAssumption
<1>t. QuizTypeOK
  BY DEF QuizShape
<1>a. /\ answer \in Sheets
      /\ \A s \in Sitters, n \in Numbers, q \in Questions : answer[s][n][q] \in Answers
      /\ \A s \in Sitters, n \in Numbers, q \in Questions :
           answer[s][n][q] # NoAnswer => q \in paper
  BY <1>t DEF QuizTypeOK, Sheets, Answers
<1>b. \A s \in Sitters, n \in Numbers :
        attempt[s][n].status \in Settled <=> attempt[s][n].score # NoScore
  BY <1>t DEF QuizTypeOK, HasSettled
<1>u. ASSUME UNCHANGED <<attempt, late>>
      PROVE  /\ attempt' \in [Sitters -> [Numbers ->
                  [status : {"NONE", "IN_PROGRESS"} \cup Settled, score : Nat \cup {NoScore}]]]
             /\ \A s \in Sitters, n \in Numbers : HasSettled(s, n)' <=> attempt'[s][n].score # NoScore
             /\ late' \subseteq {x \in Sitters \X Numbers : InProgress(x[1], x[2])'}
             /\ \A s \in Sitters, n \in Numbers : attempt'[s][n].score # NoScore =>
                  attempt'[s][n].score <= Cardinality(Questions)
  BY <1>u, <1>t, <1>b DEF QuizShape, QuizTypeOK, InProgress, HasSettled
<1>1. ASSUME NEW P \in Papers, Create(P)
      PROVE  QuizShape'
  <2>1. P \subseteq Questions
    BY DEF Questions
  <2>2. \A s \in Sitters, n \in Numbers, q \in Questions : answer[s][n][q] = NoAnswer
    BY <1>1, <1>a DEF Create, QuizShape
  <2>3. /\ paper' = P /\ printed' = P /\ quiz' = [quiz EXCEPT !.stage = "DRAFT"]
        /\ UNCHANGED <<attempt, answer, late, toRewrite, toRemove, admitted, toOpen, toAnswer,
                       grader, gradebook, keyed, disturbed>>
    BY <1>1 DEF Create
  <2>4. quiz'.stage = "DRAFT" /\ quiz' \in [stage : {"NONE", "DRAFT", "PUBLISHED", "REMOVED"},
                                           window : {"before", "open", "closed"}]
    BY <1>t, <2>3 DEF QuizTypeOK
  <2>5. /\ paper' \subseteq printed' /\ printed' \subseteq Questions
        /\ \A s \in Sitters, n \in Numbers, q \in Questions :
             answer'[s][n][q] # NoAnswer => q \in paper'
    BY <2>1, <2>2, <2>3
  <2>6. UNCHANGED <<attempt, answer, late, toRewrite, toRemove, admitted, toOpen, toAnswer,
                    grader, gradebook, keyed, disturbed>>
    BY <2>3
  <2>7. quiz'.stage # "NONE"
    BY <2>4
  <2> QED
    BY <1>t, <1>u, <2>4, <2>5, <2>6, <2>7 DEF QuizShape, QuizTypeOK
<1>2. CASE CheckDraft \/ Publish \/ CheckUnsat \/ PassTime
  <2>1. /\ UNCHANGED <<paper, printed, attempt, answer, late, admitted, toOpen, toAnswer,
                       grader, gradebook, keyed, disturbed>>
        /\ toRewrite' \in BOOLEAN /\ toRemove' \in BOOLEAN
    BY <1>2, <1>t DEF CheckDraft, Publish, CheckUnsat, PassTime, QuizTypeOK
  <2>2. /\ quiz' \in [stage : {"NONE", "DRAFT", "PUBLISHED", "REMOVED"},
                      window : {"before", "open", "closed"}]
        /\ quiz'.stage = "NONE" => quiz.stage = "NONE"
    BY <1>2, <1>t DEF CheckDraft, Publish, CheckUnsat, PassTime, QuizTypeOK
  <2> QED
    BY <1>t, <1>u, <2>1, <2>2 DEF QuizShape, QuizTypeOK
<1>3. ASSUME NEW P \in Papers, Rewrite(P)
      PROVE  QuizShape'
  <2>1. P \subseteq Questions
    BY DEF Questions
  <2>2. \A s \in Sitters, n \in Numbers, q \in Questions :
          answer'[s][n][q] = IF q \in paper THEN NoAnswer ELSE answer[s][n][q]
    BY <1>3 DEF Rewrite, AfterCascade
  <2>3. \A s \in Sitters, n \in Numbers, q \in Questions : answer'[s][n][q] = NoAnswer
    BY <1>t, <2>2 DEF QuizTypeOK
  <2>4. answer' = [s \in Sitters |-> [n \in Numbers |-> [q \in Questions |-> NoAnswer]]]
    BY <1>3, <1>t, <2>3 DEF Rewrite, AfterCascade, QuizTypeOK
  <2>5. /\ paper' = P /\ printed' = printed \cup P /\ quiz.stage # "NONE"
        /\ disturbed' = disturbed \cup Started
        /\ UNCHANGED <<quiz, attempt, late, toRewrite, toRemove, admitted, toOpen, toAnswer,
                       grader, gradebook, keyed>>
    BY <1>3 DEF Rewrite, Exists
  <2>6. NoAnswer \in [pick : {"none", "right", "wrong"}, mark : {"none", "earned", "missed"}]
    BY DEF NoAnswer
  <2>7. answer' \in [Sitters -> [Numbers -> [Questions ->
          [pick : {"none", "right", "wrong"}, mark : {"none", "earned", "missed"}]]]]
    BY <2>4, <2>6
  <2>8. disturbed' \subseteq Sitters
    BY <1>t, <2>5 DEF QuizTypeOK, Started
  <2> QED
    BY <1>t, <2>1, <2>3, <2>5, <2>7, <2>8 DEF QuizShape, QuizTypeOK, InProgress, HasSettled
<1>4. CASE Remove
  <2>1. NoAttempt \in [status : {"NONE", "IN_PROGRESS"} \cup Settled, score : Nat \cup {NoScore}]
        /\ NoAttempt.score = NoScore /\ NoAttempt.status = "NONE"
    BY DEF NoAttempt
  <2>2. NoAnswer \in [pick : {"none", "right", "wrong"}, mark : {"none", "earned", "missed"}]
    BY DEF NoAnswer
  <2>3. disturbed' \subseteq Sitters
    BY <1>4, <1>t DEF Remove, QuizTypeOK, Started
  <2> QED
    BY <1>4, <1>t, <2>1, <2>2, <2>3
    DEF Remove, QuizShape, QuizTypeOK, InProgress, HasSettled, Settled
<1>5. ASSUME NEW s \in Sitters, NEW n \in Numbers, RunOut(s, n)
      PROVE  QuizShape'
  BY <1>5 DEF RunOut, QuizShape, QuizTypeOK, InProgress, HasSettled
<1>6. ASSUME NEW s \in Sitters, FindOpen(s)
      PROVE  QuizShape'
  BY <1>6 DEF FindOpen, QuizShape, QuizTypeOK, InProgress, HasSettled
<1>7. ASSUME NEW s \in Sitters, ChooseNext(s)
      PROVE  QuizShape'
  <2>1. NextNumber(s) \in Numbers
    BY <1>7, <1>t, NextFits DEF ChooseNext, Numbering, Numbered
  <2> QED
    BY <1>7, <2>1 DEF ChooseNext, QuizShape, QuizTypeOK, InProgress, HasSettled
<1>8. ASSUME NEW s \in Sitters, NEW n \in Numbers, Open(s, n)
      PROVE  QuizShape'
  <2>1. /\ attempt' = [attempt EXCEPT ![s][n].status = "IN_PROGRESS"]
        /\ attempt[s][n].status = "NONE" /\ toOpen' = toOpen \ {<<s, n>>}
        /\ UNCHANGED <<quiz, paper, printed, answer, late, toRewrite, toRemove, admitted,
                       toAnswer, grader, gradebook, keyed, disturbed>>
    BY <1>8 DEF Open
  <2>2. \A x \in Sitters, m \in Numbers :
          /\ attempt'[x][m].status = IF x = s /\ m = n THEN "IN_PROGRESS" ELSE attempt[x][m].status
          /\ attempt'[x][m].score = attempt[x][m].score
    BY <1>t, <2>1 DEF QuizTypeOK
  <2>3. attempt' \in [Sitters -> [Numbers ->
          [status : {"NONE", "IN_PROGRESS"} \cup Settled, score : Nat \cup {NoScore}]]]
    <3> DEFINE Rows == [status : {"NONE", "IN_PROGRESS"} \cup Settled, score : Nat \cup {NoScore}]
    <3>1. attempt \in [Sitters -> [Numbers -> Rows]]
      BY <1>t DEF QuizTypeOK
    <3>2. [attempt[s][n] EXCEPT !.status = "IN_PROGRESS"] \in Rows
      BY <3>1
    <3>3. attempt' = [attempt EXCEPT ![s][n] = [attempt[s][n] EXCEPT !.status = "IN_PROGRESS"]]
      BY <2>1, <3>1
    <3> HIDE DEF Rows
    <3>4. attempt' \in [Sitters -> [Numbers -> Rows]]
      BY <3>1, <3>2, <3>3
    <3> QED
      BY <3>4 DEF Rows
  <2>4. \A x \in Sitters, m \in Numbers : HasSettled(x, m)' = HasSettled(x, m)
    BY <2>1, <2>2 DEF HasSettled, Settled
  <2>5. \A x \in Sitters, m \in Numbers : InProgress(x, m) => InProgress(x, m)'
    BY <2>2 DEF InProgress
  <2>6. late' \subseteq {x \in Sitters \X Numbers : InProgress(x[1], x[2])'}
    BY <1>t, <2>1, <2>5 DEF QuizTypeOK
  <2> QED
    BY <1>t, <2>1, <2>2, <2>3, <2>4, <2>6 DEF QuizShape, QuizTypeOK
<1>9. ASSUME NEW s \in Sitters, NEW n \in Numbers, CheckAttempt(s, n)
      PROVE  QuizShape'
  BY <1>9 DEF CheckAttempt, QuizShape, QuizTypeOK, InProgress, HasSettled
<1>10. ASSUME NEW s \in Sitters, NEW n \in Numbers, NEW q \in Questions,
              NEW pick \in {"right", "wrong"}, SaveAnswer(s, n, q, pick)
       PROVE  QuizShape'
  <2>1. /\ answer' = [answer EXCEPT ![s][n][q].pick = pick] /\ q \in paper
        /\ UNCHANGED <<quiz, paper, printed, attempt, late, toRewrite, toRemove, admitted,
                       toOpen, toAnswer, grader, gradebook, keyed, disturbed>>
    BY <1>10 DEF SaveAnswer
  <2>2. answer' \in Sheets
    <3>1. [answer[s][n][q] EXCEPT !.pick = pick] \in Answers
      BY <1>a DEF Answers
    <3> QED
      BY <1>a, <2>1, <3>1 DEF Sheets
  <2>3. \A x \in Sitters, m \in Numbers, r \in Questions :
          r # q => answer'[x][m][r] = answer[x][m][r]
    BY <1>t, <2>1 DEF QuizTypeOK
  <2>4. \A x \in Sitters, m \in Numbers, r \in Questions :
          answer'[x][m][r] # NoAnswer => r \in paper'
    BY <1>t, <2>1, <2>3 DEF QuizTypeOK
  <2> QED
    BY <1>t, <2>1, <2>2, <2>4
    DEF QuizShape, QuizTypeOK, InProgress, HasSettled, Sheets, Answers
<1>11. ASSUME NEW g \in Graders, NEW s \in Sitters, NEW n \in Numbers, NEW as \in Settled,
              NEW next \in Numbers \cup {0}, Begin(g, s, n, as, next)
       PROVE  QuizShape'
  <2> DEFINE w == [NoGrader EXCEPT !.step = "reading", !.student = s, !.number = n, !.as = as,
                                   !.next = next]
  <2>1. w \in Settlements
    BY DEF NoGrader, Settlements
  <2>2. grader' = [grader EXCEPT ![g] = w]
    BY <1>11 DEF Begin
  <2>3. disturbed' \subseteq Sitters
    BY <1>11, <1>t DEF Begin, QuizTypeOK
  <2> HIDE DEF w
  <2> QED
    BY <1>11, <2>1, <2>2, <2>3 DEF Begin, QuizShape, QuizTypeOK, InProgress, HasSettled
<1>12. ASSUME NEW g \in Graders, NEW s \in Sitters, NEW n \in Numbers,
              Submit(g, s, n) \/ Expire(g, s, n) \/ ExpireAndGoOn(g, s, n)
       PROVE  QuizShape'
  <2>1. CASE Submit(g, s, n)
    BY <1>11, <2>1 DEF Submit, Settled
  <2>2. CASE Expire(g, s, n)
    BY <1>11, <2>2 DEF Expire, Settled
  <2>3. CASE ExpireAndGoOn(g, s, n)
    <3>1. (IF AllowanceLeft(s) THEN NextNumber(s) ELSE 0) \in Numbers \cup {0}
      BY <1>t, NextFits DEF Numbering, Numbered
    <3> QED
      BY <1>11, <2>3, <3>1 DEF ExpireAndGoOn, Settled
  <2> QED
    BY <1>12, <2>1, <2>2, <2>3
<1>13. ASSUME NEW g \in Graders, ReadAnswers(g)
       PROVE  QuizShape'
  <2>1. grader[g] \in Settlements
    BY <1>13, <1>t, GraderFacts DEF ReadAnswers
  <2>2. AnswersOf(grader[g].student, grader[g].number, "right") \subseteq Questions
        /\ AnswersOf(grader[g].student, grader[g].number, "wrong") \subseteq Questions
    BY <1>t DEF AnswersOf, QuizTypeOK
  <2>3. grader' \in [Graders -> Settlements \cup {NoGrader}]
    BY <1>13, <1>t, <2>1, <2>2 DEF ReadAnswers, QuizTypeOK, Settlements
  <2> QED
    BY <1>13, <2>3 DEF ReadAnswers, QuizShape, QuizTypeOK, InProgress, HasSettled
<1>14. ASSUME NEW g \in Graders, Settle(g)
       PROVE  QuizShape'
  <2> DEFINE s == grader[g].student
             n == grader[g].number
             seen == grader[g].right \cup grader[g].wrong
             row == [status |-> grader[g].as, score |-> Cardinality(grader[g].right)]
  <2>1. /\ grader[g] \in Settlements /\ s \in Sitters /\ n \in Numbers
        /\ grader[g].as \in Settled /\ grader[g].right \subseteq Questions
    BY <1>14, <1>t, GraderFacts DEF Settle
  <2>2. /\ Cardinality(grader[g].right) \in Nat
        /\ Cardinality(grader[g].right) <= Cardinality(Questions)
    BY <2>1, QuestionsFinite, FS_Subset, FS_CardinalityType
  <2>3. /\ row \in [status : {"NONE", "IN_PROGRESS"} \cup Settled, score : Nat \cup {NoScore}]
        /\ row.status \in Settled /\ row.score \in Nat /\ row.score <= Cardinality(Questions)
    BY <2>1, <2>2
  <2>4. /\ attempt' = [attempt EXCEPT ![s][n] = row] /\ late' = late \ {<<s, n>>}
        /\ UNCHANGED <<quiz, paper, printed, toRewrite, toRemove, admitted, toOpen,
                       toAnswer, gradebook, keyed, disturbed>>
    BY <1>14 DEF Settle
  <2> HIDE DEF row
  <2>5. \A x \in Sitters, m \in Numbers :
          attempt'[x][m] = IF x = s /\ m = n THEN row ELSE attempt[x][m]
    BY <1>t, <2>1, <2>4 DEF QuizTypeOK
  <2>6. attempt' \in [Sitters -> [Numbers ->
          [status : {"NONE", "IN_PROGRESS"} \cup Settled, score : Nat \cup {NoScore}]]]
    BY <1>t, <2>1, <2>3, <2>4 DEF QuizTypeOK
  <2>7. \A x \in Sitters, m \in Numbers : HasSettled(x, m)' <=> attempt'[x][m].score # NoScore
    BY <1>b, <2>3, <2>5 DEF HasSettled
  <2>8. late' \subseteq {x \in Sitters \X Numbers : InProgress(x[1], x[2])'}
    BY <1>t, <2>4, <2>5 DEF QuizTypeOK, InProgress
  <2>9. \A q \in Questions : MarkOf(g, q) \in {"none", "earned", "missed"}
    BY DEF MarkOf
  <2>10. answer' = [answer EXCEPT ![s][n] = [q \in Questions |->
           IF q \in seen THEN [answer[s][n][q] EXCEPT !.mark = MarkOf(g, q)]
           ELSE answer[s][n][q]]]
    BY <1>14 DEF Settle
  <2>11. answer' \in [Sitters -> [Numbers -> [Questions ->
           [pick : {"none", "right", "wrong"}, mark : {"none", "earned", "missed"}]]]]
    <3>1. \A q \in Questions : [answer[s][n][q] EXCEPT !.mark = MarkOf(g, q)] \in Answers
      BY <1>a, <2>1, <2>9 DEF Answers
    <3>2. answer' \in Sheets
      BY <1>a, <2>1, <2>10, <3>1 DEF Sheets
    <3> QED
      BY <3>2 DEF Sheets, Answers
  <2>12. \A x \in Sitters, m \in Numbers, q \in Questions :
           answer'[x][m][q] # NoAnswer => q \in paper
    <3>1. \A q \in Questions : q \in seen => q \in paper
      <4>1. \A q \in Questions : q \in seen => answer[s][n][q].pick # "none"
        BY <1>14 DEF Settle
      <4> QED
        BY <1>t, <2>1, <4>1 DEF QuizTypeOK, NoAnswer
    <3> QED
      BY <1>t, <2>1, <2>10, <3>1 DEF QuizTypeOK
  <2>13. grader' \in [Graders -> Settlements \cup {NoGrader}]
    BY <1>14, <1>t, <2>1 DEF Settle, QuizTypeOK, Settlements
  <2>14. \A x \in Sitters, m \in Numbers : attempt'[x][m].score # NoScore =>
           attempt'[x][m].score <= Cardinality(Questions)
    BY <2>3, <2>5 DEF QuizShape
  <2> QED
    BY <1>t, <2>4, <2>6, <2>7, <2>8, <2>11, <2>12, <2>13, <2>14 DEF QuizShape, QuizTypeOK
<1>15. ASSUME NEW g \in Graders, ReadBest(g)
       PROVE  QuizShape'
  <2>1. grader[g] \in Settlements /\ grader[g].student \in Sitters
    BY <1>15, <1>t, GraderFacts DEF ReadBest
  <2>2. BestScore(grader[g].student) \in Nat
    BY <1>15, <2>1, BestFits DEF ReadBest
  <2>3. grader' \in [Graders -> Settlements \cup {NoGrader}]
    BY <1>15, <1>t, <2>1, <2>2 DEF ReadBest, QuizTypeOK, Settlements
  <2>4. UNCHANGED <<quiz, paper, printed, attempt, answer, late, toRewrite, toRemove, admitted,
                    toOpen, toAnswer, gradebook, keyed, disturbed>>
    BY <1>15 DEF ReadBest
  <2> QED
    BY <1>t, <1>u, <2>3, <2>4 DEF QuizShape, QuizTypeOK
<1>16. ASSUME NEW g \in Graders, Finish(g)
       PROVE  QuizShape'
  <2>1. /\ grader[g].student \in Sitters /\ grader[g].next \in Numbers \cup {0}
        /\ grader[g].best \in Nat \cup {NoScore}
    BY <1>16, <1>t, GraderFacts DEF Finish
  <2>2. gradebook' \in [Sitters -> Nat \cup {NoScore}]
    BY <1>16, <1>t, <2>1 DEF Finish, QuizTypeOK
  <2>3. toOpen' \subseteq Sitters \X Numbers
    BY <1>16, <1>t, <2>1 DEF Finish, QuizTypeOK
  <2> QED
    BY <1>16, <2>2, <2>3 DEF Finish, QuizShape, QuizTypeOK, InProgress, HasSettled
<1>17. ASSUME NEW g \in Graders, DropGrader(g)
       PROVE  QuizShape'
  <2>1. grader[g].student \in Sitters
    BY <1>17, <1>t, GraderFacts DEF DropGrader
  <2>2. disturbed' \subseteq Sitters
    BY <1>17, <1>t, <2>1 DEF DropGrader, QuizTypeOK
  <2> QED
    BY <1>17, <2>2 DEF DropGrader, QuizShape, QuizTypeOK, InProgress, HasSettled
<1>18. ASSUME NEW s \in Sitters, NEW mark \in TeachersMarks, KeyIn(s, mark)
       PROVE  QuizShape'
  <2>1. mark \in Nat
    BY TeachersMarksAssumption
  <2>2. /\ gradebook' = [gradebook EXCEPT ![s] = mark] /\ keyed' = keyed \cup {s} /\ Counts
        /\ UNCHANGED <<quiz, paper, printed, attempt, answer, late, toRewrite, toRemove,
                       admitted, toOpen, toAnswer, grader, disturbed>>
    BY <1>18 DEF KeyIn
  <2>3. gradebook' \in [Sitters -> Nat \cup {NoScore}] /\ keyed' \subseteq Sitters
    BY <1>t, <2>1, <2>2 DEF QuizTypeOK
  <2> QED
    BY <1>t, <1>u, <2>2, <2>3 DEF QuizShape, QuizTypeOK
<1>19. CASE UNCHANGED quizVars
  BY <1>19 DEF quizVars, QuizShape, QuizTypeOK, InProgress, HasSettled
<1> QED
  BY <1>1, <1>2, <1>3, <1>4, <1>5, <1>6, <1>7, <1>8, <1>9, <1>10, <1>12, <1>13, <1>14, <1>15,
     <1>16, <1>17, <1>18, <1>19
  DEF QuizNext

(* What leaves the rows where they are, or only ends attempts, keeps every *)
(* number that was due due.                                                *)
LEMMA StillDue ==
  ASSUME \A s \in Sitters : Sat(s)' = Sat(s),
         \A s \in Sitters, n \in Numbers : InProgress(s, n)' => InProgress(s, n)
  PROVE  /\ Numbered => Numbered'
         /\ \A s \in Sitters, n \in Numbers : Due(s, n) => Due(s, n)'
         /\ \A s \in Sitters, n, m \in Numbers : DueAfter(s, n, m) => DueAfter(s, n, m)'
<1>1. \A s \in Sitters : Sat(s) \subseteq Numbers
  BY DEF Sat
<1>2. ASSUME Numbered
      PROVE  Numbered'
  BY <1>2 DEF Numbered, Prefix, OneAtMost
<1>3. ASSUME NEW s \in Sitters, NEW n \in Numbers, Due(s, n)
      PROVE  Due(s, n)'
  BY <1>1, <1>3 DEF Due, NextAfter, NothingInProgress
<1>4. ASSUME NEW s \in Sitters, NEW n \in Numbers, NEW m \in Numbers, DueAfter(s, n, m)
      PROVE  DueAfter(s, n, m)'
  BY <1>1, <1>4 DEF DueAfter, NextAfter
<1> QED
  BY <1>2, <1>3, <1>4

LEMMA NumberingStep ==
  QuizShape /\ Numbering /\ [QuizNext]_quizVars => Numbering'
<1> SUFFICES ASSUME QuizShape, Numbering, [QuizNext]_quizVars
             PROVE  Numbering'
  OBVIOUS
<1> USE MaxAttemptsAssumption
<1>t. QuizTypeOK
  BY DEF QuizShape
<1>n. Numbered /\ OpensNext /\ GoesOnToNext
  BY DEF Numbering
<1>a. ASSUME UNCHANGED attempt
      PROVE  /\ Numbered'
             /\ \A s \in Sitters, n \in Numbers : Due(s, n) => Due(s, n)'
             /\ \A s \in Sitters, n, m \in Numbers : DueAfter(s, n, m) => DueAfter(s, n, m)'
  <2>1. \A s \in Sitters : Sat(s)' = Sat(s)
    BY <1>a DEF Sat
  <2>2. \A s \in Sitters, n \in Numbers : InProgress(s, n)' => InProgress(s, n)
    BY <1>a DEF InProgress
  <2> QED
    BY <1>n, <2>1, <2>2, StillDue
<1>1. ASSUME UNCHANGED <<attempt, toOpen, grader>>, quiz.stage = "REMOVED" => quiz'.stage = "REMOVED"
      PROVE  Numbering'
  <2>1. OpensNext'
    BY <1>1, <1>a, <1>n DEF OpensNext
  <2>2. GoesOnToNext'
    BY <1>1, <1>a, <1>n DEF GoesOnToNext
  <2> QED
    BY <1>1, <1>a, <2>1, <2>2 DEF Numbering
<1>2. ASSUME NEW P \in Papers, Create(P) \/ Rewrite(P)
      PROVE  Numbering'
  <2>1. quiz.stage = "REMOVED" => quiz'.stage = "REMOVED"
    BY <1>2 DEF Create, Rewrite
  <2> QED
    BY <1>1, <1>2, <2>1 DEF Create, Rewrite
<1>3. CASE CheckDraft \/ Publish \/ CheckUnsat \/ PassTime
  <2>1. quiz.stage = "REMOVED" => quiz'.stage = "REMOVED"
    BY <1>3, <1>t DEF CheckDraft, Publish, CheckUnsat, PassTime, QuizTypeOK
  <2> QED
    BY <1>1, <1>3, <2>1 DEF CheckDraft, Publish, CheckUnsat, PassTime
<1>4. CASE Remove
  <2>1. quiz'.stage = "REMOVED" /\ UNCHANGED <<toOpen, grader>>
    BY <1>4, <1>t DEF Remove, QuizTypeOK
  <2>2. \A s \in Sitters, n \in Numbers : attempt'[s][n].status = "NONE"
    BY <1>4 DEF Remove, NoAttempt
  <2>3. ASSUME NEW s \in Sitters
        PROVE  Prefix(s)' /\ OneAtMost(s)'
    <3>1. Sat(s)' = {}
      BY <2>2 DEF Sat
    <3>2. Sat(s)' = 1..0 /\ 0 \in 0..MaxAttempts
      BY <3>1
    <3> QED
      BY <2>2, <3>2 DEF Prefix, OneAtMost, InProgress
  <2>4. OpensNext'
    BY <1>n, <2>1 DEF OpensNext
  <2>5. GoesOnToNext'
    BY <1>n, <2>1 DEF GoesOnToNext
  <2> QED
    BY <2>3, <2>4, <2>5 DEF Numbering, Numbered
<1>5. ASSUME NEW s \in Sitters, NEW n \in Numbers, RunOut(s, n) \/ CheckAttempt(s, n)
      PROVE  Numbering'
  BY <1>1, <1>5 DEF RunOut, CheckAttempt
<1>f. ASSUME NEW s \in Sitters, FindOpen(s)
      PROVE  Numbering'
  BY <1>1, <1>f DEF FindOpen
<1>6. ASSUME NEW s \in Sitters, NEW n \in Numbers, NEW q \in Questions,
             NEW pick \in {"right", "wrong"}, SaveAnswer(s, n, q, pick)
      PROVE  Numbering'
  BY <1>1, <1>6 DEF SaveAnswer
<1>7. ASSUME NEW s \in Sitters, ChooseNext(s)
      PROVE  Numbering'
  <2>1. /\ UNCHANGED <<quiz, attempt, grader>> /\ NothingInProgress(s) /\ AllowanceLeft(s)
        /\ toOpen' = toOpen \cup {<<s, NextNumber(s)>>}
    BY <1>7 DEF ChooseNext
  <2>2. NextNumber(s) \in Numbers /\ NextNumber(s) <= MaxAttempts /\ Due(s, NextNumber(s))
    BY <1>n, <1>t, <2>1, NextFits DEF Numbered, Due
  <2> DEFINE k == NextNumber(s)
  <2>3. k \in Numbers /\ k <= MaxAttempts /\ Due(s, k) /\ toOpen' = toOpen \cup {<<s, k>>}
    BY <2>1, <2>2
  <2> HIDE DEF k
  <2>4. OpensNext'
    BY <1>a, <1>n, <2>1, <2>3 DEF OpensNext
  <2>5. GoesOnToNext'
    BY <1>a, <1>n, <2>1 DEF GoesOnToNext
  <2> QED
    BY <1>a, <2>1, <2>4, <2>5 DEF Numbering
<1>8. ASSUME NEW s \in Sitters, NEW n \in Numbers, Open(s, n)
      PROVE  Numbering'
  <2>1. /\ <<s, n>> \in toOpen /\ quiz.stage # "REMOVED" /\ attempt[s][n].status = "NONE"
        /\ attempt' = [attempt EXCEPT ![s][n].status = "IN_PROGRESS"]
        /\ toOpen' = toOpen \ {<<s, n>>} /\ UNCHANGED <<quiz, grader>>
    BY <1>8 DEF Open, Exists
  <2>2. n <= MaxAttempts /\ n \notin Sat(s) /\ NextAfter(s, n) /\ NothingInProgress(s)
    BY <1>n, <2>1 DEF OpensNext, Due, Sat
  <2>3. \A x \in Sitters, m \in Numbers :
          attempt'[x][m].status = IF x = s /\ m = n THEN "IN_PROGRESS" ELSE attempt[x][m].status
    BY <1>t, <2>1 DEF QuizTypeOK
  <2>4. PICK k \in 0..MaxAttempts : Sat(s) = 1..k
    BY <1>n DEF Numbered, Prefix
  <2>5. n \in Nat /\ n = k + 1 /\ Sat(s) \cup {n} = 1..n
    BY <2>2, <2>4 DEF NextAfter, Numbers
  <2>6. Sat(s)' = 1..n /\ \A x \in Sitters \ {s} : Sat(x)' = Sat(x)
    BY <2>3, <2>5 DEF Sat
  <2>7. \A x \in Sitters \ {s}, m \in Numbers : InProgress(x, m)' <=> InProgress(x, m)
    BY <2>3 DEF InProgress
  <2>8. \A m \in Numbers : InProgress(s, m)' => m = n
    BY <2>2, <2>3 DEF InProgress, NothingInProgress, Sat
  <2>9. Numbered'
    <3> SUFFICES ASSUME NEW x \in Sitters
                 PROVE  Prefix(x)' /\ OneAtMost(x)'
      BY DEF Numbered
    <3>1. CASE x = s
      <4>1. n \in 0..MaxAttempts
        BY <2>2, <2>5
      <4> QED
        BY <2>6, <2>8, <3>1, <4>1 DEF Prefix, OneAtMost
    <3>2. CASE x # s
      BY <1>n, <2>6, <2>7, <3>2 DEF Numbered, Prefix, OneAtMost
    <3> QED
      BY <3>1, <3>2
  <2>10. ASSUME NEW x \in Sitters, NEW m \in Numbers
         PROVE  /\ Due(x, m) => Due(x, m)'
                /\ \A i \in Numbers : DueAfter(x, m, i) => DueAfter(x, m, i)'
    <3>1. CASE x = s
      <4>1. Due(x, m) \/ (\E i \in Numbers : DueAfter(x, m, i)) => m \in Sat(s)'
        BY <2>4, <2>5, <2>6, <3>1 DEF Due, DueAfter, NextAfter, Numbers
      <4> QED
        BY <3>1, <4>1 DEF Due, DueAfter
    <3>2. CASE x # s
      <4>1. Sat(x) \subseteq Numbers
        BY DEF Sat
      <4> QED
        BY <2>6, <2>7, <3>2, <4>1 DEF Due, DueAfter, NextAfter, NothingInProgress
    <3> QED
      BY <3>1, <3>2
  <2>11. OpensNext'
    BY <1>n, <2>1, <2>10 DEF OpensNext
  <2>12. GoesOnToNext'
    BY <1>n, <2>1, <2>10 DEF GoesOnToNext
  <2> QED
    BY <2>9, <2>11, <2>12 DEF Numbering
<1>9. ASSUME NEW g \in Graders, NEW s \in Sitters, NEW n \in Numbers, NEW as \in Settled,
             NEW next \in Numbers \cup {0}, Begin(g, s, n, as, next),
             next # 0 => next <= MaxAttempts /\ NextAfter(s, next)
      PROVE  Numbering'
  <2> DEFINE w == [NoGrader EXCEPT !.step = "reading", !.student = s, !.number = n, !.as = as,
                                   !.next = next]
  <2>1. /\ InProgress(s, n) /\ UNCHANGED <<quiz, attempt, toOpen>>
        /\ grader' = [grader EXCEPT ![g] = w]
    BY <1>9 DEF Begin
  <2>2. w.step = "reading" /\ w.student = s /\ w.number = n /\ w.next = next
    BY DEF NoGrader
  <2>3. next # 0 => DueAfter(s, next, n)
    <3>1. \A i \in Sat(s) : InProgress(s, i) => i = n
      BY <1>n, <2>1 DEF Numbered, OneAtMost, Sat
    <3> QED
      BY <1>9, <3>1 DEF DueAfter
  <2>4. OpensNext'
    BY <1>a, <1>n, <2>1 DEF OpensNext
  <2> HIDE DEF w
  <2>5. GoesOnToNext'
    <3> SUFFICES ASSUME NEW h \in Graders, NEW x \in Sitters, NEW k \in Numbers,
                        grader'[h].step # "idle", grader'[h].student = x, grader'[h].next = k
                 PROVE  /\ k <= MaxAttempts
                        /\ quiz'.stage # "REMOVED" =>
                             IF grader'[h].step \in {"reading", "marked"}
                             THEN \A m \in Numbers : grader'[h].number = m => DueAfter(x, k, m)'
                             ELSE Due(x, k)'
      BY DEF GoesOnToNext
    <3>1. CASE h = g
      <4>1. grader'[h] = w
        BY <1>t, <2>1, <3>1 DEF QuizTypeOK
      <4>2. x = s /\ k = next /\ next # 0
        BY <2>2, <4>1 DEF Numbers
      <4>3. DueAfter(s, next, n)'
        BY <1>a, <2>1, <2>3, <4>2
      <4> QED
        BY <1>9, <2>2, <4>1, <4>2, <4>3
    <3>2. CASE h # g
      <4>1. grader'[h] = grader[h]
        BY <1>t, <2>1, <3>2 DEF QuizTypeOK
      <4> QED
        BY <1>a, <1>n, <2>1, <4>1 DEF GoesOnToNext
    <3> QED
      BY <3>1, <3>2
  <2> QED
    BY <1>a, <2>1, <2>4, <2>5 DEF Numbering
<1>10. ASSUME NEW g \in Graders, NEW s \in Sitters, NEW n \in Numbers,
              Submit(g, s, n) \/ Expire(g, s, n) \/ ExpireAndGoOn(g, s, n)
       PROVE  Numbering'
  <2>1. CASE Submit(g, s, n)
    BY <1>9, <2>1 DEF Submit, Settled
  <2>2. CASE Expire(g, s, n)
    BY <1>9, <2>2 DEF Expire, Settled
  <2>3. CASE ExpireAndGoOn(g, s, n)
    <3> DEFINE next == IF AllowanceLeft(s) THEN NextNumber(s) ELSE 0
    <3>1. next \in Numbers \cup {0} /\ (next # 0 => next <= MaxAttempts /\ NextAfter(s, next))
      BY <1>n, <1>t, NextFits DEF Numbered
    <3>2. Begin(g, s, n, "EXPIRED", next)
      BY <2>3 DEF ExpireAndGoOn
    <3> HIDE DEF next
    <3> QED
      BY <1>9, <3>1, <3>2 DEF Settled
  <2> QED
    BY <1>10, <2>1, <2>2, <2>3
<1>11. ASSUME NEW g \in Graders, ReadAnswers(g)
       PROVE  Numbering'
  <2>1. /\ UNCHANGED <<quiz, attempt, toOpen>> /\ grader[g].step = "reading"
        /\ \A h \in Graders : h # g => grader'[h] = grader[h]
        /\ grader'[g] = [grader[g] EXCEPT !.step = "marked",
             !.right = AnswersOf(grader[g].student, grader[g].number, "right"),
             !.wrong = AnswersOf(grader[g].student, grader[g].number, "wrong")]
    BY <1>11, <1>t DEF ReadAnswers, QuizTypeOK
  <2>2. grader[g] \in Settlements
    BY <1>t, <2>1, GraderFacts
  <2>3. /\ grader'[g].step = "marked" /\ grader'[g].student = grader[g].student
        /\ grader'[g].number = grader[g].number /\ grader'[g].next = grader[g].next
    BY <2>1, <2>2 DEF Settlements
  <2>4. OpensNext'
    BY <1>a, <1>n, <2>1 DEF OpensNext
  <2>5. GoesOnToNext'
    <3>1. \A h \in Graders :
            /\ grader'[h].step # "idle" => grader[h].step # "idle"
            /\ grader'[h].student = grader[h].student /\ grader'[h].next = grader[h].next
            /\ grader'[h].number = grader[h].number
            /\ grader'[h].step \in {"reading", "marked"} <=> grader[h].step \in {"reading", "marked"}
      BY <2>1, <2>3
    <3> QED
      BY <1>a, <1>n, <2>1, <3>1 DEF GoesOnToNext
  <2> QED
    BY <1>a, <2>1, <2>4, <2>5 DEF Numbering
<1>12. ASSUME NEW g \in Graders, Settle(g)
       PROVE  Numbering'
  <2> DEFINE s == grader[g].student
             n == grader[g].number
  <2>1. /\ grader[g].step = "marked" /\ attempt[s][n].status # "NONE"
        /\ attempt' = [attempt EXCEPT ![s][n] =
             [status |-> grader[g].as, score |-> Cardinality(grader[g].right)]]
        /\ grader' = [grader EXCEPT ![g].step = "settled", ![g].right = {}, ![g].wrong = {}]
        /\ UNCHANGED <<quiz, toOpen>>
    BY <1>12 DEF Settle
  <2>2. grader[g] \in Settlements /\ s \in Sitters /\ n \in Numbers /\ grader[g].as \in Settled
    BY <1>t, <2>1, GraderFacts
  <2> HIDE DEF s, n
  <2>3. \A x \in Sitters, m \in Numbers :
          attempt'[x][m].status = IF x = s /\ m = n THEN grader[g].as ELSE attempt[x][m].status
    BY <1>t, <2>1, <2>2 DEF QuizTypeOK
  <2>4. grader[g].as # "NONE" /\ grader[g].as # "IN_PROGRESS"
    BY <2>2 DEF Settled
  <2>5. \A x \in Sitters : Sat(x)' = Sat(x)
    BY <2>1, <2>3, <2>4 DEF Sat
  <2>6. \A x \in Sitters, m \in Numbers :
          InProgress(x, m)' => InProgress(x, m) /\ ~ (x = s /\ m = n)
    BY <2>3, <2>4 DEF InProgress
  <2>7. /\ Numbered'
        /\ \A x \in Sitters, m \in Numbers : Due(x, m) => Due(x, m)'
        /\ \A x \in Sitters, m, i \in Numbers : DueAfter(x, m, i) => DueAfter(x, m, i)'
    BY <1>n, <2>5, <2>6, StillDue
  <2>8. OpensNext'
    BY <1>n, <2>1, <2>7 DEF OpensNext
  <2>9. /\ grader'[g].step = "settled" /\ grader'[g].student = s
        /\ grader'[g].number = n /\ grader'[g].next = grader[g].next
        /\ \A h \in Graders : h # g => grader'[h] = grader[h]
    BY <1>t, <2>1, <2>2 DEF QuizTypeOK, Settlements, s, n
  <2>10. GoesOnToNext'
    <3> SUFFICES ASSUME NEW h \in Graders, NEW x \in Sitters, NEW k \in Numbers,
                        grader'[h].step # "idle", grader'[h].student = x, grader'[h].next = k
                 PROVE  /\ k <= MaxAttempts
                        /\ quiz'.stage # "REMOVED" =>
                             IF grader'[h].step \in {"reading", "marked"}
                             THEN \A m \in Numbers : grader'[h].number = m => DueAfter(x, k, m)'
                             ELSE Due(x, k)'
      BY DEF GoesOnToNext
    <3>1. CASE h = g
      <4>1. x = s /\ grader[g].next = k
        BY <2>9, <3>1
      <4>2. PICK j \in Numbers : j = n
        BY <2>2
      <4>3. k <= MaxAttempts /\ (quiz.stage # "REMOVED" => DueAfter(x, k, j))
        BY <1>n, <2>1, <2>2, <4>1, <4>2 DEF GoesOnToNext, s, n
      <4>4. \A m \in Numbers : InProgress(x, m)' => InProgress(x, m) /\ m # j
        BY <2>6, <4>1, <4>2
      <4>5. ASSUME DueAfter(x, k, j)
            PROVE  Due(x, k)'
        <5>1. Sat(x) \subseteq Numbers /\ Sat(x)' = Sat(x)
          BY <2>5 DEF Sat
        <5>2. CASE k \in Sat(x)
          BY <5>1, <5>2 DEF Due
        <5>3. CASE k \notin Sat(x)
          <6>1. NextAfter(x, k) /\ \A i \in Sat(x) : InProgress(x, i) => i = j
            BY <4>5, <5>3 DEF DueAfter
          <6>2. \A i \in Sat(x) : ~InProgress(x, i)'
            BY <4>4, <5>1, <6>1
          <6> QED
            BY <5>1, <6>1, <6>2 DEF Due, NextAfter, NothingInProgress
        <5> QED
          BY <5>2, <5>3
      <4> QED
        BY <2>1, <2>9, <3>1, <4>3, <4>5
    <3>2. CASE h # g
      <4>1. grader'[h] = grader[h]
        BY <2>9, <3>2
      <4> QED
        BY <1>n, <2>1, <2>7, <4>1 DEF GoesOnToNext
    <3> QED
      BY <3>1, <3>2
  <2> QED
    BY <2>7, <2>8, <2>10 DEF Numbering
<1>13. ASSUME NEW g \in Graders, ReadBest(g)
       PROVE  Numbering'
  <2>1. /\ UNCHANGED <<quiz, attempt, toOpen>> /\ grader[g].step = "settled"
        /\ \A h \in Graders : h # g => grader'[h] = grader[h]
        /\ grader'[g] = [grader[g] EXCEPT !.step = "synced",
                                         !.best = BestScore(grader[g].student)]
    BY <1>13, <1>t DEF ReadBest, QuizTypeOK
  <2>2. grader[g] \in Settlements
    BY <1>t, <2>1, GraderFacts
  <2>3. /\ grader'[g].step = "synced" /\ grader'[g].student = grader[g].student
        /\ grader'[g].number = grader[g].number /\ grader'[g].next = grader[g].next
    BY <2>1, <2>2 DEF Settlements
  <2>4. OpensNext'
    BY <1>a, <1>n, <2>1 DEF OpensNext
  <2>5. GoesOnToNext'
    <3>1. \A h \in Graders :
            /\ grader'[h].step # "idle" => grader[h].step # "idle"
            /\ grader'[h].student = grader[h].student /\ grader'[h].next = grader[h].next
            /\ grader'[h].number = grader[h].number
            /\ grader'[h].step \in {"reading", "marked"} <=> grader[h].step \in {"reading", "marked"}
      BY <2>1, <2>3
    <3> QED
      BY <1>a, <1>n, <2>1, <3>1 DEF GoesOnToNext
  <2> QED
    BY <1>a, <2>1, <2>4, <2>5 DEF Numbering
<1>14. ASSUME NEW g \in Graders, grader[g].step \notin {"reading", "marked"} \/ toOpen' = toOpen,
              grader[g].step # "idle", grader' = [grader EXCEPT ![g] = NoGrader],
              UNCHANGED <<quiz, attempt>>,
              \/ toOpen' = toOpen
              \/ grader[g].next # 0 /\ toOpen' = toOpen \cup {<<grader[g].student, grader[g].next>>}
       PROVE  Numbering'
  <2>1. grader[g].student \in Sitters /\ grader[g].next \in Numbers \cup {0}
    BY <1>14, <1>t, GraderFacts
  <2>2. grader'[g].step = "idle" /\ \A h \in Graders : h # g => grader'[h] = grader[h]
    BY <1>14, <1>t DEF QuizTypeOK, NoGrader
  <2>3. OpensNext'
    <3>1. CASE toOpen' = toOpen
      BY <1>14, <1>a, <1>n, <3>1 DEF OpensNext
    <3>2. CASE toOpen' # toOpen
      <4> DEFINE x == grader[g].student
                 k == grader[g].next
      <4>1. x \in Sitters /\ k \in Numbers /\ toOpen' = toOpen \cup {<<x, k>>}
        BY <1>14, <2>1, <3>2
      <4>2. k <= MaxAttempts /\ (quiz.stage # "REMOVED" => Due(x, k))
        BY <1>14, <1>n, <3>2, <4>1 DEF GoesOnToNext
      <4> HIDE DEF x, k
      <4> QED
        BY <1>14, <1>a, <1>n, <4>1, <4>2 DEF OpensNext
    <3> QED
      BY <3>1, <3>2
  <2>4. GoesOnToNext'
    BY <1>14, <1>a, <1>n, <2>2 DEF GoesOnToNext
  <2> QED
    BY <1>14, <1>a, <2>3, <2>4 DEF Numbering
<1>15. ASSUME NEW g \in Graders, Finish(g)
       PROVE  Numbering'
  BY <1>14, <1>15 DEF Finish
<1>16. ASSUME NEW g \in Graders, DropGrader(g)
       PROVE  Numbering'
  BY <1>14, <1>16 DEF DropGrader
<1>17. ASSUME NEW s \in Sitters, NEW mark \in TeachersMarks, KeyIn(s, mark)
       PROVE  Numbering'
  BY <1>1, <1>17 DEF KeyIn
<1>18. CASE UNCHANGED quizVars
  BY <1>1, <1>18 DEF quizVars
<1> QED
  BY <1>2, <1>3, <1>4, <1>5, <1>f, <1>6, <1>7, <1>8, <1>10, <1>11, <1>12, <1>13, <1>15, <1>16, <1>17,
     <1>18
  DEF QuizNext

LEMMA QuizInvHolds == QuizSpec => [](QuizShape /\ Numbering)
<1>1. QuizInit => QuizShape /\ Numbering
  <2> SUFFICES ASSUME QuizInit
               PROVE  QuizShape /\ Numbering
    OBVIOUS
  <2> USE MaxAttemptsAssumption
  <2>1. /\ \A s \in Sitters, n \in Numbers : attempt[s][n] = NoAttempt
        /\ NoAttempt.status = "NONE" /\ NoAttempt.score = NoScore
        /\ NoAttempt \in [status : {"NONE", "IN_PROGRESS"} \cup Settled, score : Nat \cup {NoScore}]
    BY DEF QuizInit, NoAttempt
  <2>2. NoAnswer \in [pick : {"none", "right", "wrong"}, mark : {"none", "earned", "missed"}]
    BY DEF NoAnswer
  <2>3. QuizTypeOK
    BY <2>1, <2>2 DEF QuizInit, QuizTypeOK, HasSettled, Settled
  <2>4. QuizShape
    BY <2>1, <2>3 DEF QuizInit, QuizShape
  <2>5. Numbered
    <3> SUFFICES ASSUME NEW s \in Sitters
                 PROVE  Prefix(s) /\ OneAtMost(s)
      BY DEF Numbered
    <3>1. Sat(s) = {} /\ \A n \in Numbers : ~InProgress(s, n)
      BY <2>1 DEF Sat, InProgress
    <3>2. Sat(s) = 1..0 /\ 0 \in 0..MaxAttempts
      BY <3>1
    <3> QED
      BY <3>1, <3>2 DEF Prefix, OneAtMost
  <2>6. OpensNext
    BY DEF QuizInit, OpensNext
  <2>7. GoesOnToNext
    BY DEF QuizInit, GoesOnToNext, NoGrader
  <2> QED
    BY <2>4, <2>5, <2>6, <2>7 DEF Numbering
<1> QED
  BY <1>1, QuizShapeStep, NumberingStep, PTL DEF QuizSpec

(* The rows of a quiz have the shape the schema gives them, whatever the   *)
(* requests about it do to each other.                                     *)
THEOREM QuizTypeCorrect == QuizSpec => []QuizTypeOK
<1>1. QuizShape => QuizTypeOK
  BY DEF QuizShape
<1> QED
  BY <1>1, QuizInvHolds, PTL

(* "A double tap can't open two papers at once": the attempts of a student *)
(* never exceed the allowance, one at most is in progress.                 *)
THEOREM OnePaperAtATimeAlways == QuizSpec => []OnePaperAtATime
<1>1. QuizShape /\ Numbering => OnePaperAtATime
  <2> SUFFICES ASSUME Numbering, NEW s \in Sitters
               PROVE  /\ attempt[s][MaxAttempts + 1].status = "NONE"
                      /\ \A m, n \in Numbers : InProgress(s, m) /\ InProgress(s, n) => m = n
    BY DEF OnePaperAtATime
  <2>1. PICK k \in 0..MaxAttempts : Sat(s) = 1..k
    BY DEF Numbering, Numbered, Prefix
  <2>2. MaxAttempts + 1 \in Numbers /\ MaxAttempts + 1 \notin Sat(s)
    BY <2>1, MaxAttemptsAssumption DEF Numbers
  <2> QED
    BY <2>2 DEF Sat, Numbering, Numbered, OneAtMost
<1> QED
  BY <1>1, QuizInvHolds, PTL

(* Of a student who is not disturbed: one request settles, it settles what *)
(* is in progress, only settled attempts bear marks and these add up, and  *)
(* the gradebook is the best of them but while a settlement is on its way  *)
(* there, or after a teacher wrote the cell.                               *)
Marked(s, n) == {q \in Questions : answer[s][n][q].mark = "earned"}
AlreadySettled(g) == grader[g].step \in {"settled", "synced"}
Book(s) ==
  /\ \A g, h \in GradersOf(s) : g = h
  /\ \A g \in GradersOf(s), n \in Numbers :
       ~AlreadySettled(g) /\ grader[g].number = n => InProgress(s, n)
  /\ \A n \in Numbers : ~HasSettled(s, n) => \A q \in Questions : answer[s][n][q].mark = "none"
  /\ \A n \in Numbers : HasSettled(s, n) => attempt[s][n].score = Cardinality(Marked(s, n))
  /\ Counts =>
       /\ s \notin keyed /\ (\A g \in GradersOf(s) : ~AlreadySettled(g)) =>
            gradebook[s] = BestScore(s)
       /\ \A g \in GradersOf(s) : grader[g].step = "synced" => grader[g].best = BestScore(s)
Books == \A s \in Sitters \ disturbed : Book(s)

LEMMA BookFrame ==
  ASSUME NEW s \in Sitters, Book(s), attempt'[s] = attempt[s],
         s \notin keyed' => s \notin keyed /\ gradebook'[s] = gradebook[s],
         \A n \in Numbers, q \in Questions : answer'[s][n][q].mark = answer[s][n][q].mark,
         GradersOf(s)' = GradersOf(s), \A g \in GradersOf(s) : grader'[g] = grader[g]
  PROVE  Book(s)'
<1>1. \A n \in Numbers : /\ HasSettled(s, n)' <=> HasSettled(s, n)
                         /\ InProgress(s, n)' <=> InProgress(s, n)
                         /\ Marked(s, n)' = Marked(s, n)
  BY DEF HasSettled, InProgress, Marked
<1>2. Scores(s)' = Scores(s)
  BY <1>1 DEF Scores
<1>3. BestScore(s)' = BestScore(s)
  BY <1>2 DEF BestScore
<1>4. \A g \in GradersOf(s) : AlreadySettled(g)' <=> AlreadySettled(g)
  BY DEF AlreadySettled
<1> QED
  BY <1>1, <1>3, <1>4 DEF Book

LEMMA BooksStep ==
  QuizShape /\ QuizShape' /\ Books /\ [QuizNext]_quizVars => Books'
<1> SUFFICES ASSUME QuizShape, QuizShape', Books, [QuizNext]_quizVars, NEW s \in Sitters,
                    s \notin disturbed'
             PROVE  Book(s)'
  BY DEF Books
<1>t. QuizTypeOK /\ QuizTypeOK'
  BY DEF QuizShape
<1>d. disturbed \subseteq disturbed'
  BY DEF QuizNext, quizVars, Create, CheckDraft, Rewrite, Publish, CheckUnsat, Remove, PassTime,
         RunOut, FindOpen, ChooseNext, Open, CheckAttempt, SaveAnswer, Begin, Submit, Expire,
         ExpireAndGoOn, ReadAnswers, Settle, ReadBest, Finish, DropGrader, KeyIn
<1>b. Book(s)
  BY <1>d DEF Books
<1>1. ASSUME UNCHANGED <<attempt, answer, grader, gradebook, keyed>>
      PROVE  Book(s)'
  <2>1. GradersOf(s)' = GradersOf(s)
    BY <1>1 DEF GradersOf
  <2> QED
    BY <1>1, <1>b, <2>1, BookFrame
<1>2. ASSUME NEW P \in Papers, Create(P)
      PROVE  Book(s)'
  BY <1>1, <1>2 DEF Create
<1>3. CASE CheckDraft \/ Publish \/ CheckUnsat \/ PassTime
  BY <1>1, <1>3 DEF CheckDraft, Publish, CheckUnsat, PassTime
<1>4. ASSUME NEW P \in Papers, Rewrite(P)
      PROVE  Book(s)'
  <2>1. /\ s \notin Started /\ UNCHANGED <<attempt, grader, gradebook, keyed>>
        /\ \A n \in Numbers, q \in Questions :
             answer'[s][n][q] = IF q \in paper THEN NoAnswer ELSE answer[s][n][q]
    BY <1>4 DEF Rewrite, AfterCascade
  <2>2. \A n \in Numbers : ~HasSettled(s, n)
    BY <2>1 DEF Started, Sat, HasSettled, Settled
  <2>3. \A n \in Numbers, q \in Questions : answer'[s][n][q].mark = answer[s][n][q].mark
    BY <1>b, <2>1, <2>2 DEF Book, NoAnswer
  <2>4. GradersOf(s)' = GradersOf(s)
    BY <2>1 DEF GradersOf
  <2> QED
    BY <1>b, <2>1, <2>3, <2>4, BookFrame
<1>5. CASE Remove
  <2>1. /\ s \notin Started /\ UNCHANGED <<grader, gradebook, keyed>>
        /\ \A n \in Numbers : attempt'[s][n].status = "NONE"
        /\ \A n \in Numbers, q \in Questions : answer'[s][n][q].mark = "none"
    BY <1>5 DEF Remove, NoAttempt, NoAnswer
  <2>2. \A n \in Numbers : attempt[s][n].status = "NONE"
    BY <2>1 DEF Started, Sat
  <2>3. \A n \in Numbers : ~HasSettled(s, n) /\ ~HasSettled(s, n)' /\ ~InProgress(s, n)
    BY <2>1, <2>2 DEF HasSettled, InProgress, Settled
  <2>4. Scores(s) = {} /\ Scores(s)' = {}
    BY <2>3 DEF Scores
  <2>5. BestScore(s)' = BestScore(s)
    BY <2>4 DEF BestScore
  <2>6. GradersOf(s)' = GradersOf(s) /\ \A g \in Graders : AlreadySettled(g)' <=> AlreadySettled(g)
    BY <2>1 DEF GradersOf, AlreadySettled
  <2>7. ASSUME NEW g \in GradersOf(s), NEW n \in Numbers
        PROVE  ~ (~AlreadySettled(g) /\ grader[g].number = n)
    BY <1>b, <2>3 DEF Book
  <2>8. GradersOf(s) \subseteq Graders
    BY DEF GradersOf
  <2> QED
    BY <1>b, <2>1, <2>3, <2>5, <2>6, <2>7, <2>8 DEF Book
<1>6. ASSUME NEW x \in Sitters, NEW n \in Numbers, RunOut(x, n) \/ CheckAttempt(x, n)
      PROVE  Book(s)'
  BY <1>1, <1>6 DEF RunOut, CheckAttempt
<1>7. ASSUME NEW x \in Sitters, FindOpen(x) \/ ChooseNext(x)
      PROVE  Book(s)'
  BY <1>1, <1>7 DEF FindOpen, ChooseNext
<1>8. ASSUME NEW x \in Sitters, NEW n \in Numbers, Open(x, n)
      PROVE  Book(s)'
  <2>1. /\ attempt[x][n].status = "NONE" /\ UNCHANGED <<answer, grader, gradebook, keyed>>
        /\ attempt' = [attempt EXCEPT ![x][n].status = "IN_PROGRESS"]
    BY <1>8 DEF Open
  <2>2. \A m \in Numbers :
          /\ attempt'[s][m].status = IF x = s /\ m = n THEN "IN_PROGRESS" ELSE attempt[s][m].status
          /\ attempt'[s][m].score = attempt[s][m].score
    BY <1>t, <2>1 DEF QuizTypeOK
  <2>3. \A m \in Numbers : /\ HasSettled(s, m)' <=> HasSettled(s, m)
                           /\ InProgress(s, m) => InProgress(s, m)'
                           /\ Marked(s, m)' = Marked(s, m)
    BY <2>1, <2>2 DEF HasSettled, InProgress, Settled, Marked
  <2>4. Scores(s)' = Scores(s)
    BY <2>2, <2>3 DEF Scores
  <2>5. BestScore(s)' = BestScore(s)
    BY <2>4 DEF BestScore
  <2>6. GradersOf(s)' = GradersOf(s) /\ \A g \in Graders : AlreadySettled(g)' <=> AlreadySettled(g)
    BY <2>1 DEF GradersOf, AlreadySettled
  <2>7. GradersOf(s) \subseteq Graders
    BY DEF GradersOf
  <2> QED
    BY <1>b, <2>1, <2>2, <2>3, <2>5, <2>6, <2>7 DEF Book
<1>9. ASSUME NEW x \in Sitters, NEW n \in Numbers, NEW q \in Questions,
             NEW pick \in {"right", "wrong"}, SaveAnswer(x, n, q, pick)
      PROVE  Book(s)'
  <2>1. /\ answer' = [answer EXCEPT ![x][n][q].pick = pick]
        /\ UNCHANGED <<attempt, grader, gradebook, keyed>>
    BY <1>9 DEF SaveAnswer
  <2>2. \A m \in Numbers, r \in Questions : answer'[s][m][r].mark = answer[s][m][r].mark
    BY <1>t, <2>1 DEF QuizTypeOK
  <2>3. GradersOf(s)' = GradersOf(s)
    BY <2>1 DEF GradersOf
  <2> QED
    BY <1>b, <2>1, <2>2, <2>3, BookFrame
<1>10. ASSUME NEW g \in Graders, \A h \in Graders \ {g} : grader'[h] = grader[h],
              g \notin GradersOf(s), g \notin GradersOf(s)',
              attempt'[s] = attempt[s], answer'[s] = answer[s],
              s \notin keyed' => s \notin keyed /\ gradebook'[s] = gradebook[s]
       PROVE  Book(s)'
  <2>1. GradersOf(s)' = GradersOf(s) /\ \A h \in GradersOf(s) : grader'[h] = grader[h]
    BY <1>10 DEF GradersOf
  <2> QED
    BY <1>10, <1>b, <2>1, BookFrame
<1>11. ASSUME NEW g \in GradersOf(s), \A h \in Graders \ {g} : grader'[h] = grader[h]
       PROVE  GradersOf(s) = {g} /\ GradersOf(s)' \subseteq {g}
  BY <1>11, <1>b DEF Book, GradersOf
<1>12. ASSUME NEW g \in Graders, NEW x \in Sitters, NEW n \in Numbers, NEW as \in Settled,
              NEW next, Begin(g, x, n, as, next)
       PROVE  Book(s)'
  <2> DEFINE w == [NoGrader EXCEPT !.step = "reading", !.student = x, !.number = n, !.as = as,
                                   !.next = next]
  <2>1. /\ grader[g].step = "idle" /\ InProgress(x, n)
        /\ UNCHANGED <<attempt, answer, gradebook, keyed>>
        /\ grader' = [grader EXCEPT ![g] = w]
        /\ x = s => GradersOf(s) = {}
    BY <1>12 DEF Begin
  <2>2. w.step = "reading" /\ w.student = x /\ w.number = n
    BY DEF NoGrader
  <2> HIDE DEF w
  <2>3. grader'[g] = w /\ \A h \in Graders \ {g} : grader'[h] = grader[h]
    BY <1>t, <2>1 DEF QuizTypeOK
  <2>4. CASE x # s
    <3>1. g \notin GradersOf(s) /\ g \notin GradersOf(s)'
      BY <2>1, <2>2, <2>3, <2>4 DEF GradersOf
    <3> QED
      BY <1>10, <2>1, <2>3, <3>1
  <2>5. CASE x = s
    <3>1. GradersOf(s)' = {g}
      BY <2>1, <2>2, <2>3, <2>5 DEF GradersOf
    <3>2. \A m \in Numbers : /\ HasSettled(s, m)' <=> HasSettled(s, m)
                             /\ InProgress(s, m)' <=> InProgress(s, m)
                             /\ Marked(s, m)' = Marked(s, m)
      BY <2>1 DEF HasSettled, InProgress, Marked
    <3>3. Scores(s)' = Scores(s)
      BY <2>1 DEF Scores, HasSettled
    <3>4. BestScore(s)' = BestScore(s)
      BY <3>3 DEF BestScore
    <3>5. Counts /\ s \notin keyed => gradebook[s] = BestScore(s)
      BY <1>b, <2>1, <2>5 DEF Book
    <3> QED
      BY <1>b, <2>1, <2>2, <2>3, <2>5, <3>1, <3>2, <3>4, <3>5 DEF Book
  <2> QED
    BY <2>4, <2>5
<1>13. ASSUME NEW g \in Graders, NEW x \in Sitters, NEW n \in Numbers,
              Submit(g, x, n) \/ Expire(g, x, n) \/ ExpireAndGoOn(g, x, n)
       PROVE  Book(s)'
  BY <1>12, <1>13 DEF Submit, Expire, ExpireAndGoOn, Settled
<1>14. ASSUME NEW g \in Graders, ReadAnswers(g)
       PROVE  Book(s)'
  <2>1. /\ UNCHANGED <<attempt, answer, gradebook, keyed>> /\ grader[g].step = "reading"
        /\ \A h \in Graders : h # g => grader'[h] = grader[h]
        /\ grader'[g] = [grader[g] EXCEPT !.step = "marked",
             !.right = AnswersOf(grader[g].student, grader[g].number, "right"),
             !.wrong = AnswersOf(grader[g].student, grader[g].number, "wrong")]
    BY <1>14, <1>t DEF ReadAnswers, QuizTypeOK
  <2>2. grader[g] \in Settlements
    BY <1>t, <2>1, GraderFacts
  <2>3. /\ grader'[g].step = "marked" /\ grader'[g].student = grader[g].student
        /\ grader'[g].number = grader[g].number
    BY <2>1, <2>2 DEF Settlements
  <2>4. CASE g \notin GradersOf(s)
    <3>1. g \notin GradersOf(s)'
      BY <2>1, <2>3, <2>4 DEF GradersOf
    <3> QED
      BY <1>10, <2>1, <2>4, <3>1
  <2>5. CASE g \in GradersOf(s)
    <3>1. GradersOf(s) = {g} /\ GradersOf(s)' \subseteq {g}
      BY <1>11, <2>1, <2>5
    <3>2. \A m \in Numbers : /\ HasSettled(s, m)' <=> HasSettled(s, m)
                             /\ InProgress(s, m)' <=> InProgress(s, m)
                             /\ Marked(s, m)' = Marked(s, m)
      BY <2>1 DEF HasSettled, InProgress, Marked
    <3>3. Scores(s)' = Scores(s)
      BY <2>1 DEF Scores, HasSettled
    <3>4. BestScore(s)' = BestScore(s)
      BY <3>3 DEF BestScore
    <3>5. ~AlreadySettled(g) /\ ~AlreadySettled(g)'
      BY <2>1, <2>3 DEF AlreadySettled
    <3>6. /\ gradebook' = gradebook /\ keyed' = keyed
          /\ Counts /\ s \notin keyed => gradebook[s] = BestScore(s)
      BY <1>b, <2>1, <3>1, <3>5 DEF Book
    <3>7. \A h \in GradersOf(s)', m \in Numbers :
            ~AlreadySettled(h)' /\ grader'[h].number = m => InProgress(s, m)'
      BY <1>b, <2>3, <2>5, <3>1, <3>2, <3>5 DEF Book
    <3>8. \A m \in Numbers : /\ ~HasSettled(s, m)' => \A q \in Questions : answer'[s][m][q].mark = "none"
                             /\ HasSettled(s, m)' => attempt'[s][m].score = Cardinality(Marked(s, m)')
      BY <1>b, <2>1, <3>2 DEF Book
    <3>9. \A h \in GradersOf(s)' : h = g /\ grader'[h].step # "synced"
      BY <2>3, <3>1
    <3> QED
      BY <3>4, <3>6, <3>7, <3>8, <3>9 DEF Book
  <2> QED
    BY <2>4, <2>5
<1>15. ASSUME NEW g \in Graders, Settle(g)
       PROVE  Book(s)'
  <2>1. /\ grader[g].step = "marked" /\ gradebook' = gradebook /\ keyed' = keyed
        /\ attempt' = [attempt EXCEPT ![grader[g].student][grader[g].number] =
             [status |-> grader[g].as, score |-> Cardinality(grader[g].right)]]
        /\ answer' = [answer EXCEPT ![grader[g].student][grader[g].number] = [q \in Questions |->
             IF q \in grader[g].right \cup grader[g].wrong
             THEN [answer[grader[g].student][grader[g].number][q] EXCEPT !.mark = MarkOf(g, q)]
             ELSE answer[grader[g].student][grader[g].number][q]]]
        /\ grader' = [grader EXCEPT ![g].step = "settled", ![g].right = {}, ![g].wrong = {}]
    BY <1>15 DEF Settle
  <2>2. /\ grader[g] \in Settlements /\ grader[g].student \in Sitters
        /\ grader[g].number \in Numbers /\ grader[g].as \in Settled
        /\ grader[g].right \subseteq Questions
    BY <1>t, <2>1, GraderFacts
  <2>3. /\ grader'[g].step = "settled" /\ grader'[g].student = grader[g].student
        /\ \A h \in Graders : h # g => grader'[h] = grader[h]
    BY <1>t, <2>1, <2>2 DEF QuizTypeOK, Settlements
  <2>4. CASE grader[g].student # s
    <3>1. attempt'[s] = attempt[s] /\ answer'[s] = answer[s]
      BY <1>t, <2>1, <2>2, <2>4 DEF QuizTypeOK
    <3>2. g \notin GradersOf(s) /\ g \notin GradersOf(s)'
      BY <2>3, <2>4 DEF GradersOf
    <3> QED
      BY <1>10, <2>1, <2>3, <3>1, <3>2
  <2>5. CASE grader[g].student = s
    <3>1. PICK k \in Numbers : k = grader[g].number
      BY <2>2
    <3>2. g \in GradersOf(s)
      BY <2>1, <2>5 DEF GradersOf
    <3>3. GradersOf(s) = {g} /\ GradersOf(s)' \subseteq {g}
      BY <1>11, <2>3, <3>2
    <3>4. InProgress(s, k)
      BY <1>b, <2>1, <3>1, <3>2 DEF Book, AlreadySettled
    <3>5. \A q \in Questions : answer[s][k][q].mark = "none"
      BY <1>b, <3>4 DEF Book, InProgress, HasSettled, Settled
    <3>6. /\ attempt'[s][k].status = grader[g].as
          /\ attempt'[s][k].score = Cardinality(grader[g].right)
          /\ \A m \in Numbers : m # k => attempt'[s][m] = attempt[s][m]
      <4>1. attempt' = [attempt EXCEPT ![s][k] =
               [status |-> grader[g].as, score |-> Cardinality(grader[g].right)]]
        BY <2>1, <2>5, <3>1
      <4>2. s \in Sitters /\ s \in DOMAIN attempt /\ k \in DOMAIN attempt[s]
        BY <1>t, <2>2, <2>5, <3>1 DEF QuizTypeOK
      <4> QED
        BY <4>1, <4>2
    <3>7. /\ \A q \in Questions : answer'[s][k][q] =
               IF q \in grader[g].right \cup grader[g].wrong
               THEN [answer[s][k][q] EXCEPT !.mark = MarkOf(g, q)] ELSE answer[s][k][q]
          /\ \A m \in Numbers : m # k => answer'[s][m] = answer[s][m]
      <4> DEFINE marked == [q \in Questions |->
                   IF q \in grader[g].right \cup grader[g].wrong
                   THEN [answer[s][k][q] EXCEPT !.mark = MarkOf(g, q)] ELSE answer[s][k][q]]
      <4>1. answer' = [answer EXCEPT ![s][k] = marked]
        BY <2>1, <2>5, <3>1
      <4>2. DOMAIN answer = Sitters /\ DOMAIN answer[s] = Numbers
        BY <1>t DEF QuizTypeOK
      <4>3. answer'[s][k] = marked /\ \A m \in Numbers : m # k => answer'[s][m] = answer[s][m]
        <5> HIDE DEF marked
        <5> QED
          BY <4>1, <4>2
      <4> QED
        BY <4>3
    <3>8. \A q \in Questions : answer'[s][k][q].mark = "earned" <=> q \in grader[g].right
      <4> SUFFICES ASSUME NEW q \in Questions
                   PROVE  answer'[s][k][q].mark = "earned" <=> q \in grader[g].right
        OBVIOUS
      <4>1. answer[s][k][q] \in Answers
        BY <1>t DEF QuizTypeOK, Answers
      <4>2. [answer[s][k][q] EXCEPT !.mark = MarkOf(g, q)].mark = MarkOf(g, q)
        BY <4>1 DEF Answers
      <4>3. CASE q \in grader[g].right \cup grader[g].wrong
        <5>1. answer'[s][k][q] = [answer[s][k][q] EXCEPT !.mark = MarkOf(g, q)]
          BY <3>7, <4>3
        <5>2. answer'[s][k][q].mark = MarkOf(g, q)
          BY <4>2, <5>1
        <5>3. MarkOf(g, q) = "earned" <=> q \in grader[g].right
          BY DEF MarkOf
        <5> QED
          BY <5>2, <5>3
      <4>4. CASE q \notin grader[g].right \cup grader[g].wrong
        <5>1. answer'[s][k][q] = answer[s][k][q]
          BY <3>7, <4>4
        <5> QED
          BY <3>5, <4>4, <5>1
      <4> QED
        BY <4>3, <4>4
    <3>9. Marked(s, k)' = grader[g].right
      BY <2>2, <3>8 DEF Marked
    <3>10. HasSettled(s, k)'
      BY <2>2, <3>6 DEF HasSettled
    <3>11. \A m \in Numbers : m # k => /\ HasSettled(s, m)' <=> HasSettled(s, m)
                                       /\ Marked(s, m)' = Marked(s, m)
      BY <3>6, <3>7 DEF HasSettled, Marked
    <3>12. \A m \in Numbers :
             /\ ~HasSettled(s, m)' => \A q \in Questions : answer'[s][m][q].mark = "none"
             /\ HasSettled(s, m)' => attempt'[s][m].score = Cardinality(Marked(s, m)')
      BY <1>b, <3>6, <3>7, <3>9, <3>10, <3>11 DEF Book
    <3>13. \A h \in GradersOf(s)' : h = g /\ AlreadySettled(h)' /\ grader'[h].step # "synced"
      BY <2>3, <3>3 DEF AlreadySettled
    <3>14. g \in GradersOf(s)'
      BY <2>3, <2>5 DEF GradersOf
    <3> QED
      BY <3>12, <3>13, <3>14 DEF Book
  <2> QED
    BY <2>4, <2>5
<1>16. ASSUME NEW g \in Graders, ReadBest(g)
       PROVE  Book(s)'
  <2>1. /\ UNCHANGED <<attempt, answer, gradebook, keyed>> /\ grader[g].step = "settled"
        /\ \A h \in Graders : h # g => grader'[h] = grader[h]
        /\ grader'[g] = [grader[g] EXCEPT !.step = "synced",
                                         !.best = BestScore(grader[g].student)]
    BY <1>16, <1>t DEF ReadBest, QuizTypeOK
  <2>2. grader[g] \in Settlements
    BY <1>t, <2>1, GraderFacts
  <2>3. /\ grader'[g].step = "synced" /\ grader'[g].student = grader[g].student
        /\ grader'[g].best = BestScore(grader[g].student)
    BY <2>1, <2>2 DEF Settlements
  <2>4. CASE g \notin GradersOf(s)
    <3>1. g \notin GradersOf(s)'
      BY <2>1, <2>3, <2>4 DEF GradersOf
    <3> QED
      BY <1>10, <2>1, <2>4, <3>1
  <2>5. CASE g \in GradersOf(s)
    <3>1. GradersOf(s) = {g} /\ GradersOf(s)' \subseteq {g}
      BY <1>11, <2>1, <2>5
    <3>2. \A m \in Numbers : /\ HasSettled(s, m)' <=> HasSettled(s, m)
                             /\ Marked(s, m)' = Marked(s, m)
      BY <2>1 DEF HasSettled, Marked
    <3>3. Scores(s)' = Scores(s)
      BY <2>1 DEF Scores, HasSettled
    <3>4. BestScore(s)' = BestScore(s)
      BY <3>3 DEF BestScore
    <3>5. grader'[g].best = BestScore(s)
      BY <2>3, <2>5 DEF GradersOf
    <3>6. \A m \in Numbers : /\ ~HasSettled(s, m)' => \A q \in Questions : answer'[s][m][q].mark = "none"
                             /\ HasSettled(s, m)' => attempt'[s][m].score = Cardinality(Marked(s, m)')
      BY <1>b, <2>1, <3>2 DEF Book
    <3>7. \A h \in GradersOf(s)' : h = g /\ AlreadySettled(h)' /\ grader'[h].best = BestScore(s)
      BY <2>3, <3>1, <3>5 DEF AlreadySettled
    <3>8. g \in GradersOf(s)'
      BY <2>3, <2>5 DEF GradersOf
    <3> QED
      BY <3>4, <3>6, <3>7, <3>8 DEF Book
  <2> QED
    BY <2>4, <2>5
<1>17. ASSUME NEW g \in Graders, grader[g].step # "idle", UNCHANGED <<attempt, answer>>,
              grader' = [grader EXCEPT ![g] = NoGrader],
              \/ /\ gradebook' = gradebook /\ keyed' = keyed
                 /\ ~Counts \/ ~AlreadySettled(g)
              \/ /\ grader[g].step = "synced"
                 /\ gradebook' = [gradebook EXCEPT ![grader[g].student] = grader[g].best]
                 /\ keyed' = keyed \ {grader[g].student}
       PROVE  Book(s)'
  <2>1. /\ grader'[g].step = "idle" /\ grader[g].student \in Sitters
        /\ \A h \in Graders : h # g => grader'[h] = grader[h]
    BY <1>17, <1>t, GraderFacts DEF QuizTypeOK, NoGrader
  <2>2. g \notin GradersOf(s)'
    BY <2>1 DEF GradersOf
  <2>3. CASE grader[g].student # s
    <3>1. gradebook'[s] = gradebook[s] /\ (s \notin keyed' => s \notin keyed)
      BY <1>17, <1>t, <2>1, <2>3 DEF QuizTypeOK
    <3>2. g \notin GradersOf(s)
      BY <2>3 DEF GradersOf
    <3> QED
      BY <1>10, <1>17, <2>1, <2>2, <3>1, <3>2
  <2>4. CASE grader[g].student = s
    <3>1. g \in GradersOf(s)
      BY <1>17, <2>4 DEF GradersOf
    <3>2. GradersOf(s) = {g} /\ GradersOf(s)' = {}
      BY <1>11, <2>1, <2>2, <3>1
    <3>3. \A m \in Numbers : /\ HasSettled(s, m)' <=> HasSettled(s, m)
                             /\ Marked(s, m)' = Marked(s, m)
      BY <1>17 DEF HasSettled, Marked
    <3>4. Scores(s)' = Scores(s)
      BY <1>17 DEF Scores, HasSettled
    <3>5. BestScore(s)' = BestScore(s)
      BY <3>4 DEF BestScore
    <3>6. Counts /\ s \notin keyed' => gradebook'[s] = BestScore(s)
      <4>1. CASE /\ gradebook' = gradebook /\ keyed' = keyed
                 /\ ~Counts \/ ~AlreadySettled(g)
        BY <1>b, <3>2, <4>1 DEF Book
      <4>2. CASE /\ grader[g].step = "synced"
                 /\ gradebook' = [gradebook EXCEPT ![grader[g].student] = grader[g].best]
        BY <1>b, <1>t, <2>4, <3>1, <4>2 DEF Book, QuizTypeOK
      <4> QED
        BY <1>17, <4>1, <4>2
    <3>7. \A m \in Numbers : /\ ~HasSettled(s, m)' => \A q \in Questions : answer'[s][m][q].mark = "none"
                             /\ HasSettled(s, m)' => attempt'[s][m].score = Cardinality(Marked(s, m)')
      BY <1>17, <1>b, <3>3 DEF Book
    <3> QED
      BY <3>2, <3>5, <3>6, <3>7 DEF Book
  <2> QED
    BY <2>3, <2>4
<1>18. ASSUME NEW g \in Graders, Finish(g)
       PROVE  Book(s)'
  <2>1. grader[g].step # "idle" /\ UNCHANGED <<attempt, answer>>
        /\ grader' = [grader EXCEPT ![g] = NoGrader]
    BY <1>18 DEF Finish
  <2>2. CASE Counts
    BY <1>17, <1>18, <2>1, <2>2 DEF Finish
  <2>3. CASE ~Counts
    BY <1>17, <1>18, <2>1, <2>3 DEF Finish
  <2> QED
    BY <2>2, <2>3
<1>19. ASSUME NEW g \in Graders, DropGrader(g)
       PROVE  Book(s)'
  <2>1. /\ grader[g].step # "idle" /\ UNCHANGED <<attempt, answer, gradebook, keyed>>
        /\ grader' = [grader EXCEPT ![g] = NoGrader]
    BY <1>19 DEF DropGrader
  <2>2. CASE AlreadySettled(g)
    <3>1. grader[g].student # s
      BY <1>19, <2>2 DEF DropGrader, AlreadySettled
    <3>2. g \notin GradersOf(s)
      BY <3>1 DEF GradersOf
    <3>3. grader'[g].step = "idle" /\ \A h \in Graders \ {g} : grader'[h] = grader[h]
      BY <1>t, <2>1 DEF QuizTypeOK, NoGrader
    <3>4. g \notin GradersOf(s)'
      BY <3>3 DEF GradersOf
    <3> QED
      BY <1>10, <2>1, <3>2, <3>3, <3>4
  <2>3. CASE ~AlreadySettled(g)
    BY <1>17, <2>1, <2>3
  <2> QED
    BY <2>2, <2>3
<1>20. ASSUME NEW x \in Sitters, NEW mark \in TeachersMarks, KeyIn(x, mark)
       PROVE  Book(s)'
  <2>1. /\ UNCHANGED <<attempt, answer, grader>> /\ keyed' = keyed \cup {x}
        /\ gradebook' = [gradebook EXCEPT ![x] = mark]
    BY <1>20 DEF KeyIn
  <2>2. s \notin keyed' => s \notin keyed /\ gradebook'[s] = gradebook[s]
    BY <1>t, <2>1 DEF QuizTypeOK
  <2>3. GradersOf(s)' = GradersOf(s)
    BY <2>1 DEF GradersOf
  <2> QED
    BY <1>b, <2>1, <2>2, <2>3, BookFrame
<1>21. CASE UNCHANGED quizVars
  BY <1>1, <1>21 DEF quizVars
<1> QED
  BY <1>2, <1>3, <1>4, <1>5, <1>6, <1>7, <1>8, <1>9, <1>13, <1>14, <1>15, <1>16, <1>18, <1>19,
     <1>20, <1>21
  DEF QuizNext

LEMMA BooksHold == QuizSpec => [](QuizShape /\ Books)
<1>1. QuizInit => Books
  <2> SUFFICES ASSUME QuizInit, NEW s \in Sitters
               PROVE  Book(s)
    BY DEF Books
  <2>1. GradersOf(s) = {}
    BY DEF QuizInit, GradersOf, NoGrader
  <2>2. \A n \in Numbers : ~HasSettled(s, n)
    BY DEF QuizInit, HasSettled, NoAttempt, Settled
  <2>3. \A n \in Numbers, q \in Questions : answer[s][n][q].mark = "none"
    BY DEF QuizInit, NoAnswer
  <2>4. gradebook[s] = BestScore(s)
    BY <2>2 DEF QuizInit, BestScore, Scores
  <2> QED
    BY <2>1, <2>2, <2>3, <2>4 DEF Book
<1> QED
  BY <1>1, QuizInvHolds, BooksStep, PTL DEF QuizSpec

(* The score of a settled attempt is the marks on its answers, of every    *)
(* student whose settlements did not overlap.                              *)
THEOREM MarksAddUpAlways == QuizSpec => []MarksAddUp
<1>1. Books => MarksAddUp
  BY DEF Books, Book, MarksAddUp, Marked
<1> QED
  BY <1>1, BooksHold, PTL

(* Whatever teachers key in before and meanwhile, a settlement leaves the  *)
(* best settled attempt in the gradebook, until a teacher writes the cell  *)
(* after it: of every student none of whose settlements overlapped or      *)
(* died, and while none is under way.                                      *)
THEOREM GradebookShowsBestAlways == QuizSpec => []GradebookShowsBest
<1>1. QuizShape /\ Books => GradebookShowsBest
  <2> SUFFICES ASSUME QuizShape, Books, NEW s \in Sitters \ (disturbed \cup keyed),
                      Counts, GradersOf(s) = {}
               PROVE  /\ Scores(s) = {} <=> gradebook[s] = NoScore
                      /\ Scores(s) # {} => gradebook[s] \in Scores(s)
                      /\ \A x \in Scores(s) : x <= gradebook[s]
    BY DEF GradebookShowsBest
  <2>1. gradebook[s] = BestScore(s)
    BY DEF Books, Book
  <2> QED
    BY <2>1, BestFits, NoScoreAssumption
<1> QED
  BY <1>1, BooksHold, PTL

------------------------------------------------------------------------------
(* Every step of the two together is a step of each, or leaves it alone.   *)
LEMMA SchoolKeepsEach == SchoolSpec => QuizSpec /\ LeaveSpec
<1>1. SchoolInit => QuizInit /\ LeaveInit
  BY DEF SchoolInit
<1>2. [SchoolNext]_schoolVars => [QuizNext]_quizVars /\ [LeaveNext]_leaveVars
  BY DEF SchoolNext, QuizTurn, LeaveTurn, schoolVars
<1> QED
  BY <1>1, <1>2, PTL DEF SchoolSpec, QuizSpec, LeaveSpec

(* With both at work, answers are to questions of their paper and leave    *)
(* covers a working day.                                                   *)
THEOREM SchoolTablesCorrect == SchoolSpec => []SchoolTablesOK
BY SchoolKeepsEach, QuizTypeCorrect, LeaveTypeCorrect, PTL DEF SchoolTablesOK
=============================================================================
