-------------------------- MODULE MCMonthProjection --------------------------
(***************************************************************************)
(* The projection of two kinds of workspaces: one with a recurrence and no *)
(* history, for which nothing is estimated, and one with a history of      *)
(* plain expenses and no recurrence.  The two halves of the projection add *)
(* up: neither looks at the rows of the other.                             *)
(***************************************************************************)
EXTENDS MonthProjection, VariableEstimate, TLC

-----------------------------------------------------------------------------
(* Months of three and of two days, two of them a year, two days a week.   *)

Starts == 0 :> 0 @@ <<3, 5, 7, 10, 12, 14, 17, 19, 21>>
AllSchedules == {[frequency |-> f, interval |-> 1] : f \in Frequencies}

(* Months of two, three and two days before one of three.  The newest have *)
(* bills close to each other, of two categories, and other expenses.       *)

Lengths == [age \in 0..3 |-> <<3, 2, 3, 2>>[age + 1]]

Expense(id, d, category, amount) ==
  [id |-> id, day |-> d, category |-> category, amount |-> amount, pending |-> FALSE]

Newest == {{Expense(1, 1, "rent", 4), Expense(2, 2, "rent", 6), Expense(3, 2, "food", 1)},
           {Expense(1, 1, "rent", 4), Expense(2, 2, "food", 6), Expense(3, 1, "food", 1),
            Expense(4, 2, "food", 2)}}
Older  == {{Expense(1, 1, "rent", 5), Expense(2, 3, "rent", 4), Expense(3, 3, "food", 2)},
           {Expense(1, 2, "rent", 6), Expense(2, 3, "food", 4), Expense(3, 1, "food", 1)}}
Oldest == {Expense(1, 1, "rent", 5), Expense(2, 2, "food", 3)}

Past(a, b, c) == [age \in 1..3 |-> <<a, b, c>>[age]]

(* A month may have nothing, and one alone is no history.                  *)
Pasts == {Past(a, b, c) : a \in Newest \cup {{}}, b \in Older \cup {{}}, c \in {{}, Oldest}}

-----------------------------------------------------------------------------
New == past = Past({}, {}, {})

MCInit == Init /\ EstimateInit

MCNext ==
  \/ Next /\ New /\ UNCHANGED estimateVars
  \/ EstimateNext /\ ~New /\ UNCHANGED vars

MCSpec == MCInit /\ [][MCNext]_<<vars, estimateVars>>
=============================================================================
