------------------------------- MODULE Reports -------------------------------
(***************************************************************************)
(* What posting promises of a pull request whose CI jobs run one after     *)
(* another: it shows no report or one, the latest that was written, and    *)
(* only the job whose turn it is writes.  A job that failed may run again, *)
(* and may have written all the same.                                      *)
(***************************************************************************)
EXTENDS Naturals

CONSTANT NumJobs    \* job j posts report j

VARIABLES
    turn,           \* the job that began last, 0 at first
    status,         \* "running", or how it ended
    shown           \* the reports to be seen

reportVars == <<turn, status, shown>>

Init == turn = 0 /\ status = "idle" /\ shown = {}

\* The next job begins, or one that failed again.
Start(j) ==
    /\ \/ j = turn + 1 /\ status # "running"
       \/ j = turn /\ status = "failed"
    /\ turn' = j
    /\ status' = "running"
    /\ UNCHANGED shown

Publish ==
    /\ status = "running"
    /\ shown' = {turn}
    /\ status' \in {"posted", "failed"}
    /\ UNCHANGED turn

Fail ==
    /\ status = "running"
    /\ status' = "failed"
    /\ UNCHANGED <<turn, shown>>

\* Somebody deletes the report.
Withdraw ==
    /\ shown # {}
    /\ shown' = {}
    /\ UNCHANGED <<turn, status>>

Next == (\E j \in 1 .. NumJobs : Start(j)) \/ Publish \/ Fail \/ Withdraw

Spec == Init /\ [][Next]_reportVars
=============================================================================
