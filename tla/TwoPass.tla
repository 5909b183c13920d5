------------------------------- MODULE TwoPass -------------------------------
(***************************************************************************)
(* What tcl-int promises its user: a script is looked at as a whole before *)
(* any of it takes effect.  A script that is refused prints nothing and    *)
(* leaves no variable; one that is only checked never does.                *)
(***************************************************************************)
EXTENDS Naturals

VARIABLES
  mode,      \* "check" or "run"
  stage,     \* "validating", "running", "done"
  printed,   \* how many commands have printed something
  bound,     \* the variables that exist
  code       \* the exit code

twoPassVars == <<mode, stage, printed, bound, code>>

Init ==
  /\ mode \in {"check", "run"}
  /\ stage = "validating" /\ printed = 0 /\ bound = {} /\ code = "none"

Refuse ==
  /\ stage = "validating"
  /\ stage' = "done" /\ code' = "failure"
  /\ UNCHANGED <<mode, printed, bound>>

\* The whole script is valid.
Approve ==
  /\ stage = "validating"
  /\ IF mode = "check"
     THEN stage' = "done" /\ code' = "success"
     ELSE stage' = "running" /\ code' = code
  /\ UNCHANGED <<mode, printed, bound>>

\* One command prints one text, or adds one variable at most.
PrintText ==
  /\ stage = "running"
  /\ printed' = printed + 1
  /\ UNCHANGED <<mode, stage, bound, code>>

Bind ==
  /\ stage = "running"
  /\ bound \subseteq bound'
  /\ \A m, n \in bound' \ bound : m = n
  /\ UNCHANGED <<mode, stage, printed, code>>

Stop ==
  /\ stage = "running"
  /\ stage' = "done" /\ code' \in {"success", "failure"}
  /\ UNCHANGED <<mode, printed, bound>>

Next == Refuse \/ Approve \/ PrintText \/ Bind \/ Stop

TwoPassSpec == Init /\ [][Next]_twoPassVars

==============================================================================
