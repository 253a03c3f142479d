----------------------------- MODULE VerifySession -----------------------------
(***************************************************************************)
(* What CCheckQueueControl promises ConnectBlock: the checks that are      *)
(* added between its construction and the return of Wait are all decided,  *)
(* Wait returns whether every one of them succeeded, and a session leaves  *)
(* nothing behind for the next one.                                        *)
(***************************************************************************)
CONSTANTS
    Check,      \* verifications of input scripts
    Good        \* those that succeed

VARIABLES
    open,       \* a CCheckQueueControl exists
    added,      \* checks added during the session
    verdict     \* what Wait returned last

vars == <<open, added, verdict>>

Init == open = FALSE /\ added = {} /\ verdict = TRUE

Begin ==
    /\ ~open
    /\ open' = TRUE
    /\ added' = {}
    /\ UNCHANGED verdict

AddChecks ==
    /\ open
    /\ \E C \in SUBSET (Check \ added) : added' = added \cup C
    /\ UNCHANGED <<open, verdict>>

Finish ==
    /\ open
    /\ open' = FALSE
    /\ verdict' = (added \subseteq Good)
    /\ UNCHANGED added

Next == Begin \/ AddChecks \/ Finish

Spec == Init /\ [][Next]_vars

================================================================================
