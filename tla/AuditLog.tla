------------------------------ MODULE AuditLog ------------------------------
(***************************************************************************)
(* What an append-only audit log is: entries are stored one at a time, in  *)
(* full and in one order, and an append is acknowledged when its entry is  *)
(* stored.  The log may end in a stub, what is left of an append that was  *)
(* cut short; the append after it is acknowledged and swallowed.           *)
(***************************************************************************)
CONSTANTS Record      \* audit entries, each appended once

VARIABLES
    log,      \* the entries stored
    before,   \* pairs of stored entries, the first of them stored earlier
    stub,     \* the log ends in a stub
    status    \* status[e]: how far the append of e has got

vars == <<log, before, stub, status>>

Init ==
    /\ log = {}
    /\ before = {}
    /\ stub = FALSE
    /\ status = [e \in Record |-> "new"]

Call(e) ==
    /\ status[e] = "new"
    /\ status' = [status EXCEPT ![e] = "called"]
    /\ UNCHANGED <<log, before, stub>>

Store(e) ==
    /\ status[e] = "called"
    /\ IF stub THEN UNCHANGED <<log, before>>
       ELSE /\ log' = log \union {e}
            /\ before' = before \union (log \X {e})
    /\ stub' = FALSE
    /\ status' = [status EXCEPT ![e] = "stored"]

Break(e) ==
    /\ status[e] = "called"
    /\ stub' \in {stub, TRUE}
    /\ status' = [status EXCEPT ![e] = "failed"]
    /\ UNCHANGED <<log, before>>

Acknowledge(e) ==
    /\ status[e] = "stored"
    /\ status' = [status EXCEPT ![e] = "acked"]
    /\ UNCHANGED <<log, before, stub>>

\* A process dies with everything it was appending.
Die ==
    /\ \E gone \in SUBSET {e \in Record : status[e] \in {"called", "stored"}} :
         /\ gone # {}
         /\ status' = [e \in Record |-> IF e \in gone THEN "failed" ELSE status[e]]
    /\ stub' \in {stub, TRUE}
    /\ UNCHANGED <<log, before>>

Next ==
    \/ \E e \in Record : Call(e) \/ Store(e) \/ Break(e) \/ Acknowledge(e)
    \/ Die

Spec == Init /\ [][Next]_vars
=============================================================================
