----------------------------- MODULE IssueGate -----------------------------
(***************************************************************************)
(* What the certificate queue promises to the rest of the program: a job   *)
(* is issued by at most one holder at a time, and by none while a          *)
(* configuration import replaces the rows the issuance writes to.  The     *)
(* gate may lose a job it has overlooked, for good, and an import may be   *)
(* breached; both are announced before anything is issued that should not. *)
(***************************************************************************)
CONSTANTS Jobs,     \* certificate jobs
          Holders   \* who may issue: the queue objects of the manager

VARIABLES issuing,  \* per job, the holders that are issuing it
          window,   \* an import is replacing the rows
          adrift,   \* jobs whose holders are no longer known
          breached  \* the import does not keep the issuers out

gateVars == <<issuing, window, adrift, breached>>

Init ==
    /\ issuing = [j \in Jobs |-> {}] /\ window = FALSE
    /\ adrift = {} /\ breached = FALSE

Begin(j, h) ==
    /\ issuing[j] = {} \/ j \in adrift
    /\ ~window \/ breached
    /\ issuing' = [issuing EXCEPT ![j] = @ \cup {h}]
    /\ UNCHANGED <<window, adrift, breached>>

End(j, h) ==
    /\ h \in issuing[j]
    /\ issuing' = [issuing EXCEPT ![j] = @ \ {h}]
    /\ UNCHANGED <<window, adrift, breached>>

OpenWindow ==
    /\ ~window
    /\ breached \/ \A j \in Jobs \ adrift : issuing[j] = {}
    /\ window' = TRUE
    /\ UNCHANGED <<issuing, adrift, breached>>

CloseWindow == window /\ window' = FALSE /\ UNCHANGED <<issuing, adrift, breached>>

Overlook(js) ==
    adrift' = adrift \cup js /\ UNCHANGED <<issuing, window, breached>>

Breach == breached' = TRUE /\ UNCHANGED <<issuing, window, adrift>>

Mend == ~window /\ breached' = FALSE /\ UNCHANGED <<issuing, window, adrift>>

Next ==
    \/ \E j \in Jobs, h \in Holders : Begin(j, h) \/ End(j, h)
    \/ OpenWindow \/ CloseWindow \/ Breach \/ Mend
    \/ \E js \in SUBSET Jobs : Overlook(js)

Spec == Init /\ [][Next]_gateVars
=============================================================================
