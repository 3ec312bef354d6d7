------------------------------ MODULE ReviewQueue ------------------------------
(***************************************************************************)
(* The reviewer's tool over parked rows: assign and reject.  Each call     *)
(* reads the row, writes the ledger, then discards the parking metadata:   *)
(* three separate accesses.                                                *)
(***************************************************************************)
EXTENDS Ingestion

ReviewerPC == {"idle", "assign", "reject", "discard"}

ReviewerState == [pc : ReviewerPC, doc : Docs \cup {None},
                  scenario : Scenarios \cup {None}, out : Outcomes]

IdleReviewer(out) ==
    [pc |-> "idle", doc |-> None, scenario |-> None, out |-> out]

ReviewCall == calls < MaxCalls /\ calls' = calls + 1

\* _require_needs_review passes; a failing check writes nothing.
NeedsReview(d) == rows[d] # None /\ rows[d].status = "needs_review"

StartAssign(r) ==
    /\ reviewer[r].pc = "idle"
    /\ ReviewCall
    /\ \E d \in Docs, s \in Scenarios :
          /\ NeedsReview(d)
          /\ reviewer' = [reviewer EXCEPT ![r] =
                [pc |-> "assign", doc |-> d, scenario |-> s, out |-> "none"]]
    /\ UNCHANGED <<rows, worker, index, registry, operator, queueVars>>

StartReject(r) ==
    /\ reviewer[r].pc = "idle"
    /\ ReviewCall
    /\ \E d \in Docs :
          /\ NeedsReview(d)
          /\ reviewer' = [reviewer EXCEPT ![r] =
                [pc |-> "reject", doc |-> d, scenario |-> None, out |-> "none"]]
    /\ UNCHANGED <<rows, worker, index, registry, operator, queueVars>>

\* The triaged ledger write; the discard follows a landed or lost write.
ReviewWrite(r, to, code) ==
    /\ transition(reviewer[r].doc, to, code, reviewer[r].scenario)
    /\ IF Rejected(reviewer[r].doc, to, code)
       THEN reviewer' = [reviewer EXCEPT ![r] = IdleReviewer("ledger_invalid")]
       ELSE reviewer' = [reviewer EXCEPT ![r].pc = "discard"]
    /\ UNCHANGED <<worker, index, registry, operator, queueVars, calls>>

Assign(r) == reviewer[r].pc = "assign" /\ ReviewWrite(r, "pending", None)

Reject(r) == reviewer[r].pc = "reject" /\ ReviewWrite(r, "failed", VERTICAL_REJECTED)

Discard(r) ==
    /\ reviewer[r].pc = "discard"
    /\ registry' = registry \ {reviewer[r].doc}
    /\ reviewer' = [reviewer EXCEPT ![r] = IdleReviewer("returned")]
    /\ UNCHANGED <<rows, worker, index, operator, queueVars, calls>>

=============================================================================
