------------------------------ MODULE Reprocessor ------------------------------
(***************************************************************************)
(* The operator's tool over failed rows: requeue, archive and              *)
(* requeue_by_error_code.  Each call first reads the row, then writes it:  *)
(* another call or worker may change the row in between.                   *)
(***************************************************************************)
EXTENDS Ingestion

OperatorPC == {"idle", "requeue", "archive", "batch", "batch_requeue"}

\* doc and code are what _require_failed read; todo is what is left of the
\* list requeue_by_error_code took.
OperatorState == [pc : OperatorPC, doc : Docs \cup {None},
                  code : Codes \cup {None}, todo : SUBSET Docs, out : Outcomes]

IdleOperator(out) ==
    [pc |-> "idle", doc |-> None, code |-> None, todo |-> {}, out |-> out]

Call == calls < MaxCalls /\ calls' = calls + 1

Failed(d) == rows[d] # None /\ rows[d].status = "failed"

\* Mutant: any existing row passes.
AnyRow(o, pc) ==
    \E d \in Docs :
        /\ rows[d] # None
        /\ operator' = [operator EXCEPT ![o] =
              [pc |-> pc, doc |-> d, code |-> rows[d].last_error_code,
               todo |-> {}, out |-> "none"]]

\* _require_failed passes; the rejection (nothing is written) is a stutter.
RequireFailed(o, pc) ==
    \E d \in Docs :
        /\ Failed(d)
        /\ operator' = [operator EXCEPT ![o] =
              [pc |-> pc, doc |-> d, code |-> rows[d].last_error_code,
               todo |-> {}, out |-> "none"]]

StartRequeue(o) ==
    /\ operator[o].pc = "idle"
    /\ Call
    /\ RequireFailed(o, "requeue")
    /\ UNCHANGED <<rows, worker, index, registry, reviewer, queueVars>>

StartArchive(o) ==
    /\ operator[o].pc = "idle"
    /\ Call
    /\ RequireFailed(o, "archive")
    /\ UNCHANGED <<rows, worker, index, registry, reviewer, queueVars>>

EndCall(o, out) == operator' = [operator EXCEPT ![o] = IdleOperator(out)]

Requeue(o) ==
    /\ operator[o].pc = "requeue"
    /\ transition(operator[o].doc, "pending", None, None)
    /\ EndCall(o, IF Rejected(operator[o].doc, "pending", None)
                  THEN "ledger_invalid" ELSE "returned")
    /\ UNCHANGED <<worker, index, registry, reviewer, queueVars, calls>>

Archive(o) ==
    /\ operator[o].pc = "archive"
    /\ transition(operator[o].doc, "archived", operator[o].code, None)
    /\ EndCall(o, IF Rejected(operator[o].doc, "archived", operator[o].code)
                  THEN "ledger_invalid" ELSE "returned")
    /\ UNCHANGED <<worker, index, registry, reviewer, queueVars, calls>>

-----------------------------------------------------------------------------
(* requeue_by_error_code *)

\* list_failed(error_code): the matching rows, taken in one read.
list_failed(code) == {d \in Docs : Failed(d) /\ rows[d].last_error_code = code}

\* The limit, and max_batch_requeue, may leave some of them out.
StartBatch(o) ==
    /\ operator[o].pc = "idle"
    /\ Call
    /\ \E code \in Codes : \E candidates \in SUBSET list_failed(code) \ {{}} :
          operator' = [operator EXCEPT ![o] =
              [pc |-> "batch", doc |-> None, code |-> code, todo |-> candidates,
               out |-> "none"]]
    /\ UNCHANGED <<rows, worker, index, registry, reviewer, queueVars>>

\* The next candidate: _require_failed passes, or the document is skipped.
BatchNext(o) ==
    /\ operator[o].pc = "batch"
    /\ \E d \in operator[o].todo :
          operator' = [operator EXCEPT
              ![o].pc = IF Failed(d) THEN "batch_requeue" ELSE "batch",
              ![o].doc = IF Failed(d) THEN d ELSE None,
              ![o].todo = @ \ {d}]
    /\ UNCHANGED <<rows, worker, index, registry, reviewer, queueVars, calls>>

\* The candidate's ledger write; a rejection ends the whole batch.
BatchRequeue(o) ==
    /\ operator[o].pc = "batch_requeue"
    /\ transition(operator[o].doc, "pending", None, None)
    /\ IF Rejected(operator[o].doc, "pending", None)
       THEN EndCall(o, "ledger_invalid")
       ELSE operator' = [operator EXCEPT ![o].pc = "batch", ![o].doc = None]
    /\ UNCHANGED <<worker, index, registry, reviewer, queueVars, calls>>

BatchEnd(o) ==
    /\ operator[o].pc = "batch"
    /\ operator[o].todo = {}
    /\ EndCall(o, "returned")
    /\ UNCHANGED <<rows, worker, index, registry, reviewer, queueVars, calls>>

=============================================================================
