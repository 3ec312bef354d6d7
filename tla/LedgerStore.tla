----------------------------- MODULE LedgerStore -----------------------------
(***************************************************************************)
(* The state ledger (Contract #3): one row per document, the table of      *)
(* legal transitions, the validation every backend shares, and the triage  *)
(* `is_benign_concurrent_loss' that callers apply to a rejected write.     *)
(*                                                                         *)
(* On its own this module is a specification of the ledger with callers    *)
(* unknown: anyone may create a row, or request any transition, and a      *)
(* request that validate_transition rejects changes nothing.               *)
(*                                                                         *)
(* Abstractions: timestamps, messages and config_version are left out; an  *)
(* error code is reduced to its severity and the stage that reports it.    *)
(***************************************************************************)
EXTENDS Naturals

CONSTANTS
    Docs,        \* doc_ids
    Scenarios,   \* scenario_ids a reviewer may assign
    None         \* Python's None

VARIABLE rows    \* InMemoryLedgerStore._rows: doc_id -> LedgerRow, or None

-----------------------------------------------------------------------------
(* Statuses and the transition table *)

Status == {"pending", "analyzing", "chunking", "embedding", "indexing",
           "indexed", "failed", "needs_review", "archived"}

TERMINAL_STATUSES == {"indexed", "failed", "archived"}

\* The legal moves besides the retry of a status in place.
LEGAL_TRANSITIONS ==
    {<<"pending", "analyzing">>,   <<"pending", "failed">>,
     <<"pending", "needs_review">>,
     <<"analyzing", "chunking">>,  <<"analyzing", "failed">>,
     <<"chunking", "embedding">>,  <<"chunking", "failed">>,
     <<"embedding", "indexing">>,  <<"embedding", "failed">>,
     <<"indexing", "indexed">>,    <<"indexing", "failed">>,
     <<"failed", "pending">>,      <<"failed", "archived">>,
     <<"needs_review", "pending">>, <<"needs_review", "failed">>}

FORWARD_ORDER == <<"pending", "analyzing", "chunking", "embedding",
                   "indexing", "indexed">>

\* Both statuses lie on the forward path, s not before t.
AtOrPast(s, t) ==
    \E i \in 1 .. 6 : FORWARD_ORDER[i] = s /\ \E j \in 1 .. i : FORWARD_ORDER[j] = t

-----------------------------------------------------------------------------
(* Error codes, reduced to what tells them apart: the registered severity   *)
(* and the stage Reprocessor._infer_stage reads off the code's prefix.      *)

STAGES == {"analyzing", "chunking", "embedding", "indexing"}

Permanent(stage) == <<"PERMANENT", stage>>

Transient(stage) == <<"TRANSIENT", stage>>

VERTICAL_UNRESOLVED == <<"PERMANENT", "unresolved">>

VERTICAL_REJECTED == <<"PERMANENT", "rejected">>

\* The codes a component terminalizes a row with.
FatalCodes == {Permanent(s) : s \in STAGES} \cup {VERTICAL_REJECTED}

Codes == FatalCodes \cup {Transient(s) : s \in STAGES} \cup {VERTICAL_UNRESOLVED}

ASSUME LedgerAssumption ==
    /\ None \notin Scenarios
    /\ None \notin Codes

LedgerRow == [status : Status, stage : Status, attempts : Nat,
              last_error_code : Codes \cup {None},
              assigned_scenario_id : Scenarios \cup {None}]

ASSUME NoneIsNoRow == None \notin LedgerRow

-----------------------------------------------------------------------------
(* Validation and triage of one transition request *)

\* Mutant: the terminal check forgotten, so a row may be retried in place.
TerminalRetried(row, to, stage, code) ==
    /\ row # None
    /\ stage = to
    /\ <<row.status, to>> \in LEGAL_TRANSITIONS \/ to = row.status
    /\ to = "failed" => code # None

\* Mutant: a failed row may be claimed again.
FailedClaimable(row, to, stage, code) ==
    /\ row # None
    /\ stage = to
    /\ \/ <<row.status, to>> \in LEGAL_TRANSITIONS
       \/ to = row.status /\ row.status \notin TERMINAL_STATUSES
       \/ row.status = "failed" /\ to = "analyzing"
    /\ to = "failed" => code # None

\* Mutant: no retry of a status in place.
NeverRetried(row, to, stage, code) ==
    /\ row # None
    /\ stage = to
    /\ <<row.status, to>> \in LEGAL_TRANSITIONS
    /\ to = "failed" => code # None

validate_transition(row, to, stage, code) ==
    /\ row # None
    /\ stage = to
    /\ row.status \in TERMINAL_STATUSES => <<row.status, to>> \in LEGAL_TRANSITIONS
    /\ <<row.status, to>> \in LEGAL_TRANSITIONS \/ to = row.status
    /\ to = "failed" => code # None

\* Mutant: any forward status excuses any forward request.
OrderIgnored(row, to, stage) ==
    /\ stage = to
    /\ row # None
    /\ row.status = row.stage
    /\ {row.status, to} \subseteq {FORWARD_ORDER[i] : i \in 1 .. 6}

\* Mutant: a final row excuses every request.
ArchivedExcused(row, to, stage) ==
    /\ stage = to
    /\ row # None
    /\ row.status = row.stage
    /\ \/ row.status \in {"indexed", "archived"}
       \/ to = "needs_review" /\ row.status \notin {"failed", "pending"}
       \/ AtOrPast(row.status, to)

\* The rejected caller's view: did a concurrent worker already do this?
is_benign_concurrent_loss(row, to, stage) ==
    /\ stage = to
    /\ row # None
    /\ row.status = row.stage
    /\ \/ to = "failed" /\ row.status = "indexed"
       \/ to = "needs_review" /\ row.status \notin {"failed", "pending"}
       \/ to = "archived" /\ row.status = "archived"
       \/ AtOrPast(row.status, to)

next_attempts(row, to) ==
    IF to = "failed" THEN row.attempts
    ELSE IF row.status = "failed" /\ to = "pending" THEN 0
    ELSE IF to = row.status THEN row.attempts + 1
    ELSE 1

\* Mutant: the old error survives a move to another status.
ErrorKept(row, to, code) == IF code = None THEN row.last_error_code ELSE code

next_error_code(row, to, code) ==
    IF to = row.status /\ code = None THEN row.last_error_code ELSE code

\* Mutant: a transition without a scenario clears the assignment.
AssignmentCleared(row, scenario) == scenario

next_assigned_scenario_id(row, scenario) ==
    IF scenario # None THEN scenario ELSE row.assigned_scenario_id

next_row(row, to, code, scenario) ==
    [status               |-> to,
     stage                |-> to,
     attempts             |-> next_attempts(row, to),
     last_error_code      |-> next_error_code(row, to, code),
     assigned_scenario_id |-> next_assigned_scenario_id(row, scenario)]

new_row ==
    [status |-> "pending", stage |-> "pending", attempts |-> 0,
     last_error_code |-> None, assigned_scenario_id |-> None]

-----------------------------------------------------------------------------
(* The store's operations.  transition() is atomic under the store's lock:  *)
(* it either applies the request or raises LedgerTransitionInvalid.         *)

create(d) ==
    rows' = IF rows[d] = None THEN [rows EXCEPT ![d] = new_row] ELSE rows

Accepted(d, to, code) == validate_transition(rows[d], to, to, code)

\* Rejected, and triaged as a benign concurrent loss.
Lost(d, to, code) == /\ ~Accepted(d, to, code)
                     /\ is_benign_concurrent_loss(rows[d], to, to)

\* Rejected for a reason the triage does not excuse.
Rejected(d, to, code) == /\ ~Accepted(d, to, code)
                         /\ ~is_benign_concurrent_loss(rows[d], to, to)

transition(d, to, code, scenario) ==
    rows' = IF Accepted(d, to, code)
            THEN [rows EXCEPT ![d] = next_row(rows[d], to, code, scenario)]
            ELSE rows

-----------------------------------------------------------------------------
(* The ledger as a specification: any caller, any request *)

LedgerInit == rows = [d \in Docs |-> None]

LedgerNext ==
    \E d \in Docs :
        \/ create(d)
        \/ \E to \in Status, code \in Codes \cup {None},
              scenario \in Scenarios \cup {None} :
              transition(d, to, code, scenario)

LedgerSpec == LedgerInit /\ [][LedgerNext]_rows

-----------------------------------------------------------------------------
(* What the ledger promises whoever its callers are *)

\* Every row has the type of LedgerRow.
RowsOK == rows \in [Docs -> LedgerRow \cup {None}]

FinalRow(d) == rows[d] # None /\ rows[d].status \in {"indexed", "archived"}

\* A row that is `indexed' or `archived' never changes again.
FinalRowsStay == \A d \in Docs : FinalRow(d) => rows'[d] = rows[d]

=============================================================================
