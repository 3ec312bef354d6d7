----------------------------- MODULE IndexRegistry -----------------------------
(***************************************************************************)
(* The registry entry of one index_name (indexes are independent) and the  *)
(* writes the registry offers.  An entry carries the ages of its claim and *)
(* of its last verification in place of timestamps; an age stops counting  *)
(* at the threshold that makes it stale.                                   *)
(***************************************************************************)
EXTENDS Naturals

CONSTANTS
    Schemas,         \* (dimensions, metric) pairs
    None,            \* Python's None
    StaleAfter,      \* provisioning_stale_after_seconds, in ticks
    VerifyInterval   \* verification_interval_seconds, in ticks

ASSUME RegistryAssumption ==
    /\ StaleAfter \in Nat \ {0}
    /\ VerifyInterval \in Nat \ {0}
    /\ None \notin Schemas
    /\ None \notin Nat

\* claim_token: the number of the claim; uuid4 values are never reused.
Entry == [status : {"provisioning", "ready", "failed", "retired"},
          claim_token : Nat \cup {None},
          claimed_at : (0 .. StaleAfter) \cup {None},
          last_verified_at : (0 .. VerifyInterval) \cup {None},
          schema : Schemas, template_version : Nat]

ASSUME NoneIsNoEntry == None \notin Entry

\* The candidate register() inserts.
NewClaim(token, schema, version) ==
    [status |-> "provisioning", claim_token |-> token, claimed_at |-> 0,
     last_verified_at |-> None, schema |-> schema, template_version |-> version]

\* reclaim(): every resolved field is kept, the claim is new.
Reclaimed(e, token) == [e EXCEPT !.claim_token = token, !.claimed_at = 0]

mark_ready(e) == [e EXCEPT !.status = "ready", !.last_verified_at = 0,
                           !.claim_token = None, !.claimed_at = None]

mark_failed(e) == [e EXCEPT !.status = "failed", !.claim_token = None,
                            !.claimed_at = None]

mark_retired(e) == [e EXCEPT !.status = "retired"]

touch_verified(e) == [e EXCEPT !.last_verified_at = 0]

\* Mutant: a finalization is not checked against the claim.
TokenUnchecked(e, token) == TRUE

check_claim_token(e, token) == e.claim_token = token

\* Time passes for a stored entry, or for a snapshot of one.
Older(age, limit) == IF age = None \/ age = limit THEN age ELSE age + 1

Aged(e) == [e EXCEPT !.claimed_at = Older(@, StaleAfter),
                     !.last_verified_at = Older(@, VerifyInterval)]

=============================================================================
