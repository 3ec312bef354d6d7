---------------------------- MODULE InMemoryRegistry ----------------------------
(***************************************************************************)
(* InMemoryIndexRegistry: the registry as its interface promises it, each  *)
(* method one step under the lock, for whoever calls it with whatever      *)
(* claim.  Table Storage needs a read, a conditional write and retries for *)
(* the same methods; Provisioner is shown to make no other change to an    *)
(* entry than these.  A method that raises changes nothing.                *)
(***************************************************************************)
EXTENDS IndexRegistry

CONSTANT Versions   \* template versions a claim may carry

VARIABLES entry, claims

vars == <<entry, claims>>

\* _require
Required == entry # None

\* register: check and insert in one critical section.
Register ==
    /\ entry = None
    /\ claims' = claims + 1
    /\ \E schema \in Schemas, version \in Versions :
          entry' = NewClaim(claims + 1, schema, version)

\* reclaim: what is stored is what the caller observed, and is replaced by the
\* same entry under a new claim.
Reclaim ==
    /\ Required
    /\ claims' = claims + 1
    /\ entry' = Reclaimed(entry, claims + 1)

\* mark_ready and mark_failed: the caller presents the claim it holds.
Finalize ==
    /\ Required
    /\ \E token \in 1 .. claims :
          /\ check_claim_token(entry, token)
          /\ entry' \in {mark_ready(entry), mark_failed(entry)}
    /\ UNCHANGED claims

Touch == Required /\ entry' = touch_verified(entry) /\ UNCHANGED claims

Retire == Required /\ entry' = mark_retired(entry) /\ UNCHANGED claims

\* Time passes.
Age == Required /\ entry' = Aged(entry) /\ UNCHANGED claims

Init == entry = None /\ claims = 0

Next == Register \/ Reclaim \/ Finalize \/ Touch \/ Retire \/ Age

RegistrySpec == Init /\ [][Next]_vars

=============================================================================
