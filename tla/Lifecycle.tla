------------------------------- MODULE Lifecycle -------------------------------
(***************************************************************************)
(* What ingestion promises the owner of a document, with the stages, the   *)
(* workers and the retries left out: a document is active, waiting for     *)
(* review, failed, published or archived; it is published only once all of *)
(* its content is searchable; published and archived are final, and        *)
(* published content stays searchable.                                     *)
(*                                                                         *)
(* Pipeline implements this specification as long as the content of a      *)
(* document does not change between deliveries.                            *)
(***************************************************************************)
CONSTANT Docs

VARIABLES
    phase,       \* where each document stands
    searchable   \* documents whose whole content is in the vector store

Phases == {"absent", "active", "review", "failed", "published", "archived"}

Move(d, from, to) ==
    /\ phase[d] \in from
    /\ phase' = [phase EXCEPT ![d] = to]
    /\ UNCHANGED searchable

Arrive(d) == Move(d, {"absent"}, "active")

ParkForReview(d) == Move(d, {"active"}, "review")

Resume(d) == Move(d, {"review", "failed"}, "active")

Fail(d) == Move(d, {"active", "review"}, "failed")

GiveUp(d) == Move(d, {"failed"}, "archived")

Publish(d) == d \in searchable /\ Move(d, {"active"}, "published")

\* The last missing record of a document lands.
Complete(d) ==
    /\ searchable' = searchable \cup {d}
    /\ UNCHANGED phase

Init ==
    /\ phase = [d \in Docs |-> "absent"]
    /\ searchable = {}

Next ==
    \E d \in Docs : \/ Arrive(d) \/ ParkForReview(d) \/ Resume(d) \/ Fail(d)
                    \/ GiveUp(d) \/ Publish(d) \/ Complete(d)

Spec == Init /\ [][Next]_<<phase, searchable>>

\* What a reader of the index relies on: a published document is wholly
\* searchable.
PublishedIsSearchable == \A d \in Docs : phase[d] = "published" => d \in searchable

=============================================================================
