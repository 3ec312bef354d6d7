-------------------------- MODULE SearchStoreProofs --------------------------
(***************************************************************************)
(* SearchStore for any number of callers, versions, chunks and attempts,   *)
(* and any batch size.                                                     *)
(*                                                                         *)
(* A receipt is complete because a caller in its b-th batch finds the      *)
(* first b - 1 batches stored unless it was disturbed (Progress).          *)
(* Versions do not mix because, until something excuses it, one call is in *)
(* progress at a time, which deletes all it finds before it uploads        *)
(* (Apart).                                                                *)
(***************************************************************************)
EXTENDS SearchStore, TLAPS

LEMMA ChunksArePositions ==
    ASSUME NEW v \in Versions
    PROVE  Chunks(v) \subseteq Positions /\ Chunks(v) \subseteq Nat
BY SearchAssumption DEF Chunks, Positions

LEMMA BatchInChunks ==
    ASSUME NEW v \in Versions, NEW b
    PROVE  Batch(v, b) \subseteq Chunks(v) /\ Batch(v, b) \subseteq Positions
BY ChunksArePositions DEF Batch

LEMMA AppliedType ==
    ASSUME TypeOK, NEW r \in Requests, NEW ids
    PROVE  Applied(r, ids) \in [Positions -> Versions \cup {None}]
BY DEF Applied, Requests, TypeOK

LEMMA RequestType ==
    ASSUME TypeOK, NEW c \in Callers, call[c].pc # "idle"
    PROVE  Request(c) \in Requests
BY DEF TypeOK, Request, Requests, CallState, Version

LEMMA FirstAttempt == 0 \in 0 .. MaxAttempts - 1
BY SearchAssumption

LEMMA IdleType == Idle \in CallState
BY SearchAssumption DEF Idle, CallState, PCs

\* The ways a call goes on keep its type.
CallsOK == /\ call \in [Callers -> CallState]
           /\ \A c \in Callers : call[c].pc # "idle" => Version(c) \in Versions

LEMMA MovesType ==
    ASSUME CallsOK, NEW c \in Callers, NEW n \in CallState,
           n.pc # "idle" => n.version \in Versions, call' = [call EXCEPT ![c] = n]
    PROVE  CallsOK'
<1>1. call' \in [Callers -> CallState]
  BY DEF CallsOK
<1>2. ASSUME NEW d \in Callers, call'[d].pc # "idle" PROVE Version(d)' \in Versions
  <2>1. CASE d = c
    BY <1>2, <2>1 DEF CallsOK, Version
  <2>2. CASE d # c
    BY <1>2, <2>2 DEF CallsOK, Version
  <2> QED BY <2>1, <2>2
<1> QED BY <1>1, <1>2 DEF CallsOK

LEMMA EndType ==
    ASSUME CallsOK, NEW c \in Callers, End(c)
    PROVE  CallsOK'
BY IdleType, MovesType DEF End, Idle

LEMMA GotoType ==
    ASSUME CallsOK, NEW c \in Callers, call[c].pc # "idle", NEW pc \in PCs,
           NEW ids \in SUBSET Positions, Goto(c, pc, ids)
    PROVE  CallsOK'
<1> DEFINE n == [call[c] EXCEPT !.pc = pc, !.ids = ids, !.attempt = 0]
<1>1. call[c] \in CallState /\ call[c].version \in Versions
  BY DEF CallsOK, Version
<1>2. n \in CallState /\ n.version \in Versions
  BY <1>1, FirstAttempt DEF CallState
<1>3. call' = [call EXCEPT ![c] = n]
  BY DEF Goto, CallsOK
<1> HIDE DEF n
<1> QED BY <1>2, <1>3, MovesType

LEMMA StartBatchType ==
    ASSUME CallsOK, NEW c \in Callers, call[c].pc # "idle", NEW b \in Nat, StartBatch(c, b)
    PROVE  CallsOK'
<1>1. CASE End(c)
  BY <1>1, EndType
<1>2. CASE ~End(c)
  <2>1. Batch(Version(c), b) \in SUBSET Positions
    BY BatchInChunks DEF CallsOK
  <2>2. call' = [call EXCEPT ![c].pc = "upload", ![c].batch = b,
                             ![c].ids = Batch(Version(c), b), ![c].attempt = 0]
    BY <1>2 DEF StartBatch, _check_record_sizes
  <2> DEFINE n == [call[c] EXCEPT !.pc = "upload", !.batch = b,
                                  !.ids = Batch(Version(c), b), !.attempt = 0]
  <2>3. call[c] \in CallState /\ call[c].version \in Versions
    BY DEF CallsOK, Version
  <2>4. n \in CallState /\ n.version \in Versions
    BY <2>1, <2>3, FirstAttempt DEF CallState, PCs
  <2>5. call' = [call EXCEPT ![c] = n]
    BY <2>2 DEF CallsOK
  <2> HIDE DEF n
  <2> QED BY <2>4, <2>5, MovesType
<1> QED BY <1>1, <1>2

LEMMA NextBatchType ==
    ASSUME CallsOK, NEW c \in Callers, call[c].pc # "idle", NextBatch(c)
    PROVE  CallsOK'
<1>1. call[c].batch + 1 \in Nat
  BY DEF CallsOK, CallState
<1> QED BY <1>1, StartBatchType, GotoType DEF NextBatch, PCs

LEMMA StoredArePositions == Stored \subseteq Positions
BY DEF Stored

LEMMA InitTypeOK == Init => TypeOK
<1> SUFFICES ASSUME Init PROVE TypeOK
  OBVIOUS
<1>1. call \in [Callers -> CallState] /\ \A c \in Callers : call[c].pc = "idle"
  BY IdleType DEF Init, Idle
<1>2. store \in [Positions -> Versions \cup {None}]
  BY DEF Init
<1> QED BY <1>1, <1>2 DEF Init, TypeOK

LEMMA SendType ==
    ASSUME TypeOK, NEW c \in Callers, call[c].pc # "idle", NEW ids, Send(c, ids)
    PROVE  store' \in [Positions -> Versions \cup {None}] /\ disturbed' \subseteq Callers
BY AppliedType, RequestType DEF Send, Disturbs, TypeOK

LEMMA StepTypeOK ==
    ASSUME TypeOK, NEW c \in Callers, Step(c)
    PROVE  TypeOK'
<1>0. CallsOK /\ late \subseteq Requests
  BY DEF TypeOK, CallsOK
<1>1. CASE CheckVersion(c)
  BY <1>0, <1>1, StartBatchType, GotoType DEF CheckVersion, TypeOK, CallsOK, At, PCs
<1>2. CASE ListIds(c)
  BY <1>0, <1>2, StartBatchType, GotoType, StoredArePositions
     DEF ListIds, TypeOK, CallsOK, At, PCs
<1>3. CASE DeleteIds(c)
  BY <1>0, <1>3, StartBatchType, SendType DEF DeleteIds, TypeOK, CallsOK, At
<1>4. CASE Upload(c)
  <2>1. PICK failed \in SUBSET call[c].ids :
           /\ Send(c, call[c].ids \ failed)
           /\ IF failed = {} THEN NextBatch(c) ELSE Goto(c, "retry", failed)
    BY <1>4 DEF Upload
  <2>2. failed \in SUBSET Positions
    BY <1>0 DEF CallsOK, CallState
  <2>3. CallsOK'
    BY <1>0, <1>4, <2>1, <2>2, NextBatchType, GotoType DEF Upload, At, PCs
  <2> QED BY <1>4, <2>1, <2>3, SendType DEF Upload, TypeOK, CallsOK, At
<1>5. CASE Retry(c)
  <2>1. PICK failed \in SUBSET call[c].ids :
           /\ Send(c, call[c].ids \ failed)
           /\ IF failed = {} THEN NextBatch(c) ELSE End(c)
    BY <1>5 DEF Retry
  <2>2. CallsOK'
    BY <1>0, <1>5, <2>1, NextBatchType, EndType DEF Retry, At
  <2> QED BY <1>5, <2>1, <2>2, SendType DEF Retry, TypeOK, CallsOK, At
<1>6. CASE TimesOut(c)
  <2>1. CallsOK'
    <3>1. CASE End(c)
      BY <1>0, <3>1, EndType
    <3>2. CASE ~End(c)
      <4> DEFINE n == [call[c] EXCEPT !.attempt = @ + 1]
      <4>1. call[c] \in CallState /\ call[c].version \in Versions
        BY <1>0, <1>6 DEF CallsOK, Version, TimesOut, At
      <4>2. call[c].attempt + 1 < MaxAttempts
        BY <1>6, <3>2 DEF TimesOut
      <4>3. n \in CallState /\ n.version \in Versions
        BY <4>1, <4>2, SearchAssumption DEF CallState
      <4>4. call' = [call EXCEPT ![c] = n]
        BY <1>0, <1>6, <3>2 DEF TimesOut, CallsOK
      <4> HIDE DEF n
      <4> QED BY <1>0, <4>3, <4>4, MovesType
    <3> QED BY <3>1, <3>2
  <2>2. late' \subseteq Requests
    BY <1>0, <1>6, RequestType DEF TimesOut, GiveUp, At
  <2> QED BY <1>6, <2>1, <2>2 DEF TimesOut, TypeOK, CallsOK
<1>7. CASE Raises(c)
  BY <1>0, <1>7, EndType DEF Raises, TypeOK, CallsOK
<1>8. CASE Receive(c)
  BY <1>0, <1>8, EndType DEF Receive, TypeOK, CallsOK
<1> QED BY <1>1, <1>2, <1>3, <1>4, <1>5, <1>6, <1>7, <1>8 DEF Step

LEMMA NextTypeOK == TypeOK /\ [Next]_vars => TypeOK'
<1> SUFFICES ASSUME TypeOK, [Next]_vars PROVE TypeOK'
  OBVIOUS
<1>1. ASSUME NEW c \in Callers, NEW v \in Versions, Begin(c, v) PROVE TypeOK'
  <2>1. [Idle EXCEPT !.pc = "version", !.version = v] \in CallState
    BY FirstAttempt DEF Idle, CallState, PCs
  <2>2. CallsOK'
    BY <1>1, <2>1 DEF Begin, TypeOK, CallsOK, Idle, Version
  <2> QED BY <1>1, <2>2 DEF Begin, TypeOK, CallsOK
<1>2. ASSUME NEW c \in Callers, Step(c) PROVE TypeOK'
  BY <1>2, StepTypeOK
<1>3. ASSUME NEW r \in late, Lands(r) PROVE TypeOK'
  <2>1. r \in Requests
    BY DEF TypeOK
  <2> QED BY <1>3, <2>1, AppliedType DEF Lands, Disturbs, TypeOK, Version
<1>4. CASE UNCHANGED vars
  BY <1>4 DEF vars, TypeOK, Version
<1> QED BY <1>1, <1>2, <1>3, <1>4 DEF Next

\* Every behaviour of index() over the Azure store keeps its types: in
\* particular no backend call is attempted more than max_attempts times.
THEOREM TypeCorrect == Spec => []TypeOK
BY InitTypeOK, NextTypeOK, PTL DEF Spec

-----------------------------------------------------------------------------
(* Receipts *)

\* The chunks caller c has sent and seen stored.
Sent(c) ==
    {p \in Chunks(Version(c)) :
        \/ At(c, "receipt")
        \/ At(c, "upload") /\ p <= (call[c].batch - 1) * BatchSize
        \/ At(c, "retry") /\ p <= call[c].batch * BatchSize /\ p \notin call[c].ids}

Progress(c) ==
    /\ At(c, "upload") => call[c].ids = Batch(Version(c), call[c].batch)
    /\ c \notin disturbed => \A p \in Sent(c) : store[p] = Version(c)

AllProgress == \A c \in Callers : Progress(c)

\* A request that does not disturb a caller leaves its records alone.
LEMMA Untouched ==
    ASSUME TypeOK, NEW r \in Requests, NEW ids, NEW own, NEW d \in Callers \ own,
           call[d].pc # "idle", d \notin Disturbs(r, ids, own),
           NEW p \in Chunks(Version(d)), store[p] = Version(d)
    PROVE  Applied(r, ids)[p] = Version(d)
<1>1. Version(d) \in Versions /\ p \in Positions
  BY ChunksArePositions DEF TypeOK
<1>2. p \in ids => r.kind # "delete" /\ r.version = Version(d)
  BY DEF Disturbs
<1> QED BY <1>1, <1>2 DEF Applied

\* An upload of one's own stores what it sends and keeps what was stored.
LEMMA OwnUpload ==
    ASSUME TypeOK, NEW c \in Callers, At(c, "upload") \/ At(c, "retry"),
           NEW ids, Send(c, ids), NEW p \in Chunks(Version(c)),
           p \in ids \/ store[p] = Version(c)
    PROVE  store'[p] = Version(c)
<1>1. Version(c) \in Versions /\ p \in Positions
  BY ChunksArePositions DEF TypeOK, At
<1> QED BY <1>1 DEF Send, Applied, Request, At

LEMMA NothingSent ==
    ASSUME NEW c \in Callers, call[c].pc \notin {"upload", "retry", "receipt"}
    PROVE  Progress(c)
BY DEF Progress, Sent, At

\* A caller whose call and records are as before.
LEMMA ProgressStays ==
    ASSUME NEW d \in Callers, Progress(d), call'[d] = call[d],
           d \notin disturbed' => d \notin disturbed,
           d \notin disturbed' => \A p \in Sent(d) : store[p] = Version(d) => store'[p] = Version(d)
    PROVE  Progress(d)'
<1>1. Version(d)' = Version(d) /\ Sent(d)' = Sent(d)
  BY DEF Version, Sent, At, Chunks
<1> QED BY <1>1 DEF Progress, At, Batch, Chunks

LEMMA StartBatchProgress ==
    ASSUME TypeOK, NEW c \in Callers, call[c].pc # "idle", NEW b \in Nat, StartBatch(c, b),
           c \notin disturbed' =>
              \A p \in Chunks(Version(c)) : p <= (b - 1) * BatchSize => store'[p] = Version(c)
    PROVE  Progress(c)'
<1>1. CASE End(c)
  <2>1. call'[c].pc = "idle"
    BY <1>1 DEF End, Idle, TypeOK
  <2> QED BY <2>1 DEF Progress, Sent, At
<1>2. CASE ~End(c)
  <2>1. call' = [call EXCEPT ![c].pc = "upload", ![c].batch = b,
                             ![c].ids = Batch(Version(c), b), ![c].attempt = 0]
    BY <1>2 DEF StartBatch, _check_record_sizes
  <2>2. /\ call'[c].pc = "upload" /\ call'[c].batch = b
        /\ call'[c].ids = Batch(Version(c), b) /\ call'[c].version = Version(c)
    BY <2>1 DEF TypeOK, CallState, Version
  <2> QED BY <2>2 DEF Progress, Sent, At, Version, Batch, Chunks
<1> QED BY <1>1, <1>2

LEMMA NextBatchProgress ==
    ASSUME TypeOK, NEW c \in Callers, At(c, "upload") \/ At(c, "retry"), NextBatch(c),
           c \notin disturbed' =>
              \A p \in Chunks(Version(c)) : p <= call[c].batch * BatchSize => store'[p] = Version(c)
    PROVE  Progress(c)'
<1> DEFINE b == call[c].batch
<1>1. b \in Nat /\ b + 1 \in Nat /\ (b + 1) - 1 = b /\ call[c].pc # "idle"
  BY DEF TypeOK, CallState, At
<1>2. CASE b * BatchSize < NumChunks[Version(c)]
  <2>1. StartBatch(c, b + 1)
    BY <1>2 DEF NextBatch
  <2>2. ((b + 1) - 1) * BatchSize = b * BatchSize
    BY <1>1
  <2> QED BY <1>1, <2>1, <2>2, StartBatchProgress
<1>3. CASE ~(b * BatchSize < NumChunks[Version(c)])
  <2>1. Goto(c, "receipt", {})
    BY <1>3 DEF NextBatch
  <2>2. call'[c].pc = "receipt" /\ call'[c].version = Version(c)
    BY <2>1 DEF Goto, TypeOK, CallState, Version
  <2>3. NumChunks[Version(c)] \in Nat /\ b * BatchSize \in Nat
    BY <1>1, SearchAssumption DEF TypeOK
  <2>4. \A p \in Chunks(Version(c)) : p <= b * BatchSize
    BY <1>3, <2>3 DEF Chunks
  <2> QED BY <2>2, <2>4 DEF Progress, Sent, At, Version, Chunks
<1> QED BY <1>2, <1>3

\* While c takes a step, the other callers' progress stays.
LEMMA OthersProgress ==
    ASSUME TypeOK, AllProgress, NEW c \in Callers, NEW d \in Callers \ {c}, call'[d] = call[d],
           NEW r \in Requests, NEW ids, store' = Applied(r, ids),
           disturbed' = disturbed \cup Disturbs(r, ids, {c})
    PROVE  Progress(d)'
<1>1. CASE call[d].pc = "idle"
  BY <1>1 DEF Progress, Sent, At
<1>2. CASE call[d].pc # "idle"
  <2>1. ASSUME d \notin disturbed', NEW p \in Sent(d), store[p] = Version(d)
        PROVE  store'[p] = Version(d)
    BY <1>2, <2>1, Untouched DEF Sent
  <2> QED BY <2>1, ProgressStays DEF AllProgress
<1> QED BY <1>1, <1>2

\* The call of another caller is as it was.
LEMMA OthersStay ==
    ASSUME TypeOK, NEW c \in Callers, NEW d \in Callers \ {c}, Step(c) \/ \E v \in Versions : Begin(c, v)
    PROVE  call'[d] = call[d]
BY DEF TypeOK, Step, Begin, CheckVersion, ListIds, DeleteIds, Upload, Retry, TimesOut, Raises,
       Receive, StartBatch, _check_record_sizes, NextBatch, Goto, End

LEMMA UploadProgress ==
    ASSUME TypeOK, NEW c \in Callers, Progress(c), Upload(c)
    PROVE  Progress(c)'
<1> DEFINE b == call[c].batch
           v == Version(c)
<1>1. PICK failed \in SUBSET call[c].ids :
         /\ Send(c, call[c].ids \ failed)
         /\ IF failed = {} THEN NextBatch(c) ELSE Goto(c, "retry", failed)
  BY DEF Upload
<1>2. At(c, "upload") /\ call[c].ids = Batch(v, b) /\ v \in Versions /\ b \in Nat
  BY DEF Upload, Progress, TypeOK, CallState, At
<1>3. b * BatchSize \in Int /\ (b - 1) * BatchSize \in Int
  BY <1>2, SearchAssumption
<1>4. ASSUME c \notin disturbed', NEW p \in Chunks(v), p <= b * BatchSize, p \notin failed
      PROVE  store'[p] = v
  <2>1. p \in Nat
    BY <1>2, ChunksArePositions
  <2>2. CASE p <= (b - 1) * BatchSize
    <3>1. store[p] = v
      BY <1>1, <1>2, <1>4, <2>2 DEF Progress, Sent, Send
    <3> QED BY <1>1, <1>2, <3>1, OwnUpload
  <2>3. CASE ~(p <= (b - 1) * BatchSize)
    <3>1. p \in call[c].ids \ failed
      BY <1>2, <1>3, <1>4, <2>1, <2>3 DEF Batch
    <3> QED BY <1>1, <1>2, <3>1, OwnUpload
  <2> QED BY <2>2, <2>3
<1>5. CASE failed = {}
  BY <1>1, <1>2, <1>4, <1>5, NextBatchProgress
<1>6. CASE failed # {}
  <2>1. /\ call'[c].pc = "retry" /\ call'[c].ids = failed /\ call'[c].batch = b
        /\ call'[c].version = v
    BY <1>1, <1>6 DEF Goto, TypeOK, CallState, Version
  <2> QED BY <1>4, <2>1 DEF Progress, Sent, At, Version, Chunks
<1> QED BY <1>5, <1>6

LEMMA RetryProgress ==
    ASSUME TypeOK, NEW c \in Callers, Progress(c), Retry(c)
    PROVE  Progress(c)'
<1> DEFINE b == call[c].batch
           v == Version(c)
<1>1. PICK failed \in SUBSET call[c].ids :
         /\ Send(c, call[c].ids \ failed)
         /\ IF failed = {} THEN NextBatch(c) ELSE End(c)
  BY DEF Retry
<1>2. At(c, "retry")
  BY DEF Retry
<1>3. CASE failed = {}
  <2>1. ASSUME c \notin disturbed', NEW p \in Chunks(v), p <= b * BatchSize
        PROVE  store'[p] = v
    <3>1. p \in call[c].ids \/ store[p] = v
      BY <1>1, <1>2, <2>1 DEF Progress, Sent, Send
    <3> QED BY <1>1, <1>2, <1>3, <3>1, OwnUpload
  <2> QED BY <1>1, <1>2, <1>3, <2>1, NextBatchProgress
<1>4. CASE failed # {}
  <2>1. call'[c].pc = "idle"
    BY <1>1, <1>4 DEF End, Idle, TypeOK
  <2> QED BY <2>1 DEF Progress, Sent, At
<1> QED BY <1>3, <1>4

\* A caller before its first batch, or one whose call ends, has sent nothing.
LEMMA EndProgress ==
    ASSUME TypeOK, NEW c \in Callers, End(c)
    PROVE  Progress(c)'
<1>1. call'[c].pc = "idle"
  BY DEF End, Idle, TypeOK
<1> QED BY <1>1 DEF Progress, Sent, At

LEMMA FirstBatchProgress ==
    ASSUME TypeOK, NEW c \in Callers, call[c].pc # "idle", StartBatch(c, 1)
    PROVE  Progress(c)'
<1>1. (1 - 1) * BatchSize = 0
  BY SearchAssumption
<1>2. \A p \in Chunks(Version(c)) : ~(p <= (1 - 1) * BatchSize)
  BY <1>1, SearchAssumption DEF Chunks, TypeOK
<1> QED BY <1>2, StartBatchProgress

LEMMA GotoProgress ==
    ASSUME TypeOK, NEW c \in Callers, NEW pc \in {"list", "delete"}, NEW ids, Goto(c, pc, ids)
    PROVE  Progress(c)'
<1>1. call'[c].pc = pc
  BY DEF Goto, TypeOK, CallState
<1> QED BY <1>1 DEF Progress, Sent, At

LEMMA OwnProgress ==
    ASSUME TypeOK, AllProgress, NEW c \in Callers, Step(c)
    PROVE  Progress(c)'
<1>1. CASE CheckVersion(c)
  BY <1>1, FirstBatchProgress, GotoProgress DEF CheckVersion, At
<1>2. CASE ListIds(c)
  BY <1>2, FirstBatchProgress, GotoProgress DEF ListIds, At
<1>3. CASE DeleteIds(c)
  BY <1>3, FirstBatchProgress DEF DeleteIds, At
<1>4. CASE Upload(c)
  BY <1>4, UploadProgress DEF AllProgress
<1>5. CASE Retry(c)
  BY <1>5, RetryProgress DEF AllProgress
<1>6. CASE TimesOut(c)
  <2>1. CASE End(c)
    BY <2>1, EndProgress
  <2>2. CASE ~End(c)
    <3>1. /\ call'[c].pc = call[c].pc /\ call'[c].ids = call[c].ids
          /\ call'[c].batch = call[c].batch /\ call'[c].version = call[c].version
      BY <1>6, <2>2 DEF TimesOut, TypeOK, CallState
    <3>2. store' = store /\ disturbed' = disturbed
      BY <1>6 DEF TimesOut
    <3>3. Progress(c)
      BY DEF AllProgress
    <3> QED BY <3>1, <3>2, <3>3 DEF Progress, Sent, At, Version, Batch, Chunks
  <2> QED BY <2>1, <2>2
<1>7. CASE Raises(c)
  BY <1>7, EndProgress DEF Raises
<1>8. CASE Receive(c)
  BY <1>8, EndProgress DEF Receive
<1> QED BY <1>1, <1>2, <1>3, <1>4, <1>5, <1>6, <1>7, <1>8 DEF Step

LEMMA StepProgress ==
    ASSUME TypeOK, AllProgress, NEW c \in Callers, Step(c)
    PROVE  AllProgress'
<1> SUFFICES ASSUME NEW d \in Callers, d # c PROVE Progress(d)'
  BY OwnProgress DEF AllProgress
<1>1. call'[d] = call[d]
  BY OthersStay
<1>2. CASE DeleteIds(c) \/ Upload(c) \/ Retry(c)
  <2>1. PICK ids : Send(c, ids)
    BY <1>2 DEF DeleteIds, Upload, Retry
  <2>2. Request(c) \in Requests
    BY <1>2, RequestType DEF DeleteIds, Upload, Retry, At
  <2> QED BY <1>1, <2>1, <2>2, OthersProgress DEF Send
<1>3. CASE ~(DeleteIds(c) \/ Upload(c) \/ Retry(c))
  <2>1. store' = store /\ disturbed' = disturbed
    BY <1>3 DEF Step, CheckVersion, ListIds, TimesOut, Raises, Receive
  <2> QED BY <1>1, <2>1, ProgressStays DEF AllProgress
<1> QED BY <1>2, <1>3

LEMMA NextProgress == TypeOK /\ AllProgress /\ [Next]_vars => AllProgress'
<1> SUFFICES ASSUME TypeOK, AllProgress, [Next]_vars PROVE AllProgress'
  OBVIOUS
<1>1. ASSUME NEW c \in Callers, NEW v \in Versions, Begin(c, v) PROVE AllProgress'
  <2> SUFFICES ASSUME NEW d \in Callers PROVE Progress(d)'
    BY DEF AllProgress
  <2>1. CASE d = c
    <3>1. call'[c].pc = "version"
      BY <1>1 DEF Begin, Idle, TypeOK
    <3> QED BY <2>1, <3>1 DEF Progress, Sent, At
  <2>2. CASE d # c
    <3>1. call'[d] = call[d] /\ store' = store /\ (d \notin disturbed' => d \notin disturbed)
      BY <1>1, <2>2 DEF Begin, TypeOK
    <3> QED BY <3>1, ProgressStays DEF AllProgress
  <2> QED BY <2>1, <2>2
<1>2. ASSUME NEW c \in Callers, Step(c) PROVE AllProgress'
  BY <1>2, StepProgress
<1>3. ASSUME NEW r \in late, Lands(r) PROVE AllProgress'
  <2> SUFFICES ASSUME NEW d \in Callers PROVE Progress(d)'
    BY DEF AllProgress
  <2>1. PICK ids \in SUBSET r.ids : /\ store' = Applied(r, ids)
                                    /\ disturbed' = disturbed \cup Disturbs(r, ids, {})
    BY <1>3 DEF Lands
  <2>2. r \in Requests /\ call' = call
    BY <1>3 DEF TypeOK, Lands
  <2>3. CASE call[d].pc = "idle"
    BY <2>2, <2>3 DEF Progress, Sent, At
  <2>4. CASE call[d].pc # "idle"
    <3>1. ASSUME d \notin disturbed', NEW p \in Sent(d), store[p] = Version(d)
          PROVE  store'[p] = Version(d)
      BY <2>1, <2>2, <2>4, <3>1, Untouched DEF Sent
    <3> QED BY <2>1, <2>2, <3>1, ProgressStays DEF AllProgress
  <2> QED BY <2>3, <2>4
<1>4. CASE UNCHANGED vars
  <2>1. \A d \in Callers : Progress(d)' = Progress(d)
    BY <1>4 DEF vars, Progress, Sent, At, Version, Batch, Chunks
  <2> QED BY <2>1 DEF AllProgress
<1> QED BY <1>1, <1>2, <1>3, <1>4 DEF Next

\* However batches, failed items, timeouts, retries and late requests of any
\* number of callers interleave, a receipt of index() that no request of
\* another kind disturbed stands for all the chunks of its version.
THEOREM ReceiptComplete == Spec => []ReceiptIsComplete
<1>1. Init => AllProgress
  BY DEF Init, AllProgress, Progress, Sent, At, Idle
<1>2. AllProgress => ReceiptIsComplete
  BY DEF AllProgress, Progress, Sent, ReceiptIsComplete
<1> QED BY <1>1, <1>2, InitTypeOK, NextTypeOK, NextProgress, PTL DEF Spec

-----------------------------------------------------------------------------
(* Versions *)

Uploading(c) == call[c].pc \in {"upload", "retry", "receipt"}

OnlyVersion(v) == \A p \in Stored : store[p] = v

\* What a single call in progress knows of the store.
Apart ==
    ~excused =>
       /\ \A p, q \in Stored : store[p] = store[q]
       /\ \A c, d \in Callers : call[c].pc # "idle" /\ call[d].pc # "idle" => c = d
       /\ \A c \in Callers : At(c, "delete") => call[c].ids = Stored
       /\ \A c \in Callers : Uploading(c) => OnlyVersion(Version(c))

\* A step of c, the one call in progress, with what c knows afterwards.
LEMMA ApartStep ==
    ASSUME TypeOK, NEW c \in Callers, ~excused', Apart, ~excused, call[c].pc # "idle",
           \A d \in Callers \ {c} : call'[d] = call[d],
           \A p, q \in Stored' : store'[p] = store'[q],
           call'[c].pc = "delete" => call'[c].ids = Stored',
           Uploading(c)' => OnlyVersion(Version(c))'
    PROVE  Apart'
<1>1. \A d \in Callers \ {c} : call'[d].pc = "idle"
  BY DEF Apart
<1> QED BY <1>1 DEF Apart, Uploading, At

\* What a first or a further batch leaves of a call.
LEMMA StartBatchPC ==
    ASSUME TypeOK, NEW c \in Callers, NEW b, StartBatch(c, b)
    PROVE  /\ call'[c].pc \in {"idle", "upload"}
           /\ call'[c].pc # "idle" => call'[c].version = Version(c)
BY DEF StartBatch, _check_record_sizes, End, Idle, TypeOK, CallState, Version

LEMMA NextBatchPC ==
    ASSUME TypeOK, NEW c \in Callers, NextBatch(c)
    PROVE  /\ call'[c].pc \in {"idle", "upload", "receipt"}
           /\ call'[c].pc # "idle" => call'[c].version = Version(c)
<1>1. CASE StartBatch(c, call[c].batch + 1)
  BY <1>1, StartBatchPC
<1>2. CASE Goto(c, "receipt", {})
  BY <1>2 DEF Goto, TypeOK, CallState, Version
<1> QED BY <1>1, <1>2 DEF NextBatch

LEMMA EndPC ==
    ASSUME TypeOK, NEW c \in Callers, End(c)
    PROVE  call'[c].pc = "idle"
BY DEF End, Idle, TypeOK

LEMMA GotoPC ==
    ASSUME TypeOK, NEW c \in Callers, NEW pc, NEW ids, Goto(c, pc, ids)
    PROVE  call'[c].pc = pc /\ call'[c].ids = ids /\ call'[c].version = Version(c)
BY DEF Goto, TypeOK, CallState, Version

\* An upload by the one caller in progress leaves only its version.
LEMMA UploadKeepsApart ==
    ASSUME TypeOK, NEW c \in Callers, At(c, "upload") \/ At(c, "retry"),
           OnlyVersion(Version(c)), NEW ids, Send(c, ids)
    PROVE  \A p \in Stored' : store'[p] = Version(c)
<1> SUFFICES ASSUME NEW p \in Positions, store'[p] # None PROVE store'[p] = Version(c)
  BY DEF Stored
<1>1. store'[p] = IF p \notin ids THEN store[p] ELSE Version(c)
  BY DEF Send, Applied, Request, At
<1> QED BY <1>1 DEF OnlyVersion, Stored

LEMMA StepApart ==
    ASSUME TypeOK, Apart, NEW c \in Callers, Step(c), ~excused'
    PROVE  Apart'
<1>0. ~excused /\ call[c].pc # "idle"
  BY DEF Step, CheckVersion, ListIds, DeleteIds, Upload, Retry, TimesOut, Raises, Receive, At,
         TypeOK
<1>1. \A d \in Callers \ {c} : call'[d] = call[d]
  BY OthersStay
<1>2. \A p, q \in Stored : store[p] = store[q]
  BY <1>0 DEF Apart
<1>3. ASSUME store' = store, call'[c].pc = "idle" PROVE Apart'
  <2>1. Stored' = Stored /\ ~Uploading(c)'
    BY <1>3 DEF Stored, Uploading
  <2> QED BY <1>0, <1>1, <1>2, <1>3, <2>1, ApartStep
<1>4. CASE CheckVersion(c)
  <2>1. store' = store /\ Stored' = Stored
    BY <1>4 DEF CheckVersion, Stored
  <2>2. CASE Goto(c, "list", {})
    <3>1. call'[c].pc = "list"
      BY <2>2, GotoPC
    <3> QED BY <1>0, <1>1, <1>2, <2>1, <3>1, ApartStep DEF Uploading
  <2>3. CASE StartBatch(c, 1) /\ (Stored = {} \/ \E p \in Stored : store[p] = Version(c))
    <3>1. OnlyVersion(Version(c))
      BY <1>2, <2>3 DEF OnlyVersion
    <3>2. /\ call'[c].pc \in {"idle", "upload"}
          /\ call'[c].pc # "idle" => call'[c].version = Version(c)
      BY <2>3, StartBatchPC
    <3>3. Uploading(c)' => OnlyVersion(Version(c))'
      BY <2>1, <3>1, <3>2 DEF OnlyVersion, Uploading, Version
    <3> QED BY <1>0, <1>1, <1>2, <2>1, <3>2, <3>3, ApartStep
  <2> QED BY <1>4, <2>2, <2>3 DEF CheckVersion
<1>5. CASE ListIds(c)
  <2>1. store' = store /\ Stored' = Stored
    BY <1>5 DEF ListIds, Stored
  <2>2. CASE Stored = {}
    <3>1. StartBatch(c, 1)
      BY <1>5, <2>2 DEF ListIds
    <3>2. call'[c].pc \in {"idle", "upload"}
      BY <3>1, StartBatchPC
    <3>3. Uploading(c)' => OnlyVersion(Version(c))'
      BY <2>1, <2>2 DEF OnlyVersion
    <3> QED BY <1>0, <1>1, <1>2, <2>1, <3>2, <3>3, ApartStep
  <2>3. CASE Stored # {}
    <3>1. Goto(c, "delete", Stored)
      BY <1>5, <2>3 DEF ListIds
    <3>2. call'[c].pc = "delete" /\ call'[c].ids = Stored
      BY <3>1, GotoPC
    <3> QED BY <1>0, <1>1, <1>2, <2>1, <3>2, ApartStep DEF Uploading
  <2> QED BY <2>2, <2>3
<1>6. CASE DeleteIds(c)
  <2>1. PICK gone \in SUBSET call[c].ids : Send(c, gone) /\ gone = call[c].ids
    BY <1>6 DEF DeleteIds
  <2>2. gone = Stored
    BY <1>0, <1>6, <2>1 DEF Apart, DeleteIds
  <2>3. \A p \in Positions : store'[p] = IF p \notin Stored THEN store[p] ELSE None
    BY <1>6, <2>1, <2>2 DEF Send, Applied, Request, DeleteIds
  <2>4. Stored' = {}
    BY <2>3 DEF Stored
  <2>5. call'[c].pc \in {"idle", "upload"}
    BY <1>6, StartBatchPC DEF DeleteIds
  <2> QED BY <1>0, <1>1, <2>4, <2>5, ApartStep DEF OnlyVersion
<1>7. CASE Upload(c)
  <2>1. PICK failed \in SUBSET call[c].ids :
           /\ Send(c, call[c].ids \ failed)
           /\ IF failed = {} THEN NextBatch(c) ELSE Goto(c, "retry", failed)
    BY <1>7 DEF Upload
  <2>2. \A p \in Stored' : store'[p] = Version(c)
    BY <1>0, <1>7, <2>1, UploadKeepsApart DEF Apart, Uploading, Upload, At
  <2>3. /\ call'[c].pc \in {"idle", "upload", "retry", "receipt"}
        /\ call'[c].pc # "idle" => call'[c].version = Version(c)
    BY <2>1, NextBatchPC, GotoPC
  <2>4. Uploading(c)' => OnlyVersion(Version(c))'
    BY <2>2, <2>3 DEF OnlyVersion, Uploading, Version
  <2> QED BY <1>0, <1>1, <2>2, <2>3, <2>4, ApartStep
<1>8. CASE Retry(c)
  <2>1. PICK failed \in SUBSET call[c].ids :
           /\ Send(c, call[c].ids \ failed)
           /\ IF failed = {} THEN NextBatch(c) ELSE End(c)
    BY <1>8 DEF Retry
  <2>2. \A p \in Stored' : store'[p] = Version(c)
    BY <1>0, <1>8, <2>1, UploadKeepsApart DEF Apart, Uploading, Retry, At
  <2>3. /\ call'[c].pc \in {"idle", "upload", "receipt"}
        /\ call'[c].pc # "idle" => call'[c].version = Version(c)
    BY <2>1, NextBatchPC, EndPC
  <2>4. Uploading(c)' => OnlyVersion(Version(c))'
    BY <2>2, <2>3 DEF OnlyVersion, Uploading, Version
  <2> QED BY <1>0, <1>1, <2>2, <2>3, <2>4, ApartStep
<1>9. CASE TimesOut(c)
  <2>1. store' = store /\ Stored' = Stored
    BY <1>9 DEF TimesOut, Stored
  <2>2. CASE End(c)
    BY <1>3, <2>1, <2>2, EndPC
  <2>3. CASE ~End(c)
    <3>1. /\ call'[c].pc = call[c].pc /\ call'[c].ids = call[c].ids
          /\ call'[c].version = call[c].version
      BY <1>9, <2>3 DEF TimesOut, TypeOK, CallState
    <3>2. call'[c].pc = "delete" => call'[c].ids = Stored'
      BY <1>0, <2>1, <3>1 DEF Apart, At
    <3>3. Uploading(c)' => OnlyVersion(Version(c))'
      BY <1>0, <2>1, <3>1 DEF Apart, Uploading, OnlyVersion, Version
    <3> QED BY <1>0, <1>1, <1>2, <2>1, <3>2, <3>3, ApartStep
  <2> QED BY <2>2, <2>3
<1>10. CASE Raises(c) \/ Receive(c)
  BY <1>3, <1>10, EndPC DEF Raises, Receive
<1> QED BY <1>4, <1>5, <1>6, <1>7, <1>8, <1>9, <1>10 DEF Step

LEMMA NextApart == TypeOK /\ Apart /\ [Next]_vars => Apart'
<1> SUFFICES ASSUME TypeOK, Apart, [Next]_vars, ~excused' PROVE Apart'
  BY DEF Apart
<1>1. ASSUME NEW c \in Callers, NEW v \in Versions, Begin(c, v) PROVE Apart'
  <2>1. ~excused /\ \A d \in Callers : At(d, "idle")
    BY <1>1 DEF Begin, TypeOK
  <2>2. /\ \A d \in Callers : d # c => call'[d].pc = "idle"
        /\ call'[c].pc = "version"
    BY <1>1, <2>1 DEF Begin, Idle, At, TypeOK
  <2>3. store' = store /\ Stored' = Stored
    BY <1>1 DEF Begin, Stored
  <2>4. /\ \A d \in Callers : ~At(d, "delete")' /\ ~Uploading(d)'
        /\ \A d, e \in Callers : call'[d].pc # "idle" /\ call'[e].pc # "idle" => d = e
    BY <2>2 DEF At, Uploading
  <2> QED BY <2>1, <2>3, <2>4 DEF Apart
<1>2. ASSUME NEW c \in Callers, Step(c) PROVE Apart'
  BY <1>2, StepApart
<1>3. ASSUME NEW r \in late, Lands(r) PROVE Apart'
  BY <1>3 DEF Lands
<1>4. CASE UNCHANGED vars
  BY <1>4 DEF vars, Apart, Stored, At, Uploading, OnlyVersion, Version
<1> QED BY <1>1, <1>2, <1>3, <1>4 DEF Next

\* Records of two versions are never in the store together unless two calls
\* overlapped, a request landed late, or the service kept an item it was told
\* to delete, whatever failed halfway in any of the calls before.
THEOREM VersionsApart == Spec => []OneVersion
<1>1. Init => Apart
  <2> SUFFICES ASSUME Init PROVE Apart
    OBVIOUS
  <2>1. Stored = {} /\ \A c \in Callers : call[c].pc = "idle"
    BY DEF Init, Stored, Idle
  <2> QED BY <2>1 DEF Apart, At, Uploading
<1>2. Apart => OneVersion
  BY DEF Apart, OneVersion
<1> QED BY <1>1, <1>2, InitTypeOK, NextTypeOK, NextApart, PTL DEF Spec

=============================================================================
