-------------------------- MODULE ProvisionerProofs --------------------------
(***************************************************************************)
(* The safety of Provisioner for any number of callers and scenarios, any  *)
(* thresholds, faults and retirements, with a cached or a bare registry.   *)
(*                                                                         *)
(* The argument: the schema of the entry is fixed by its first claim, so   *)
(* every snapshot a caller acts on and every cached answer agrees with it; *)
(* a caller about to announce the index has seen the live index with that  *)
(* schema, and a live index never changes.  A decided entry has no claim   *)
(* token, so no owner's ETag-conditional write can still match it, and a   *)
(* reclaimer writes only while the record is the pending claim it          *)
(* observed.                                                               *)
(*                                                                         *)
(* The provisioner over Table Storage also implements the in-memory        *)
(* registry.  Every conditional write lands only while its ETag is         *)
(* current, and then the record is still what the caller checked: the      *)
(* claim it presents is the stored one, the snapshot it reclaims is the    *)
(* stored entry.  What that needs besides is that a stored claim is always *)
(* one that was handed out (TokenIssued), so that presenting it is a call  *)
(* the in-memory registry knows.                                           *)
(***************************************************************************)
EXTENDS Provisioner, TLAPS

WaitPC == {"wait", "deadline", "poll", "reclaim_read", "reclaim_write"}

\* A cached answer is of the type of an entry, with its schema.
AnswerGood(k, e) ==
    /\ k \in Answers \cup {None}
    /\ k # None /\ k.value # None => e # None /\ k.value.schema = e.schema

\* What the state n of a caller and its cached answer k have to do with the
\* entry e and the live index l.
Good(n, k, e, l) ==
    /\ n \in CallerState
    /\ AnswerGood(k, e)
    /\ n.pc \in {"get", "register", "verify"} => n.scenario \in Scenarios
    /\ n.pc = "register" => SchemaOf[n.scenario] # None
    /\ n.pc \notin {"idle", "get", "register"} => e # None
    /\ n.pc \notin {"idle", "get", "register", "register_read"} =>
          n.seen # None /\ (k # None => k.value # None)
    /\ n.seen # None => e # None /\ n.seen.schema = e.schema
    /\ n.pc \in ClaimPC \/ (n.pc = "register_read" /\ n.seen # None) =>
          n.seen.claim_token # None
    /\ n.pc \in {"ready_read", "ready_write"} => l = n.seen.schema
    /\ n.pc \in WaitPC => n.seen.status = "provisioning"
    /\ n.current /\ n.pc \in {"ready_write", "failed_write"} =>
          e.claim_token = n.seen.claim_token
    /\ n.current /\ n.pc = "reclaim_write" => n.seen = e

\* A decided entry has no claim, a ready one its index.
EntryGood(e, l) ==
    /\ e \in Entry \cup {None}
    /\ e # None /\ e.status \in {"ready", "failed"} => e.claim_token = None
    /\ e # None /\ e.status = "ready" => l = e.schema

Counters ==
    /\ live \in Schemas \cup {None} /\ claims \in Nat
    /\ faults \in 0 .. MaxFaults /\ slow \in 0 .. MaxSlow /\ retires \in 0 .. MaxRetires

IInv ==
    /\ Counters
    /\ EntryGood(entry, live)
    /\ caller = [c \in Callers |-> caller[c]]
    /\ cache = [c \in Callers |-> cache[c]]
    /\ \A c \in Callers : Good(caller[c], cache[c], entry, live)

-----------------------------------------------------------------------------
(* Entries *)

LEMMA NewClaimType ==
    ASSUME NEW token \in Nat, NEW schema \in Schemas, NEW version \in Nat
    PROVE  LET e == NewClaim(token, schema, version)
           IN  e \in Entry /\ e # None /\ e.status = "provisioning" /\ e.claim_token = token
               /\ e.schema = schema
<1>1. 0 \in 0 .. StaleAfter
  BY RegistryAssumption
<1>2. NewClaim(token, schema, version) \in Entry
  BY <1>1 DEF NewClaim, Entry
<1> QED BY <1>2, NoneIsNoEntry DEF NewClaim

LEMMA ReclaimedType ==
    ASSUME NEW e \in Entry, NEW token \in Nat
    PROVE  LET r == Reclaimed(e, token)
           IN  r \in Entry /\ r # None /\ r.status = e.status /\ r.claim_token = token
               /\ r.schema = e.schema
<1>1. 0 \in 0 .. StaleAfter
  BY RegistryAssumption
<1>2. Reclaimed(e, token) \in Entry
  BY <1>1 DEF Reclaimed, Entry
<1> QED BY <1>2, NoneIsNoEntry DEF Reclaimed, Entry

LEMMA MarkedType ==
    ASSUME NEW e \in Entry
    PROVE  /\ mark_ready(e) \in Entry /\ mark_ready(e).status = "ready"
           /\ mark_ready(e).claim_token = None /\ mark_ready(e).schema = e.schema
           /\ mark_failed(e) \in Entry /\ mark_failed(e).status = "failed"
           /\ mark_failed(e).claim_token = None /\ mark_failed(e).schema = e.schema
<1>1. 0 \in 0 .. VerifyInterval
  BY RegistryAssumption
<1>2. mark_ready(e) \in Entry
  BY <1>1 DEF mark_ready, Entry
<1>3. mark_failed(e) \in Entry
  BY DEF mark_failed, Entry
<1> QED BY <1>2, <1>3 DEF mark_ready, mark_failed, Entry

LEMMA TouchedType ==
    ASSUME NEW e \in Entry
    PROVE  /\ touch_verified(e) \in Entry /\ touch_verified(e).status = e.status
           /\ touch_verified(e).claim_token = e.claim_token
           /\ touch_verified(e).schema = e.schema
           /\ mark_retired(e) \in Entry /\ mark_retired(e).status = "retired"
           /\ mark_retired(e).schema = e.schema
<1>1. 0 \in 0 .. VerifyInterval
  BY RegistryAssumption
<1>2. touch_verified(e) \in Entry
  BY <1>1 DEF touch_verified, Entry
<1>3. mark_retired(e) \in Entry
  BY DEF mark_retired, Entry
<1> QED BY <1>2, <1>3 DEF touch_verified, mark_retired, Entry

LEMMA LaterType ==
    ASSUME NEW e \in Entry \cup {None}
    PROVE  /\ Later(e) \in Entry \cup {None}
           /\ Later(e) = None <=> e = None
           /\ e # None => /\ Later(e).status = e.status /\ Later(e).schema = e.schema
                          /\ Later(e).claim_token = e.claim_token
<1>1. CASE e = None
  BY <1>1 DEF Later
<1>2. CASE e # None
  <2> DEFINE a == Older(e.claimed_at, StaleAfter)
             b == Older(e.last_verified_at, VerifyInterval)
  <2>1. e \in Entry
    BY <1>2
  <2>2. /\ e.claimed_at \in (0 .. StaleAfter) \cup {None}
        /\ e.last_verified_at \in (0 .. VerifyInterval) \cup {None}
    BY <2>1 DEF Entry
  <2>3. /\ a \in (0 .. StaleAfter) \cup {None}
        /\ b \in (0 .. VerifyInterval) \cup {None}
    BY <2>2, RegistryAssumption DEF Older
  <2>4. Later(e) = [e EXCEPT !.claimed_at = a, !.last_verified_at = b]
    BY <1>2, <2>1 DEF Later, Aged, Entry
  <2> HIDE DEF a, b
  <2>5. Later(e) \in Entry
    BY <2>1, <2>3, <2>4 DEF Entry
  <2>6. Later(e).status = e.status /\ Later(e).schema = e.schema
        /\ Later(e).claim_token = e.claim_token
    BY <2>1, <2>4 DEF Entry
  <2> QED BY <1>2, <2>5, <2>6, NoneIsNoEntry
<1> QED BY <1>1, <1>2

-----------------------------------------------------------------------------
(* Callers *)

LEMMA IdleGood ==
    ASSUME NEW out \in Outcomes, NEW k, NEW e, NEW l, AnswerGood(k, e)
    PROVE  Good(Idle(out), k, e, l)
<1>1. 0 \in 0 .. WaitTimeout
  BY ProvisionerAssumption
<1>2. Idle(out) \in CallerState
  BY <1>1 DEF Idle, CallerState, CallerPC
<1>3. Idle(out).pc = "idle" /\ Idle(out).seen = None
  BY DEF Idle
<1> QED BY <1>2, <1>3 DEF Good, ClaimPC, WaitPC

\* One caller moves, the entry and the index stand still.
LEMMA MoveKeeps ==
    ASSUME IInv, NEW c \in Callers, NEW n, NEW k, Good(n, k, entry, live),
           caller' = [caller EXCEPT ![c] = n], cache' = [cache EXCEPT ![c] = k],
           UNCHANGED <<entry, live>>, Counters'
    PROVE  IInv'
<1>1. caller' = [x \in Callers |-> IF x = c THEN n ELSE caller[x]]
      /\ cache' = [x \in Callers |-> IF x = c THEN k ELSE cache[x]]
  BY DEF IInv
<1>2. ASSUME NEW x \in Callers PROVE Good(caller'[x], cache'[x], entry, live)
  BY <1>1 DEF IInv
<1> QED BY <1>1, <1>2 DEF IInv

\* The same with the cache as it was.
LEMMA MoveOnlyKeeps ==
    ASSUME IInv, NEW c \in Callers, NEW n, Good(n, cache[c], entry, live),
           caller' = [caller EXCEPT ![c] = n], UNCHANGED <<cache, entry, live>>, Counters'
    PROVE  IInv'
<1>1. cache' = [cache EXCEPT ![c] = cache[c]]
  BY DEF IInv
<1> QED BY <1>1, MoveKeeps

\* Another write of the record takes a caller its ETag and nothing else.
LEMMA OutdatedGood ==
    ASSUME NEW n, NEW k, NEW e, NEW l, Good(n, k, e, l), NEW f, f # None,
           e # None => f.schema = e.schema
    PROVE  Good([n EXCEPT !.current = FALSE], k, f, l)
<1> DEFINE m == [n EXCEPT !.current = FALSE]
<1>1. n \in CallerState
  BY DEF Good
<1>2. /\ m \in CallerState /\ m.pc = n.pc /\ m.scenario = n.scenario /\ m.seen = n.seen
      /\ m.current = FALSE
  BY <1>1 DEF CallerState
<1> HIDE DEF m
<1>3. AnswerGood(k, f)
  BY DEF Good, AnswerGood
<1>4. Good(m, k, f, l)
  BY <1>2, <1>3 DEF Good
<1> QED BY <1>4 DEF m

LEMMA WriteKeeps ==
    ASSUME IInv, NEW c \in Callers, NEW e \in Entry, EntryGood(e, live), e # None,
           entry # None => e.schema = entry.schema,
           NEW n, NEW k, Good(n, k, e, live), Write(c, e, n),
           cache' = [cache EXCEPT ![c] = k], UNCHANGED live, Counters'
    PROVE  IInv'
<1>1. /\ caller' = [x \in Callers |->
                       IF x = c THEN n ELSE [caller[x] EXCEPT !.current = FALSE]]
      /\ cache' = [x \in Callers |-> IF x = c THEN k ELSE cache[x]]
      /\ entry' = e
  BY DEF IInv, Write, Moved
<1>2. ASSUME NEW x \in Callers PROVE Good(caller'[x], cache'[x], e, live)
  <2>1. CASE x = c
    BY <1>1, <2>1
  <2>2. CASE x # c
    <3>1. Good(caller[x], cache[x], entry, live)
      BY DEF IInv
    <3>2. Good([caller[x] EXCEPT !.current = FALSE], cache[x], e, live)
      BY <3>1, OutdatedGood
    <3> QED BY <1>1, <2>2, <3>2
  <2> QED BY <2>1, <2>2
<1> QED BY <1>1, <1>2 DEF IInv

\* The answer of get() agrees with the entry, and so does what is cached.
LEMMA GotGood ==
    ASSUME IInv, NEW c \in Callers
    PROVE  /\ Got(c) \in Entry \cup {None}
           /\ Got(c) # None => entry # None /\ Got(c).schema = entry.schema
           /\ Fill(c) => \E k : /\ cache' = [cache EXCEPT ![c] = k]
                                /\ AnswerGood(k, entry)
                                /\ k # None => k.value = Got(c)
<1>1. AnswerGood(cache[c], entry) /\ entry \in Entry \cup {None}
  BY DEF IInv, Good, EntryGood
<1>2. Got(c) \in Entry \cup {None}
  BY <1>1 DEF Got, AnswerGood, Answers
<1>3. Got(c) # None => entry # None /\ Got(c).schema = entry.schema
  BY <1>1 DEF Got, AnswerGood
<1>4. ASSUME Fill(c)
      PROVE  \E k : /\ cache' = [cache EXCEPT ![c] = k]
                    /\ AnswerGood(k, entry)
                    /\ k # None => k.value = Got(c)
  <2>1. CASE cache' = cache
    <3>1. cache' = [cache EXCEPT ![c] = cache[c]]
      BY <2>1 DEF IInv
    <3>2. cache[c] # None => cache[c].value = Got(c)
      BY DEF Got
    <3> QED BY <1>1, <3>1, <3>2
  <2>2. CASE cache' # cache
    <3> DEFINE k == [value |-> entry, age |-> 0]
    <3>1. cache' = [cache EXCEPT ![c] = k] /\ cache[c] = None
      BY <1>4, <2>2 DEF Fill
    <3>2. 0 \in 0 .. CacheTTL
      BY ProvisionerAssumption
    <3>3. k \in Answers /\ k.value = entry
      BY <1>1, <3>2 DEF Answers
    <3> HIDE DEF k
    <3>4. AnswerGood(k, entry) /\ k.value = Got(c)
      BY <3>1, <3>3 DEF AnswerGood, Got
    <3> QED BY <3>1, <3>4
  <2> QED BY <2>1, <2>2
<1> QED BY <1>2, <1>3, <1>4

LEMMA RaiseKeeps ==
    ASSUME IInv, NEW c \in Callers, NEW out \in Outcomes, Raise(c, out),
           NEW k, AnswerGood(k, entry), cache' = [cache EXCEPT ![c] = k],
           UNCHANGED <<entry, live>>, Counters'
    PROVE  IInv'
BY IdleGood, MoveKeeps DEF Raise

LEMMA RaiseOnlyKeeps ==
    ASSUME IInv, NEW c \in Callers, NEW out \in Outcomes, Raise(c, out),
           UNCHANGED <<cache, entry, live>>, Counters'
    PROVE  IInv'
<1>1. AnswerGood(cache[c], entry)
  BY DEF IInv, Good
<1> QED BY <1>1, IdleGood, MoveOnlyKeeps DEF Raise

LEMMA StatusOutcome ==
    ASSUME NEW e \in Entry
    PROVE  e.status \in Outcomes
BY DEF Entry, Outcomes

\* The state after Take.
Taken(n, pc, e) == [n EXCEPT !.pc = pc, !.seen = e, !.waited = 0,
                             !.scenario = IF pc = "verify" THEN n.scenario ELSE None]

LEMMA TakeForm ==
    ASSUME IInv, NEW c \in Callers, NEW pc, NEW e, Take(c, pc, e)
    PROVE  caller' = [caller EXCEPT ![c] = Taken(caller[c], pc, e)]
<1>1. caller[c] \in CallerState /\ caller = [x \in Callers |-> caller[x]]
  BY DEF IInv, Good
<1> QED BY <1>1 DEF Take, Taken, CallerState

LEMMA TakenType ==
    ASSUME NEW n \in CallerState, NEW pc \in CallerPC, NEW e \in Entry \cup {None}
    PROVE  LET m == Taken(n, pc, e)
           IN  /\ m \in CallerState /\ m.pc = pc /\ m.seen = e /\ m.current = n.current
               /\ m.scenario = IF pc = "verify" THEN n.scenario ELSE None
<1> DEFINE s == IF pc = "verify" THEN n.scenario ELSE None
<1>1. s \in Scenarios \cup {None}
  BY DEF CallerState
<1>2. 0 \in 0 .. WaitTimeout
  BY ProvisionerAssumption
<1>3. Taken(n, pc, e) = [n EXCEPT !.pc = pc, !.seen = e, !.waited = 0, !.scenario = s]
  BY DEF Taken
<1>4. s = IF pc = "verify" THEN n.scenario ELSE None
  OBVIOUS
<1> HIDE DEF s
<1>5. Taken(n, pc, e) \in CallerState
  BY <1>1, <1>2, <1>3 DEF CallerState
<1>6. /\ Taken(n, pc, e).pc = pc /\ Taken(n, pc, e).seen = e
      /\ Taken(n, pc, e).current = n.current /\ Taken(n, pc, e).scenario = s
  BY <1>3 DEF CallerState
<1> QED BY <1>4, <1>5, <1>6

LEMMA TakeKeeps ==
    ASSUME IInv, NEW c \in Callers, NEW pc \in {"wait", "verify", "exists"}, NEW e \in Entry,
           Take(c, pc, e), entry # None, e.schema = entry.schema,
           pc = "verify" => caller[c].scenario \in Scenarios,
           pc = "wait" => e.status = "provisioning",
           pc = "exists" => e.claim_token # None,
           NEW k, AnswerGood(k, entry), k # None => k.value # None,
           cache' = [cache EXCEPT ![c] = k], UNCHANGED <<entry, live>>, Counters'
    PROVE  IInv'
<1> DEFINE m == Taken(caller[c], pc, e)
<1>1. caller[c] \in CallerState /\ pc \in CallerPC /\ e # None
  BY NoneIsNoEntry DEF IInv, Good, CallerPC, ClaimPC
<1>2. /\ m \in CallerState /\ m.pc = pc /\ m.seen = e
      /\ m.scenario = IF pc = "verify" THEN caller[c].scenario ELSE None
  BY <1>1, TakenType
<1>3. caller' = [caller EXCEPT ![c] = m]
  BY TakeForm
<1> HIDE DEF m
<1>4. Good(m, k, entry, live)
  BY <1>1, <1>2 DEF Good, ClaimPC, WaitPC
<1> QED BY <1>3, <1>4, MoveKeeps

LEMMA AfterLosingKeeps ==
    ASSUME IInv, NEW c \in Callers, NEW e \in Entry, AfterLosingClaim(c, e),
           entry # None, e.schema = entry.schema,
           NEW k, AnswerGood(k, entry), k # None => k.value # None,
           cache' = [cache EXCEPT ![c] = k], UNCHANGED <<entry, live>>, Counters'
    PROVE  IInv'
<1>1. CASE e.status = "ready" /\ Return(c, e)
  BY <1>1, StatusOutcome, RaiseKeeps DEF Return, Raise
<1>2. CASE e.status = "provisioning" /\ Take(c, "wait", e)
  BY <1>2, TakeKeeps
<1>3. CASE Raise(c, "error")
  BY <1>3, RaiseKeeps DEF Outcomes
<1> QED BY <1>1, <1>2, <1>3 DEF AfterLosingClaim

LEMMA GotoForm ==
    ASSUME IInv, NEW c \in Callers, NEW pc, Goto(c, pc)
    PROVE  caller' = [caller EXCEPT ![c] = [caller[c] EXCEPT !.pc = pc]]
<1>1. caller[c] \in CallerState /\ caller = [x \in Callers |-> caller[x]]
  BY DEF IInv, Good
<1> QED BY <1>1 DEF Goto, CallerState

LEMMA GotoType ==
    ASSUME NEW n \in CallerState, NEW pc \in CallerPC
    PROVE  LET m == [n EXCEPT !.pc = pc]
           IN  /\ m \in CallerState /\ m.pc = pc /\ m.seen = n.seen /\ m.scenario = n.scenario
               /\ m.current = n.current
BY DEF CallerState

\* A caller with an entry to act on goes on; what the new point asks of its
\* snapshot is known, and no write is prepared.
LEMMA GotoKeeps ==
    ASSUME IInv, NEW c \in Callers,
           NEW pc \in CallerPC \ {"idle", "get", "register", "register_read", "verify",
                                   "ready_write", "failed_write", "reclaim_write"},
           Goto(c, pc),
           caller[c].pc \notin {"idle", "get", "register", "register_read"},
           pc \in ClaimPC => caller[c].pc \in ClaimPC,
           pc \in WaitPC => caller[c].pc \in WaitPC,
           pc = "ready_read" => live = caller[c].seen.schema,
           UNCHANGED <<cache, entry, live>>, Counters'
    PROVE  IInv'
<1> DEFINE m == [caller[c] EXCEPT !.pc = pc]
<1>1. Good(caller[c], cache[c], entry, live)
  BY DEF IInv
<1>2. caller[c] \in CallerState
  BY <1>1 DEF Good
<1>3. /\ m \in CallerState /\ m.pc = pc /\ m.seen = caller[c].seen
      /\ m.scenario = caller[c].scenario /\ m.current = caller[c].current
  BY <1>2, GotoType
<1>4. caller' = [caller EXCEPT ![c] = m]
  BY GotoForm
<1> HIDE DEF m
<1>5. Good(m, cache[c], entry, live)
  BY <1>1, <1>3 DEF Good
<1> QED BY <1>4, <1>5, MoveOnlyKeeps

\* The read before a conditional write.
LEMMA ReadRecordKeeps ==
    ASSUME IInv, NEW c \in Callers,
           NEW pc \in {"ready_write", "failed_write", "touch_write", "reclaim_write"},
           ReadRecord(c, pc),
           caller[c].pc \notin {"idle", "get", "register", "register_read"},
           pc \in {"ready_write", "failed_write"} =>
              caller[c].pc \in ClaimPC /\ entry.claim_token = caller[c].seen.claim_token,
           pc = "ready_write" => caller[c].pc = "ready_read",
           pc = "reclaim_write" => caller[c].pc \in WaitPC /\ entry = caller[c].seen,
           UNCHANGED <<cache, entry, live>>, Counters'
    PROVE  IInv'
<1> DEFINE m == [caller[c] EXCEPT !.pc = pc, !.current = TRUE]
<1>1. Good(caller[c], cache[c], entry, live)
  BY DEF IInv
<1>2. caller[c] \in CallerState /\ pc \in CallerPC
  BY <1>1 DEF Good, CallerPC, ClaimPC
<1>3. /\ m \in CallerState /\ m.pc = pc /\ m.seen = caller[c].seen
      /\ m.scenario = caller[c].scenario
  BY <1>2 DEF CallerState
<1>4. caller' = [caller EXCEPT ![c] = m]
  BY <1>2 DEF ReadRecord, CallerState, IInv
<1> HIDE DEF m
<1>5. Good(m, cache[c], entry, live)
  BY <1>1, <1>3 DEF Good, ClaimPC, WaitPC
<1> QED BY <1>4, <1>5, MoveOnlyKeeps

LEMMA ConditionalKeeps ==
    ASSUME IInv, NEW c \in Callers, NEW e \in Entry, NEW done, NEW refused,
           ConditionalWrite(c, e, done, refused),
           entry # None, e.schema = entry.schema,
           caller[c].current => EntryGood(e, live) /\ Good(done, None, e, live)
                                /\ Good(refused, cache[c], e, live),
           ~caller[c].current => Good(refused, cache[c], entry, live),
           UNCHANGED live, Counters'
    PROVE  IInv'
<1>0. e # None /\ cache[c] = cache[c] /\ cache = [x \in Callers |-> cache[x]]
  BY NoneIsNoEntry DEF IInv
<1>1. CASE caller[c].current /\ Write(c, e, done) /\ invalidate(c)
  BY <1>0, <1>1, WriteKeeps DEF invalidate
<1>2. ASSUME caller[c].current, NEW n \in {refused, Idle("error")}, Write(c, e, n), UNCHANGED cache
      PROVE  IInv'
  <2>1. cache' = [cache EXCEPT ![c] = cache[c]]
    BY <1>0, <1>2
  <2>2. Good(caller[c], cache[c], entry, live)
    BY DEF IInv
  <2>3. AnswerGood(cache[c], e)
    BY <1>0, <2>2 DEF Good, AnswerGood
  <2>4. Good(n, cache[c], e, live)
    BY <1>2, <2>3, IdleGood DEF Outcomes
  <2> QED BY <1>0, <1>2, <2>1, <2>4, WriteKeeps
<1>3. CASE /\ ~caller[c].current
           /\ caller' = [caller EXCEPT ![c] = refused]
           /\ UNCHANGED <<entry, cache>>
  BY <1>3, MoveOnlyKeeps
<1> QED BY <1>1, <1>2, <1>3 DEF ConditionalWrite

\* The state of a caller whose write was refused.
LEMMA RefusedGood ==
    ASSUME NEW n, NEW k, NEW e, NEW l, Good(n, k, e, l), NEW f, f # None, f.schema = e.schema,
           NEW pc \in {"reget", "deadline"},
           n.pc \notin {"idle", "get", "register", "register_read"},
           pc = "deadline" => n.pc \in WaitPC
    PROVE  Good([n EXCEPT !.pc = pc], k, f, l)
<1> DEFINE m == [n EXCEPT !.pc = pc]
<1>1. n \in CallerState /\ pc \in CallerPC
  BY DEF Good, CallerPC
<1>2. /\ m \in CallerState /\ m.pc = pc /\ m.seen = n.seen /\ m.scenario = n.scenario
      /\ m.current = n.current
  BY <1>1, GotoType
<1>3. AnswerGood(k, f)
  BY DEF Good, AnswerGood
<1> HIDE DEF m
<1>4. Good(m, k, f, l)
  BY <1>2, <1>3 DEF Good, ClaimPC, WaitPC
<1> QED BY <1>4 DEF m

LEMMA NoAnswer ==
    ASSUME NEW e
    PROVE  AnswerGood(None, e)
BY DEF AnswerGood

LEMMA ReadyWriteKeeps ==
    ASSUME IInv, NEW c \in Callers, ReadyWrite(c), Counters'
    PROVE  IInv'
<1> DEFINE e == mark_ready(entry)
           r == [caller[c] EXCEPT !.pc = "reget"]
<1>1. Good(caller[c], cache[c], entry, live) /\ caller[c].pc = "ready_write"
  BY DEF IInv, ReadyWrite, At
<1>2. entry \in Entry /\ entry # None /\ live = entry.schema
  BY <1>1 DEF Good, IInv, EntryGood
<1>3. e \in Entry /\ e.status = "ready" /\ e.claim_token = None /\ e.schema = entry.schema
      /\ e # None
  BY <1>2, MarkedType, NoneIsNoEntry
<1>4. ConditionalWrite(c, e, Idle("ready"), r) /\ UNCHANGED live
  BY DEF ReadyWrite
<1>5. Good(r, cache[c], e, live) /\ Good(r, cache[c], entry, live)
  BY <1>1, <1>2, <1>3, RefusedGood
<1>6. Good(Idle("ready"), None, e, live)
  BY NoAnswer, IdleGood DEF Outcomes
<1> HIDE DEF e, r
<1>7. EntryGood(e, live)
  BY <1>2, <1>3 DEF EntryGood
<1> QED BY <1>2, <1>3, <1>4, <1>5, <1>6, <1>7, ConditionalKeeps

LEMMA FailedWriteKeeps ==
    ASSUME IInv, NEW c \in Callers, FailedWrite(c), Counters'
    PROVE  IInv'
<1> DEFINE e == mark_failed(entry)
<1>1. Good(caller[c], cache[c], entry, live) /\ caller[c].pc = "failed_write"
  BY DEF IInv, FailedWrite, At
<1>2. entry \in Entry /\ entry # None /\ AnswerGood(cache[c], entry)
  BY <1>1 DEF Good, IInv, EntryGood
<1>3. e \in Entry /\ e.status = "failed" /\ e.claim_token = None /\ e.schema = entry.schema
      /\ e # None
  BY <1>2, MarkedType, NoneIsNoEntry
<1>4. ConditionalWrite(c, e, Idle("error"), Idle("error")) /\ UNCHANGED live
  BY DEF FailedWrite
<1> HIDE DEF e
<1>5. AnswerGood(cache[c], e)
  BY <1>2, <1>3 DEF AnswerGood
<1>6. /\ Good(Idle("error"), None, e, live) /\ Good(Idle("error"), cache[c], e, live)
      /\ Good(Idle("error"), cache[c], entry, live)
  BY <1>2, <1>5, NoAnswer, IdleGood DEF Outcomes
<1>7. EntryGood(e, live)
  BY <1>3 DEF EntryGood
<1> QED BY <1>2, <1>3, <1>4, <1>6, <1>7, ConditionalKeeps

LEMMA TouchWriteKeeps ==
    ASSUME IInv, NEW c \in Callers, TouchWrite(c), Counters'
    PROVE  IInv'
<1> DEFINE e == touch_verified(entry)
<1>1. Good(caller[c], cache[c], entry, live) /\ caller[c].pc = "touch_write"
  BY DEF IInv, TouchWrite, At
<1>2. entry \in Entry /\ entry # None /\ AnswerGood(cache[c], entry) /\ EntryGood(entry, live)
  BY <1>1 DEF Good, IInv, EntryGood
<1>3. e \in Entry /\ e.status = entry.status /\ e.claim_token = entry.claim_token
      /\ e.schema = entry.schema /\ e # None
  BY <1>2, TouchedType, NoneIsNoEntry
<1>4. ConditionalWrite(c, e, Idle(entry.status), Idle("conflict")) /\ UNCHANGED live
  BY DEF TouchWrite
<1> HIDE DEF e
<1>5. AnswerGood(cache[c], e) /\ entry.status \in Outcomes
  BY <1>2, <1>3, StatusOutcome DEF AnswerGood
<1>6. /\ Good(Idle(entry.status), None, e, live) /\ Good(Idle("conflict"), cache[c], e, live)
      /\ Good(Idle("conflict"), cache[c], entry, live)
  BY <1>2, <1>5, NoAnswer, IdleGood DEF Outcomes
<1>7. EntryGood(e, live)
  BY <1>2, <1>3 DEF EntryGood
<1> QED BY <1>2, <1>3, <1>4, <1>6, <1>7, ConditionalKeeps

LEMMA ReclaimWriteKeeps ==
    ASSUME IInv, NEW c \in Callers, ReclaimWrite(c), Counters'
    PROVE  IInv'
<1> DEFINE t == claims + 1
           e == Reclaimed(caller[c].seen, t)
           d == [caller[c] EXCEPT !.pc = "exists", !.seen = e]
           r == [caller[c] EXCEPT !.pc = "deadline"]
<1>1. Good(caller[c], cache[c], entry, live) /\ caller[c].pc = "reclaim_write"
  BY DEF IInv, ReclaimWrite, At
<1>2. /\ entry \in Entry /\ entry # None /\ caller[c] \in CallerState
      /\ caller[c].seen # None /\ caller[c].seen.schema = entry.schema
      /\ caller[c].seen.status = "provisioning"
  BY <1>1 DEF Good, IInv, EntryGood, WaitPC
<1>3. caller[c].seen \in Entry
  BY <1>2 DEF CallerState
<1>4. t \in Nat /\ t # None
  BY RegistryAssumption DEF IInv, Counters
<1>5. ConditionalWrite(c, e, d, r) /\ UNCHANGED live
  BY DEF ReclaimWrite
<1> HIDE DEF t
<1>6. /\ e \in Entry /\ e.status = "provisioning" /\ e.claim_token = t /\ e # None
      /\ e.schema = entry.schema
  BY <1>2, <1>3, <1>4, ReclaimedType
<1> HIDE DEF e
<1>7. Good(r, cache[c], e, live) /\ Good(r, cache[c], entry, live)
  BY <1>1, <1>2, <1>6, RefusedGood DEF WaitPC
<1>8. d \in CallerState /\ d.pc = "exists" /\ d.seen = e
  BY <1>2, <1>6 DEF CallerState, CallerPC, ClaimPC
<1> HIDE DEF d, r
<1>9. Good(d, None, e, live)
  BY <1>4, <1>6, <1>8, NoAnswer DEF Good, ClaimPC, WaitPC
<1>10. EntryGood(e, live)
  BY <1>6 DEF EntryGood
<1> QED BY <1>2, <1>5, <1>6, <1>7, <1>9, <1>10, ConditionalKeeps

-----------------------------------------------------------------------------
(* The other steps of a call *)

LEMMA StartKeeps ==
    ASSUME IInv, NEW c \in Callers, Start(c), Counters'
    PROVE  IInv'
<1>1. PICK s \in Scenarios :
         caller' = [caller EXCEPT ![c] = [Idle("none") EXCEPT !.pc = "get", !.scenario = s]]
  BY DEF Start
<1> DEFINE m == [Idle("none") EXCEPT !.pc = "get", !.scenario = s]
<1>2. 0 \in 0 .. WaitTimeout
  BY ProvisionerAssumption
<1>3. m \in CallerState /\ m.pc = "get" /\ m.scenario = s /\ m.seen = None
  BY <1>2 DEF Idle, CallerState, CallerPC, Outcomes
<1>4. AnswerGood(cache[c], entry)
  BY DEF IInv, Good
<1>5. caller' = [caller EXCEPT ![c] = m] /\ UNCHANGED <<cache, entry, live>>
  BY <1>1 DEF Start
<1> HIDE DEF m
<1>6. Good(m, cache[c], entry, live)
  BY <1>3, <1>4 DEF Good, ClaimPC, WaitPC
<1> QED BY <1>5, <1>6, MoveOnlyKeeps

LEMMA GetKeeps ==
    ASSUME IInv, NEW c \in Callers, Get(c), Counters'
    PROVE  IInv'
<1>1. Good(caller[c], cache[c], entry, live) /\ caller[c].pc = "get"
  BY DEF IInv, Get, At
<1>2. /\ Fill(c) /\ UNCHANGED <<entry, live>> /\ caller[c] \in CallerState
      /\ caller[c].scenario \in Scenarios
  BY <1>1 DEF Get, Good
<1>3. PICK k : /\ cache' = [cache EXCEPT ![c] = k]
               /\ AnswerGood(k, entry)
               /\ k # None => k.value = Got(c)
  BY <1>2, GotGood
<1>4. /\ Got(c) \in Entry \cup {None}
      /\ Got(c) # None => entry # None /\ Got(c).schema = entry.schema
  BY GotGood
<1>5. CASE Got(c) = None /\ ClaimNew(c)
  <2>1. CASE Raise(c, "error")
    BY <1>2, <1>3, <2>1, RaiseKeeps DEF Outcomes
  <2>2. CASE Goto(c, "register") /\ SchemaFor(c) # None
    <3> DEFINE m == [caller[c] EXCEPT !.pc = "register"]
    <3>1. /\ m \in CallerState /\ m.pc = "register" /\ m.seen = caller[c].seen
          /\ m.scenario = caller[c].scenario
      BY <1>2, GotoType DEF CallerPC
    <3>2. caller' = [caller EXCEPT ![c] = m]
      BY <2>2, GotoForm
    <3> HIDE DEF m
    <3>3. Good(m, k, entry, live)
      BY <1>1, <1>2, <1>3, <2>2, <3>1 DEF Good, ClaimPC, WaitPC, SchemaFor
    <3> QED BY <1>2, <1>3, <3>2, <3>3, MoveKeeps
  <2> QED BY <1>5, <2>1, <2>2 DEF ClaimNew
<1>6. CASE Got(c) # None /\ HandleReady(c, Got(c))
  <2>1. CASE Return(c, Got(c))
    BY <1>2, <1>3, <1>4, <1>6, <2>1, StatusOutcome, RaiseKeeps DEF Return, Raise
  <2>2. CASE Raise(c, "error")
    BY <1>2, <1>3, <2>2, RaiseKeeps DEF Outcomes
  <2>3. CASE Take(c, "verify", Got(c))
    BY <1>2, <1>3, <1>4, <1>6, <2>3, TakeKeeps
  <2> QED BY <1>6, <2>1, <2>2, <2>3 DEF HandleReady
<1>7. CASE Got(c) # None /\ AfterLosingClaim(c, Got(c))
  BY <1>2, <1>3, <1>4, <1>7, AfterLosingKeeps
<1> QED BY <1>5, <1>6, <1>7 DEF Get

LEMMA RegisterKeeps ==
    ASSUME IInv, NEW c \in Callers, Register(c), Counters'
    PROVE  IInv'
<1> DEFINE t == claims + 1
           e == NewClaim(t, SchemaFor(c), VersionOf[caller[c].scenario])
           Won(pc) == [caller[c] EXCEPT !.pc = pc, !.seen = e, !.scenario = None]
<1>1. Good(caller[c], cache[c], entry, live) /\ caller[c].pc = "register"
  BY DEF IInv, Register, At
<1>2. /\ caller[c] \in CallerState /\ caller[c].scenario \in Scenarios
      /\ SchemaFor(c) \in Schemas /\ VersionOf[caller[c].scenario] \in Nat
      /\ AnswerGood(cache[c], entry)
  BY <1>1, ProvisionerAssumption DEF Good, SchemaFor
<1>3. t \in Nat /\ t # None
  BY RegistryAssumption DEF IInv, Counters
<1>4. \/ entry = None /\ Write(c, e, Won("exists")) /\ invalidate(c)
      \/ entry = None /\ Write(c, e, Won("register_read")) /\ UNCHANGED cache
      \/ entry # None /\ Take(c, "register_read", None) /\ UNCHANGED <<entry, cache>>
  BY DEF Register
<1>5. UNCHANGED live
  BY DEF Register
<1> HIDE DEF t
<1>6. e \in Entry /\ e # None /\ e.status = "provisioning" /\ e.claim_token = t
  BY <1>2, <1>3, NewClaimType
<1> HIDE DEF e
<1>7. ASSUME NEW pc \in {"exists", "register_read"}
      PROVE  Won(pc) \in CallerState /\ Won(pc).pc = pc /\ Won(pc).seen = e
  BY <1>2, <1>6 DEF CallerState, CallerPC, ClaimPC
<1> HIDE DEF Won
<1>8. EntryGood(e, live)
  BY <1>6 DEF EntryGood
<1>9. CASE entry = None /\ Write(c, e, Won("exists")) /\ invalidate(c)
  <2>1. Good(Won("exists"), None, e, live)
    BY <1>3, <1>6, <1>7, NoAnswer DEF Good, ClaimPC, WaitPC
  <2> QED BY <1>5, <1>6, <1>8, <1>9, <2>1, WriteKeeps DEF invalidate
<1>10. CASE entry = None /\ Write(c, e, Won("register_read")) /\ UNCHANGED cache
  <2>1. AnswerGood(cache[c], e)
    BY <1>2, <1>10 DEF AnswerGood
  <2>2. Good(Won("register_read"), cache[c], e, live)
    BY <1>3, <1>6, <1>7, <2>1 DEF Good, ClaimPC, WaitPC
  <2>3. cache' = [cache EXCEPT ![c] = cache[c]]
    BY <1>10 DEF IInv
  <2> QED BY <1>5, <1>6, <1>8, <1>10, <2>2, <2>3, WriteKeeps
<1>11. CASE entry # None /\ Take(c, "register_read", None) /\ UNCHANGED <<entry, cache>>
  <2> DEFINE m == Taken(caller[c], "register_read", None)
  <2>1. m \in CallerState /\ m.pc = "register_read" /\ m.seen = None
    BY <1>2, TakenType DEF CallerPC
  <2>2. caller' = [caller EXCEPT ![c] = m]
    BY <1>11, TakeForm
  <2> HIDE DEF m
  <2>3. Good(m, cache[c], entry, live)
    BY <1>2, <1>11, <2>1 DEF Good, ClaimPC, WaitPC
  <2> QED BY <1>5, <1>11, <2>2, <2>3, MoveOnlyKeeps
<1> QED BY <1>4, <1>9, <1>10, <1>11

LEMMA RegisterReadKeeps ==
    ASSUME IInv, NEW c \in Callers, RegisterRead(c), Counters'
    PROVE  IInv'
<1>1. Good(caller[c], cache[c], entry, live) /\ caller[c].pc = "register_read"
  BY DEF IInv, RegisterRead, At
<1>2. /\ entry \in Entry /\ entry # None /\ UNCHANGED <<entry, live>>
      /\ cache' = [cache EXCEPT ![c] = None]
  BY <1>1 DEF Good, IInv, EntryGood, RegisterRead, invalidate
<1>3. CASE /\ caller[c].seen # None /\ entry.claim_token = caller[c].seen.claim_token
           /\ Take(c, "exists", entry)
  <2>1. entry.claim_token # None
    BY <1>1, <1>3 DEF Good
  <2> QED BY <1>2, <1>3, <2>1, NoAnswer, TakeKeeps
<1>4. CASE AfterLosingClaim(c, entry)
  BY <1>2, <1>4, NoAnswer, AfterLosingKeeps
<1> QED BY <1>3, <1>4 DEF RegisterRead

\* An index comes into being: nobody could have counted on another one.
LEMMA LiveGood ==
    ASSUME NEW n, NEW k, NEW e, Good(n, k, e, None), NEW l
    PROVE  Good(n, k, e, l)
<1>1. n \in CallerState
  BY DEF Good
<1>2. n.pc \in {"ready_read", "ready_write"} => n.seen \in Entry
  BY <1>1 DEF Good, CallerState
<1>3. n.pc \notin {"ready_read", "ready_write"}
  BY <1>2, RegistryAssumption DEF Good, Entry
<1> QED BY <1>3 DEF Good

LEMMA CreatedKeeps ==
    ASSUME IInv, NEW c \in Callers, NEW pc \in {"describe", "failed_read"}, Goto(c, pc),
           caller[c].pc = "create", live' = live \/ live = None,
           UNCHANGED <<entry, cache>>, Counters'
    PROVE  IInv'
<1>1. CASE live' = live
  BY <1>1, GotoKeeps DEF CallerPC, ClaimPC, WaitPC
<1>2. CASE live = None
  <2> DEFINE m == [caller[c] EXCEPT !.pc = pc]
  <2>1. Good(caller[c], cache[c], entry, live)
    BY DEF IInv
  <2>2. caller[c] \in CallerState /\ pc \in CallerPC
    BY <2>1 DEF Good, CallerPC, ClaimPC
  <2>3. /\ m \in CallerState /\ m.pc = pc /\ m.seen = caller[c].seen
        /\ m.scenario = caller[c].scenario /\ m.current = caller[c].current
    BY <2>2, GotoType
  <2>4. caller' = [caller EXCEPT ![c] = m]
    BY GotoForm
  <2> HIDE DEF m
  <2>5. Good(m, cache[c], entry, live')
    BY <2>1, <2>3 DEF Good, ClaimPC, WaitPC
  <2>6. caller' = [x \in Callers |-> IF x = c THEN m ELSE caller[x]]
    BY <2>4 DEF IInv
  <2>7. ASSUME NEW x \in Callers PROVE Good(caller'[x], cache[x], entry, live')
    <3>1. Good(caller[x], cache[x], entry, live')
      BY <1>2, LiveGood DEF IInv
    <3> QED BY <2>5, <2>6, <3>1
  <2>8. EntryGood(entry, live')
    <3>1. EntryGood(entry, None)
      BY <1>2 DEF IInv
    <3>2. entry # None => entry.status # "ready"
      BY <3>1, RegistryAssumption DEF EntryGood, Entry
    <3> QED BY <3>1, <3>2 DEF EntryGood
  <2> QED BY <2>6, <2>7, <2>8 DEF IInv
<1> QED BY <1>1, <1>2

LEMMA CreateKeeps ==
    ASSUME IInv, NEW c \in Callers, Create(c), Counters'
    PROVE  IInv'
<1>1. caller[c].pc = "create" /\ UNCHANGED <<entry, cache>>
  BY DEF Create, create_index, At
<1>2. /\ live' = live \/ live = None
      /\ \E pc \in {"describe", "failed_read"} : Goto(c, pc)
  BY DEF Create, create_index
<1> QED BY <1>1, <1>2, CreatedKeeps

LEMMA ClaimStepsKeep ==
    ASSUME IInv, NEW c \in Callers, Exists(c) \/ Describe(c) \/ ReadyRead(c) \/ FailedRead(c),
           Counters'
    PROVE  IInv'
<1>1. CASE Exists(c)
  BY <1>1, GotoKeeps DEF Exists, index_exists, At, CallerPC, ClaimPC, WaitPC
<1>2. CASE Describe(c)
  BY <1>2, GotoKeeps DEF Describe, describe_index, At, CallerPC, ClaimPC, WaitPC
<1>3. CASE ReadyRead(c)
  <2>1. caller[c].pc = "ready_read" /\ UNCHANGED <<entry, live, cache>>
    BY <1>3 DEF ReadyRead, At
  <2>2. CASE /\ entry.claim_token = caller[c].seen.claim_token
             /\ ReadRecord(c, "ready_write")
    BY <2>1, <2>2, ReadRecordKeeps DEF ClaimPC
  <2>3. CASE Goto(c, "reget")
    BY <2>1, <2>3, GotoKeeps DEF CallerPC, ClaimPC, WaitPC
  <2> QED BY <1>3, <2>2, <2>3 DEF ReadyRead, check_claim_token
<1>4. CASE FailedRead(c)
  <2>1. caller[c].pc = "failed_read" /\ UNCHANGED <<entry, live, cache>>
    BY <1>4 DEF FailedRead, At
  <2>2. CASE /\ entry.claim_token = caller[c].seen.claim_token
             /\ ReadRecord(c, "failed_write")
    BY <2>1, <2>2, ReadRecordKeeps DEF ClaimPC
  <2>3. CASE Raise(c, "error")
    BY <2>1, <2>3, RaiseOnlyKeeps DEF Outcomes
  <2> QED BY <1>4, <2>2, <2>3 DEF FailedRead, check_claim_token
<1> QED BY <1>1, <1>2, <1>3, <1>4

LEMMA RegetKeeps ==
    ASSUME IInv, NEW c \in Callers, Reget(c) \/ Poll(c), Counters'
    PROVE  IInv'
<1>1. /\ Good(caller[c], cache[c], entry, live) /\ caller[c].pc \in {"reget", "poll"}
      /\ Fill(c) /\ UNCHANGED <<entry, live>>
  BY DEF IInv, Reget, Poll, At
<1>2. PICK k : /\ cache' = [cache EXCEPT ![c] = k]
               /\ AnswerGood(k, entry)
               /\ k # None => k.value = Got(c)
  BY <1>1, GotGood
<1>3. Got(c) # None /\ entry # None
  BY <1>1 DEF Good, Got
<1>4. Got(c) \in Entry /\ Got(c).schema = entry.schema
  BY <1>3, GotGood
<1>5. CASE AfterLosingClaim(c, Got(c))
  BY <1>1, <1>2, <1>3, <1>4, <1>5, AfterLosingKeeps
<1>6. CASE /\ Got(c).status = "provisioning"
           /\ caller' = [caller EXCEPT ![c].pc = "wait", ![c].seen = Got(c)]
  <2> DEFINE m == [caller[c] EXCEPT !.pc = "wait", !.seen = Got(c)]
  <2>1. caller[c] \in CallerState
    BY <1>1 DEF Good
  <2>2. m \in CallerState /\ m.pc = "wait" /\ m.seen = Got(c)
    BY <1>4, <2>1 DEF CallerState, CallerPC
  <2>3. caller' = [caller EXCEPT ![c] = m]
    BY <1>6, <2>1 DEF IInv, CallerState
  <2> HIDE DEF m
  <2>4. Good(m, k, entry, live)
    BY <1>2, <1>3, <1>4, <1>6, <2>2 DEF Good, ClaimPC, WaitPC
  <2> QED BY <1>1, <1>2, <2>3, <2>4, MoveKeeps
<1> QED BY <1>5, <1>6 DEF Reget, Poll

LEMMA VerifyStepsKeep ==
    ASSUME IInv, NEW c \in Callers, Verify(c) \/ TouchRead(c), Counters'
    PROVE  IInv'
<1>1. CASE Verify(c)
  <2>1. caller[c].pc = "verify" /\ UNCHANGED <<entry, live, cache>>
    BY <1>1 DEF Verify, describe_index, At
  <2>2. CASE Goto(c, "touch_read")
    BY <2>1, <2>2, GotoKeeps DEF CallerPC, ClaimPC, WaitPC
  <2>3. CASE Raise(c, "error")
    BY <2>1, <2>3, RaiseOnlyKeeps DEF Outcomes
  <2> QED BY <1>1, <2>2, <2>3 DEF Verify, describe_index
<1>2. CASE TouchRead(c)
  BY <1>2, ReadRecordKeeps DEF TouchRead, At
<1> QED BY <1>1, <1>2

LEMMA WaitStepsKeep ==
    ASSUME IInv, NEW c \in Callers, Wait(c) \/ ReclaimRead(c) \/ Deadline(c), Counters'
    PROVE  IInv'
<1>1. /\ caller[c].pc \in {"wait", "reclaim_read", "deadline"} /\ UNCHANGED <<entry, live, cache>>
      /\ \/ \E pc \in {"reclaim_read", "deadline", "poll"} : Goto(c, pc)
         \/ Raise(c, "error")
         \/ entry = caller[c].seen /\ ReadRecord(c, "reclaim_write")
  BY DEF Wait, ReclaimRead, Deadline, At
<1>2. CASE \E pc \in {"reclaim_read", "deadline", "poll"} : Goto(c, pc)
  BY <1>1, <1>2, GotoKeeps DEF CallerPC, ClaimPC, WaitPC
<1>3. CASE Raise(c, "error")
  BY <1>1, <1>3, RaiseOnlyKeeps DEF Outcomes
<1>4. CASE entry = caller[c].seen /\ ReadRecord(c, "reclaim_write")
  BY <1>1, <1>4, ReadRecordKeeps DEF WaitPC
<1> QED BY <1>1, <1>2, <1>3, <1>4

-----------------------------------------------------------------------------
(* The environment *)

LEMMA FaultsKeep ==
    ASSUME IInv, NEW c \in Callers, Unavailable(c) \/ Crash(c), Counters'
    PROVE  IInv'
<1>1. CASE Unavailable(c)
  BY <1>1, RaiseOnlyKeeps DEF Unavailable, Outcomes
<1>2. CASE Crash(c)
  BY <1>2, NoAnswer, RaiseKeeps DEF Crash, invalidate, Outcomes
<1> QED BY <1>1, <1>2

LEMMA RetireKeeps ==
    ASSUME IInv, Retire, Counters'
    PROVE  IInv'
<1> DEFINE e == mark_retired(entry)
<1>1. /\ entry \in Entry /\ entry # None /\ entry' = e /\ UNCHANGED <<cache, live>>
      /\ caller' = [c \in Callers |-> [caller[c] EXCEPT !.current = FALSE]]
  BY DEF Retire, IInv, EntryGood
<1>2. e \in Entry /\ e # None /\ e.status = "retired" /\ e.schema = entry.schema
  BY <1>1, TouchedType, NoneIsNoEntry
<1> HIDE DEF e
<1>3. ASSUME NEW c \in Callers PROVE Good(caller'[c], cache[c], e, live)
  <2>1. Good(caller[c], cache[c], entry, live)
    BY DEF IInv
  <2>2. Good([caller[c] EXCEPT !.current = FALSE], cache[c], e, live)
    BY <1>1, <1>2, <2>1, OutdatedGood
  <2> QED BY <1>1, <2>2
<1>4. EntryGood(e, live)
  BY <1>2 DEF EntryGood
<1> QED BY <1>1, <1>3, <1>4 DEF IInv

LEMMA KeptGood ==
    ASSUME NEW e \in Entry \cup {None}, NEW k, AnswerGood(k, e), k # None
    PROVE  /\ AnswerGood(Kept(k), Later(e))
           /\ Kept(k) # None => (Kept(k).value = None <=> k.value = None)
<1>1. k \in Answers
  BY DEF AnswerGood
<1>2. k.value \in Entry \cup {None} /\ k.age \in 0 .. CacheTTL
  BY <1>1 DEF Answers
<1>3. CASE k.age + 1 >= CacheTTL
  BY <1>3, NoAnswer DEF Kept
<1>4. CASE ~(k.age + 1 >= CacheTTL)
  <2> DEFINE v == Later(k.value)
             a == k.age + 1
             m == [value |-> v, age |-> a]
  <2>1. a \in 0 .. CacheTTL
    BY <1>2, <1>4, ProvisionerAssumption
  <2>2. /\ v \in Entry \cup {None} /\ (v = None <=> k.value = None)
        /\ v # None => v.schema = k.value.schema
    BY <1>2, LaterType
  <2>3. e # None => Later(e) # None /\ Later(e).schema = e.schema
    BY LaterType
  <2>4. Kept(k) = m
    BY <1>4 DEF Kept
  <2> HIDE DEF a, v
  <2>5. m \in Answers /\ m.value = v
    BY <2>1, <2>2 DEF Answers
  <2> HIDE DEF m
  <2>6. AnswerGood(m, Later(e))
    BY <2>2, <2>3, <2>5 DEF AnswerGood
  <2> QED BY <2>2, <2>4, <2>5, <2>6
<1> QED BY <1>3, <1>4

\* Time passes for a caller, its cached answer and the entry.
LEMMA ElapsedGood ==
    ASSUME NEW e \in Entry \cup {None}, NEW n, NEW k, NEW l, Good(n, k, e, l), NEW m, NEW q,
           m = IF n.pc = "idle" THEN n
               ELSE [n EXCEPT !.seen = Later(n.seen),
                              !.waited = IF n.waited = WaitTimeout THEN n.waited
                                         ELSE n.waited + 1],
           q = IF k = None THEN None ELSE Kept(k)
    PROVE  Good(m, q, Later(e), l)
<1>1. n \in CallerState /\ AnswerGood(k, e)
  BY DEF Good
<1>2. AnswerGood(q, Later(e)) /\ (q # None => k # None /\ (q.value = None <=> k.value = None))
  BY <1>1, NoAnswer, KeptGood
<1>3. /\ e # None => Later(e) # None /\ Later(e).schema = e.schema
                      /\ Later(e).claim_token = e.claim_token /\ Later(e).status = e.status
  BY LaterType
<1>4. n.seen \in Entry \cup {None} /\ n.waited \in 0 .. WaitTimeout
  BY <1>1 DEF CallerState
<1>5. CASE n.pc = "idle"
  BY <1>1, <1>2, <1>3, <1>5 DEF Good, ClaimPC, WaitPC
<1>6. CASE n.pc # "idle"
  <2> DEFINE w == IF n.waited = WaitTimeout THEN n.waited ELSE n.waited + 1
             v == Later(n.seen)
  <2>1. w \in 0 .. WaitTimeout
    BY <1>4, ProvisionerAssumption
  <2>2. /\ v \in Entry \cup {None} /\ (v = None <=> n.seen = None)
        /\ n.seen # None => /\ v.schema = n.seen.schema /\ v.status = n.seen.status
                            /\ v.claim_token = n.seen.claim_token
        /\ n.seen = e => v = Later(e)
    BY <1>4, LaterType
  <2>3. m = [n EXCEPT !.seen = v, !.waited = w]
    BY <1>6
  <2> HIDE DEF v, w
  <2>4. /\ m \in CallerState /\ m.pc = n.pc /\ m.seen = v /\ m.scenario = n.scenario
        /\ m.current = n.current
    BY <1>1, <2>1, <2>2, <2>3 DEF CallerState
  <2> QED BY <1>2, <1>3, <2>2, <2>4 DEF Good, ClaimPC, WaitPC
<1> QED BY <1>5, <1>6

LEMMA TickKeeps ==
    ASSUME IInv, Tick, Counters'
    PROVE  IInv'
<1>1. entry \in Entry \cup {None} /\ entry' = Later(entry) /\ live' = live
  BY DEF IInv, EntryGood, Tick
<1>2. /\ cache' = [c \in Callers |-> IF cache[c] = None THEN None ELSE Kept(cache[c])]
      /\ caller' = [c \in Callers |-> IF caller[c].pc = "idle" THEN caller[c] ELSE Elapsed(c)]
  BY DEF Tick, At
<1>3. ASSUME NEW c \in Callers PROVE Good(caller'[c], cache'[c], entry', live)
  <2> DEFINE m == [caller[c] EXCEPT !.seen = Later(caller[c].seen),
                                    !.waited = IF caller[c].waited = WaitTimeout
                                               THEN caller[c].waited ELSE caller[c].waited + 1]
  <2>1. Good(caller[c], cache[c], entry, live)
    BY DEF IInv
  <2>2. caller[c] \in CallerState
    BY <2>1 DEF Good
  <2>3. Elapsed(c) = m
    BY <2>2 DEF Elapsed, CallerState
  <2>4. caller'[c] = IF caller[c].pc = "idle" THEN caller[c] ELSE m
    BY <1>2, <2>3
  <2>5. cache'[c] = IF cache[c] = None THEN None ELSE Kept(cache[c])
    BY <1>2
  <2> QED BY <1>1, <2>1, <2>4, <2>5, ElapsedGood
<1>4. EntryGood(entry', live)
  <2>1. /\ entry' \in Entry \cup {None} /\ (entry' = None <=> entry = None)
        /\ entry # None => /\ entry'.status = entry.status /\ entry'.schema = entry.schema
                           /\ entry'.claim_token = entry.claim_token
    BY <1>1, LaterType
  <2> QED BY <2>1 DEF IInv, EntryGood
<1> QED BY <1>1, <1>2, <1>3, <1>4 DEF IInv

-----------------------------------------------------------------------------
(* The invariant *)

LEMMA InitIInv == Init => IInv
<1> SUFFICES ASSUME Init PROVE IInv
  OBVIOUS
<1>1. entry = None /\ live \in Schemas \cup {None} /\ EntryGood(entry, live)
  BY DEF Init, EntryGood
<1>2. Counters
  BY ProvisionerAssumption DEF Init, Counters
<1>3. caller = [c \in Callers |-> Idle("none")] /\ cache = [c \in Callers |-> None]
  BY DEF Init
<1>4. ASSUME NEW c \in Callers PROVE Good(caller[c], cache[c], entry, live)
  BY <1>3, NoAnswer, IdleGood DEF Outcomes
<1> QED BY <1>1, <1>2, <1>3, <1>4 DEF IInv

LEMMA FaultCounted ==
    ASSUME IInv, Fault
    PROVE  faults' \in 0 .. MaxFaults
BY ProvisionerAssumption DEF IInv, Counters, Fault

LEMMA NextCounters ==
    ASSUME IInv, Next
    PROVE  Counters'
<1>0. /\ live \in Schemas \cup {None} /\ claims \in Nat /\ claims + 1 \in Nat
      /\ faults \in 0 .. MaxFaults /\ slow \in 0 .. MaxSlow /\ retires \in 0 .. MaxRetires
  BY DEF IInv, Counters
<1>1. ASSUME NEW c \in Callers, Create(c) PROVE Counters'
  <2>1. Good(caller[c], cache[c], entry, live) /\ caller[c].pc = "create"
    BY <1>1 DEF IInv, Create, create_index, At
  <2>2. caller[c].seen \in Entry
    BY <2>1 DEF Good, CallerState
  <2>3. live' \in Schemas \cup {None}
    BY <1>0, <1>1, <2>2 DEF Create, create_index, Entry
  <2>4. faults' \in 0 .. MaxFaults
    BY <1>0, <1>1, FaultCounted DEF Create, create_index
  <2> QED BY <1>0, <1>1, <2>3, <2>4 DEF Create, create_index, Counters
<1>2. ASSUME NEW c \in Callers, Register(c) PROVE Counters'
  <2>1. faults' \in 0 .. MaxFaults /\ claims' \in Nat
    BY <1>0, <1>2, FaultCounted DEF Register
  <2> QED BY <1>0, <1>2, <2>1 DEF Register, Counters
<1>3. ASSUME NEW c \in Callers, ReadyWrite(c) \/ FailedWrite(c) \/ TouchWrite(c) \/ ReclaimWrite(c)
      PROVE  Counters'
  <2>1. faults' \in 0 .. MaxFaults
    BY <1>0, <1>3, FaultCounted
       DEF ReadyWrite, FailedWrite, TouchWrite, ReclaimWrite, ConditionalWrite
  <2>2. claims' \in Nat /\ UNCHANGED <<live, slow, retires>>
    BY <1>0, <1>3 DEF ReadyWrite, FailedWrite, TouchWrite, ReclaimWrite
  <2> QED BY <1>0, <2>1, <2>2 DEF Counters
<1>4. ASSUME NEW c \in Callers, Unavailable(c) \/ Crash(c) PROVE Counters'
  BY <1>0, <1>4, FaultCounted DEF Unavailable, Crash, Counters
<1>5. ASSUME NEW c \in Callers,
             \/ Start(c) \/ Get(c) \/ RegisterRead(c) \/ Exists(c) \/ Describe(c)
             \/ ReadyRead(c) \/ Reget(c) \/ FailedRead(c)
      PROVE  Counters'
  BY <1>0, <1>5 DEF Start, Get, RegisterRead, Exists, Describe, ReadyRead, Reget, FailedRead,
                    boundVars, Counters
<1>6. ASSUME NEW c \in Callers,
             \/ Verify(c) \/ TouchRead(c) \/ Wait(c) \/ ReclaimRead(c) \/ Deadline(c) \/ Poll(c)
      PROVE  Counters'
  BY <1>0, <1>6 DEF Verify, TouchRead, Wait, ReclaimRead, Deadline, Poll, boundVars, Counters
<1>7. ASSUME Retire PROVE Counters'
  BY <1>0, <1>7, ProvisionerAssumption DEF Retire, Counters
<1>8. ASSUME Tick PROVE Counters'
  <2>1. slow' \in 0 .. MaxSlow
    <3>1. CASE OwnerLate
      BY <1>0, <1>8, <3>1, ProvisionerAssumption DEF Tick
    <3>2. CASE ~OwnerLate
      BY <1>0, <1>8, <3>2 DEF Tick
    <3> QED BY <3>1, <3>2
  <2> QED BY <1>0, <1>8, <2>1 DEF Tick, Counters
<1> QED BY <1>1, <1>2, <1>3, <1>4, <1>5, <1>6, <1>7, <1>8 DEF Next, Step

LEMMA NextIInv == IInv /\ [Next]_vars => IInv'
<1> SUFFICES ASSUME IInv, [Next]_vars PROVE IInv'
  OBVIOUS
<1>1. CASE Next
  <2>1. Counters'
    BY <1>1, NextCounters
  <2>2. ASSUME NEW c \in Callers, Start(c) PROVE IInv'
    BY <2>1, <2>2, StartKeeps
  <2>3. ASSUME NEW c \in Callers, Step(c) PROVE IInv'
    BY <2>1, <2>3, GetKeeps, RegisterKeeps, RegisterReadKeeps, CreateKeeps, ClaimStepsKeep,
       ReadyWriteKeeps, FailedWriteKeeps, RegetKeeps, VerifyStepsKeep, TouchWriteKeeps,
       WaitStepsKeep, ReclaimWriteKeeps DEF Step
  <2>4. ASSUME NEW c \in Callers, Unavailable(c) \/ Crash(c) PROVE IInv'
    BY <2>1, <2>4, FaultsKeep
  <2>5. ASSUME Retire PROVE IInv'
    BY <2>1, <2>5, RetireKeeps
  <2>6. ASSUME Tick PROVE IInv'
    BY <2>1, <2>6, TickKeeps
  <2> QED BY <1>1, <2>2, <2>3, <2>4, <2>5, <2>6 DEF Next
<1>2. CASE UNCHANGED vars
  BY <1>2 DEF vars, IInv, Counters
<1> QED BY <1>1, <1>2

\* The writes that find a decided entry change nothing, because the claim
\* they were read under is gone.
LEMMA DecidedStays ==
    ASSUME IInv, [Next]_vars, entry # None, entry.status \in {"ready", "failed"}
    PROVE  entry'.status = entry.status \/ retires' # retires
<1>1. entry \in Entry /\ entry.claim_token = None
  BY DEF IInv, EntryGood
<1>2. ASSUME NEW c \in Callers, NEW e, NEW done, NEW refused, caller[c].current = FALSE,
             ConditionalWrite(c, e, done, refused)
      PROVE  entry' = entry
  BY <1>2 DEF ConditionalWrite
<1>3. ASSUME NEW c \in Callers, caller[c].pc \in {"ready_write", "failed_write", "reclaim_write"}
      PROVE  caller[c].current = FALSE
  <2>1. Good(caller[c], cache[c], entry, live)
    BY DEF IInv
  <2>2. caller[c].current \in BOOLEAN
    BY <2>1 DEF Good, CallerState
  <2> QED BY <1>1, <1>3, <2>1, <2>2 DEF Good, ClaimPC, WaitPC
<1>4. ASSUME NEW c \in Callers, ReadyWrite(c) \/ FailedWrite(c) \/ ReclaimWrite(c)
      PROVE  entry' = entry
  BY <1>2, <1>3, <1>4 DEF ReadyWrite, FailedWrite, ReclaimWrite, At
<1>5. ASSUME NEW c \in Callers, TouchWrite(c) PROVE entry'.status = entry.status
  BY <1>1, <1>5, TouchedType DEF TouchWrite, ConditionalWrite, Write
<1>6. ASSUME NEW c \in Callers, Register(c) PROVE entry' = entry
  BY <1>6 DEF Register
<1>7. ASSUME NEW c \in Callers, \/ Start(c) \/ Get(c) \/ RegisterRead(c) \/ Exists(c) \/ Create(c)
                               \/ Describe(c) \/ ReadyRead(c) \/ Reget(c) \/ FailedRead(c)
      PROVE  entry' = entry
  BY <1>7 DEF Start, Get, RegisterRead, Exists, Create, Describe, ReadyRead, Reget, FailedRead
<1>8. ASSUME NEW c \in Callers, \/ Verify(c) \/ TouchRead(c) \/ Wait(c) \/ ReclaimRead(c)
                               \/ Deadline(c) \/ Poll(c) \/ Unavailable(c) \/ Crash(c)
      PROVE  entry' = entry
  BY <1>8 DEF Verify, TouchRead, Wait, ReclaimRead, Deadline, Poll, Unavailable, Crash
<1>9. Retire => retires' # retires
  BY DEF Retire, IInv, Counters
<1>10. Tick => entry'.status = entry.status
  BY <1>1, LaterType DEF Tick
<1>11. UNCHANGED vars => entry' = entry
  BY DEF vars
<1> QED BY <1>4, <1>5, <1>6, <1>7, <1>8, <1>9, <1>10, <1>11 DEF Next, Step

-----------------------------------------------------------------------------
(* The theorems *)

\* Every call of ensure() that resolves a template knows its scenario, and one
\* past its first read has an entry to act on, cached answers included.
THEOREM TypeCorrect == Spec => []TypeOK
<1>1. IInv => TypeOK
  <2> SUFFICES ASSUME IInv PROVE TypeOK
    OBVIOUS
  <2>1. caller \in [Callers -> CallerState] /\ cache \in [Callers -> Answers \cup {None}]
    BY DEF IInv, Good, AnswerGood
  <2> QED BY <2>1 DEF IInv, Good, EntryGood, Counters, TypeOK
<1> QED BY <1>1, InitIInv, NextIInv, PTL DEF Spec

\* An entry that says `ready' stands for an index that exists with its schema,
\* however many callers claim, reclaim, crash and lose answers.
THEOREM ReadyBacked == Spec => []ReadyIsBacked
<1>1. IInv => ReadyIsBacked
  BY DEF IInv, EntryGood, ReadyIsBacked
<1> QED BY <1>1, InitIInv, NextIInv, PTL DEF Spec

\* No call of ensure() takes an entry out of `failed'.
THEOREM FailedTerminal == Spec => FailedIsTerminal
<1>1. IInv /\ [Next]_vars =>
         [entry # None /\ entry.status = "failed" =>
             entry'.status = "failed" \/ retires' # retires]_vars
  BY DecidedStays
<1> QED BY <1>1, InitIInv, NextIInv, PTL DEF Spec, FailedIsTerminal

\* No call of ensure() takes an entry out of `ready'.
THEOREM ReadyKept == Spec => ReadyIsKept
<1>1. IInv /\ [Next]_vars =>
         [entry # None /\ entry.status = "ready" =>
             entry'.status = "ready" \/ retires' # retires]_vars
  BY DecidedStays
<1> QED BY <1>1, InitIInv, NextIInv, PTL DEF Spec, ReadyIsKept

-----------------------------------------------------------------------------
(* The in-memory registry *)

TokenIssued == entry # None => entry.claim_token \in (1 .. claims) \cup {None}

\* The changes of the stored entry, one per registry method.
Inserted ==
    /\ entry = None
    /\ claims' = claims + 1
    /\ \E schema \in Schemas, s \in Scenarios :
          entry' = NewClaim(claims + 1, schema, VersionOf[s])

Renewed == entry # None /\ claims' = claims + 1 /\ entry' = Reclaimed(entry, claims + 1)

Decided == /\ entry # None /\ entry.claim_token # None /\ claims' = claims
           /\ entry' \in {mark_ready(entry), mark_failed(entry)}

Noted == /\ entry # None /\ claims' = claims
         /\ entry' \in {touch_verified(entry), mark_retired(entry), Aged(entry)}

Change == Inserted \/ Renewed \/ Decided \/ Noted

Same == entry' = entry /\ claims' = claims

\* A conditional write lands, or leaves the entry alone.
LEMMA LandsOrNot ==
    ASSUME NEW c \in Callers, NEW e, NEW done, NEW refused, ConditionalWrite(c, e, done, refused)
    PROVE  \/ caller[c].current /\ entry' = e
           \/ ~caller[c].current /\ entry' = entry
BY DEF ConditionalWrite, Write

LEMMA RegisterChanges ==
    ASSUME IInv, NEW c \in Callers, Register(c)
    PROVE  Change \/ Same
<1>1. caller[c].pc = "register" /\ Good(caller[c], cache[c], entry, live)
  BY DEF IInv, Register, At
<1>2. caller[c].scenario \in Scenarios /\ SchemaOf[caller[c].scenario] \in Schemas
  BY <1>1, ProvisionerAssumption DEF Good
<1>3. CASE entry = None
  <2>1. /\ claims' = claims + 1
        /\ entry' = NewClaim(claims + 1, SchemaFor(c), VersionOf[caller[c].scenario])
    BY <1>3 DEF Register, Write
  <2> QED BY <1>2, <1>3, <2>1 DEF SchemaFor, Change, Inserted
<1>4. CASE entry # None
  BY <1>4 DEF Register, Same
<1> QED BY <1>3, <1>4

LEMMA FinalizeChanges ==
    ASSUME IInv, NEW c \in Callers, ReadyWrite(c) \/ FailedWrite(c)
    PROVE  Change \/ Same
<1>1. /\ caller[c].pc \in {"ready_write", "failed_write"}
      /\ Good(caller[c], cache[c], entry, live) /\ claims' = claims
  BY DEF IInv, ReadyWrite, FailedWrite, At
<1>2. /\ entry # None /\ caller[c].seen.claim_token # None
      /\ caller[c].current => entry.claim_token = caller[c].seen.claim_token
  BY <1>1 DEF Good, ClaimPC
<1>3. \/ caller[c].current /\ entry' \in {mark_ready(entry), mark_failed(entry)}
      \/ entry' = entry
  BY LandsOrNot DEF ReadyWrite, FailedWrite
<1> QED BY <1>1, <1>2, <1>3 DEF Change, Decided, Same

LEMMA ReclaimChanges ==
    ASSUME IInv, NEW c \in Callers, ReclaimWrite(c)
    PROVE  Change \/ Same
<1>1. caller[c].pc = "reclaim_write" /\ Good(caller[c], cache[c], entry, live)
  BY DEF IInv, ReclaimWrite, At
<1>2. entry # None /\ (caller[c].current => caller[c].seen = entry)
  BY <1>1 DEF Good
<1>3. \/ /\ caller[c].current
         /\ entry' = Reclaimed(caller[c].seen, claims + 1)
         /\ claims' = claims + 1
      \/ entry' = entry /\ claims' = claims
  BY LandsOrNot DEF ReclaimWrite
<1> QED BY <1>2, <1>3 DEF Change, Renewed, Same

LEMMA TouchChanges ==
    ASSUME IInv, NEW c \in Callers, TouchWrite(c)
    PROVE  Change \/ Same
<1>1. caller[c].pc = "touch_write" /\ Good(caller[c], cache[c], entry, live) /\ claims' = claims
  BY DEF IInv, TouchWrite, At
<1>2. entry # None
  BY <1>1 DEF Good
<1>3. entry' = touch_verified(entry) \/ entry' = entry
  BY LandsOrNot DEF TouchWrite
<1> QED BY <1>1, <1>2, <1>3 DEF Change, Noted, Same

\* Every step changes the entry as a method of the registry does, or not.
LEMMA StepChanges ==
    ASSUME IInv, [Next]_vars
    PROVE  Change \/ Same
<1>1. ASSUME NEW c \in Callers, \/ Start(c) \/ Get(c) \/ RegisterRead(c) \/ Exists(c) \/ Create(c)
                               \/ Describe(c) \/ ReadyRead(c) \/ Reget(c) \/ FailedRead(c)
      PROVE  Same
  BY <1>1 DEF Same, Start, Get, RegisterRead, Exists, Create, Describe, ReadyRead, Reget,
              FailedRead
<1>2. ASSUME NEW c \in Callers, \/ Verify(c) \/ TouchRead(c) \/ Wait(c) \/ ReclaimRead(c)
                               \/ Deadline(c) \/ Poll(c) \/ Unavailable(c) \/ Crash(c)
      PROVE  Same
  BY <1>2 DEF Same, Verify, TouchRead, Wait, ReclaimRead, Deadline, Poll, Unavailable, Crash
<1>3. Retire => Change
  BY DEF Retire, Change, Noted
<1>4. Tick => Change \/ Same
  BY DEF Tick, Later, Change, Noted, Same
<1>5. UNCHANGED vars => Same
  BY DEF vars, Same
<1> QED BY <1>1, <1>2, <1>3, <1>4, <1>5, RegisterChanges, FinalizeChanges, ReclaimChanges,
           TouchChanges DEF Next, Step

LEMMA ChangeIssues ==
    ASSUME IInv, TokenIssued, Change
    PROVE  TokenIssued'
<1>0. claims \in Nat /\ entry \in Entry \cup {None}
  BY DEF IInv, Counters, EntryGood
<1>1. CASE Inserted
  BY <1>0, <1>1 DEF Inserted, NewClaim, TokenIssued
<1>2. CASE Renewed
  <2>1. /\ entry \in Entry /\ claims + 1 \in Nat /\ claims' = claims + 1
        /\ entry' = Reclaimed(entry, claims + 1)
    BY <1>0, <1>2 DEF Renewed
  <2>2. entry'.claim_token = claims'
    BY <2>1, ReclaimedType
  <2> QED BY <1>0, <2>1, <2>2 DEF TokenIssued
<1>3. CASE Decided
  BY <1>0, <1>3, MarkedType DEF Decided, TokenIssued
<1>4. CASE Noted
  <2>1. entry # None /\ entry \in Entry /\ claims' = claims
    BY <1>0, <1>4 DEF Noted
  <2>2. Aged(entry).claim_token = entry.claim_token
    BY <2>1, LaterType DEF Later
  <2>3. mark_retired(entry).claim_token = entry.claim_token
    BY <2>1 DEF mark_retired, Entry
  <2>4. entry'.claim_token = entry.claim_token
    BY <1>4, <2>1, <2>2, <2>3, TouchedType DEF Noted
  <2> QED BY <2>1, <2>4 DEF TokenIssued
<1> QED BY <1>1, <1>2, <1>3, <1>4 DEF Change

LEMMA NextIssues == IInv /\ TokenIssued /\ [Next]_vars => TokenIssued'
<1> SUFFICES ASSUME IInv, TokenIssued, [Next]_vars PROVE TokenIssued'
  OBVIOUS
<1>1. Same => TokenIssued'
  BY DEF Same, TokenIssued
<1> QED BY <1>1, StepChanges, ChangeIssues

LEMMA ChangeIsMethod ==
    ASSUME IInv, TokenIssued, Change
    PROVE  Registry!Next
<1>1. Inserted => Registry!Register
  BY DEF Inserted, Registry!Register, NewClaim, Registry!NewClaim
<1>2. Renewed => Registry!Reclaim
  BY DEF Renewed, Registry!Reclaim, Registry!Required, Reclaimed, Registry!Reclaimed
<1>3. Decided => Registry!Finalize
  <2> SUFFICES ASSUME Decided PROVE Registry!Finalize
    OBVIOUS
  <2>1. entry.claim_token \in 1 .. claims
    BY DEF Decided, TokenIssued
  <2> QED BY <2>1 DEF Decided, Registry!Finalize, Registry!Required, Registry!check_claim_token,
                      mark_ready, mark_failed, Registry!mark_ready, Registry!mark_failed
<1>4. Noted => Registry!Touch \/ Registry!Retire \/ Registry!Age
  BY DEF Noted, Registry!Touch, Registry!Retire, Registry!Age, Registry!Required,
         touch_verified, Registry!touch_verified, mark_retired, Registry!mark_retired,
         Aged, Registry!Aged, Older, Registry!Older
<1> QED BY <1>1, <1>2, <1>3, <1>4 DEF Change, Registry!Next

\* For any number of callers, scenarios and lost answers, the entry kept in
\* Table Storage changes only as the in-memory registry's methods change it.
THEOREM RegistryImplemented == Spec => ImplementsRegistry
<1>1. Init => Registry!Init /\ TokenIssued
  BY DEF Init, Registry!Init, TokenIssued
<1>2. IInv /\ TokenIssued /\ [Next]_vars => [Registry!Next]_Registry!vars
  BY StepChanges, ChangeIsMethod DEF Same, Registry!vars
<1> QED BY <1>1, <1>2, InitIInv, NextIInv, NextIssues, PTL
        DEF Spec, ImplementsRegistry, Registry!RegistrySpec

=============================================================================
