--------------------------- MODULE CaseLifecycle ---------------------------
(***************************************************************************)
(* The dispute case of joan-case.  transition_case is a pure function on a *)
(* snapshot; what makes it a protocol is that callers read the case,       *)
(* decide, and hand back a request built from what they read, so requests  *)
(* of several actors reach the authoritative copy late, in any order, and  *)
(* more than once.  Every answer the function can give is modelled, in the *)
(* order in which it checks.                                               *)
(*                                                                         *)
(* Digests are content addresses: two digests are equal exactly when the   *)
(* digested fields are, so a digest is the record of these fields.  The    *)
(* fields that no operation changes (ids, parties, value, policy) are left *)
(* out, as are reason codes and evidence references.                       *)
(***************************************************************************)
EXTENDS CaseRules, Naturals, FiniteSets

CONSTANTS
  Actors,     \* callers that hold snapshots and submit transitions
  Keys,       \* idempotency keys the callers use
  Proposals,  \* the <<from, to>> pairs the callers ask for, legal or not
  MaxKeys,    \* MAX_IDEMPOTENCY_KEYS
  NoRequest   \* an actor that has not prepared a request yet

VARIABLES
  case,       \* the authoritative DisputeCase
  request,    \* per actor: the CaseTransition it built, kept for retries
  answer,     \* per actor: what transition_case last answered it
  receipts    \* history: every CaseTransitionReceipt ever issued

vars == <<case, request, answer, receipts>>

Transitions == {p \in CaseStates \X CaseStates : IsAllowed(p[1], p[2])}

ASSUME ProposalsAssumption == Proposals \subseteq CaseStates \X CaseStates
ASSUME MaxKeysAssumption == MaxKeys \in Nat \ {0}

-----------------------------------------------------------------------------
(* The case and its digest.                                                *)

Digest == [state : CaseStates, revision : Nat, keys : SUBSET Keys]

CaseDigest(state, revision, keys) ==
  [state |-> state, revision |-> revision, keys |-> keys]

DisputeCase ==
  [state : CaseStates, revision : Nat, keys : SUBSET Keys, digest : Digest]

\* The case with its digest computed last, as create_case and transition_case do.
SealedCase(state, revision, keys) ==
  [state |-> state, revision |-> revision, keys |-> keys,
   digest |-> CaseDigest(state, revision, keys)]

VerifyCase(c) == c.digest = CaseDigest(c.state, c.revision, c.keys)

CaseTransition ==
  [digest : Digest, revision : Nat, from : CaseStates, to : CaseStates, key : Keys]

\* transition_digest binds the complete request, so a receipt shows what its actor saw.
Receipt ==
  [prior : Digest, new : Digest, revision : Nat,
   from : CaseStates, to : CaseStates, transition : CaseTransition]

Answers ==
  { "none", "committed", "InvalidStoredDigest", "StaleCaseDigest", "StaleRevision",
    "StaleState", "IllegalTransition", "Replay", "IdempotencyCapacity" }

-----------------------------------------------------------------------------
(* transition_case, checks in the order of the code.                       *)

\* Plausible mistakes in the checks, the commit and the table; each is what one
\* property below is there to exclude.
Answer_StateCheckOnly(c, t) ==
  IF t.from # c.state THEN "StaleState"
  ELSE IF ~IsAllowed(t.from, t.to) THEN "IllegalTransition"
  ELSE IF t.key \in c.keys THEN "Replay"
  ELSE "committed"

Answer_ReplayUnchecked(c, t) ==
  IF ~VerifyCase(c) THEN "InvalidStoredDigest"
  ELSE IF t.digest # c.digest THEN "StaleCaseDigest"
  ELSE IF t.from # c.state THEN "StaleState"
  ELSE IF ~IsAllowed(t.from, t.to) THEN "IllegalTransition"
  ELSE "committed"

TransitionAnswer(c, t) ==
  IF ~VerifyCase(c) THEN "InvalidStoredDigest"
  ELSE IF t.digest # c.digest THEN "StaleCaseDigest"
  ELSE IF t.revision # c.revision THEN "StaleRevision"
  ELSE IF t.from # c.state THEN "StaleState"
  ELSE IF ~IsAllowed(t.from, t.to) THEN "IllegalTransition"
  ELSE IF t.key \in c.keys THEN "Replay"
  ELSE IF Cardinality(c.keys) >= MaxKeys THEN "IdempotencyCapacity"
  ELSE "committed"

Candidate_DigestNotRecomputed(c, t) ==
  [state |-> t.to, revision |-> c.revision + 1, keys |-> c.keys \union {t.key},
   digest |-> c.digest]

Candidate(c, t) == SealedCase(t.to, c.revision + 1, c.keys \union {t.key})

ReceiptOf(c, t) ==
  [prior |-> c.digest, new |-> Candidate(c, t).digest, revision |-> c.revision + 1,
   from |-> t.from, to |-> t.to, transition |-> t]

-----------------------------------------------------------------------------

\* create_case: a submitted case at revision 0 with no consumed key.
Init ==
  /\ case = SealedCase("Submitted", 0, {})
  /\ request = [a \in Actors |-> NoRequest]
  /\ answer = [a \in Actors |-> "none"]
  /\ receipts = {}

\* Actor a reads the case and builds a request from what it read; nothing keeps the
\* case from changing before the request is applied.
Prepare(a, p, key) ==
  /\ request' = [request EXCEPT ![a] =
       [digest |-> case.digest, revision |-> case.revision,
        from |-> p[1], to |-> p[2], key |-> key]]
  /\ answer' = [answer EXCEPT ![a] = "none"]
  /\ UNCHANGED <<case, receipts>>

\* A request is applied and passes every gate.  The actor keeps it: its answer may
\* be lost, and the same request sent again.
Commit(a) ==
  /\ request[a] # NoRequest
  /\ TransitionAnswer(case, request[a]) = "committed"
  /\ case' = Candidate(case, request[a])
  /\ receipts' = receipts \union {ReceiptOf(case, request[a])}
  /\ answer' = [answer EXCEPT ![a] = "committed"]
  /\ UNCHANGED request

\* A request is applied and refused: an error, and the case as it was.
Refuse(a) ==
  /\ request[a] # NoRequest
  /\ TransitionAnswer(case, request[a]) # "committed"
  /\ answer' = [answer EXCEPT ![a] = TransitionAnswer(case, request[a])]
  /\ UNCHANGED <<case, request, receipts>>

Next ==
  \E a \in Actors :
    \/ \E p \in Proposals, key \in Keys : Prepare(a, p, key)
    \/ Commit(a)
    \/ Refuse(a)

Spec == Init /\ [][Next]_vars

-----------------------------------------------------------------------------

\* The case, its revision and key capacity, and what callers hold, stay well-formed.
TypeOK ==
  /\ case \in DisputeCase
  /\ IsFiniteSet(case.keys) /\ Cardinality(case.keys) <= MaxKeys
  /\ request \in [Actors -> CaseTransition \union {NoRequest}]
  /\ answer \in [Actors -> Answers]
  /\ receipts \subseteq Receipt

\* Receipts form one chain: each revision up to the current one has exactly one
\* receipt, whose new digest and state are the prior ones of the next, and each actor
\* had seen exactly the case it changed.  A lost update (two actors committing against
\* one snapshot, or against a state that went away and came back, transition_case
\* lines 290-298) breaks it.
ReceiptChain ==
  /\ \A p, q \in receipts : p.revision = q.revision => p = q
  /\ \A n \in 1..case.revision : \E r \in receipts : r.revision = n
  /\ \A r \in receipts : r.revision \in 1..case.revision
  /\ \A r \in receipts : r.transition.digest = r.prior
  /\ \A p, q \in receipts :
       q.revision = p.revision + 1 => q.prior = p.new /\ q.from = p.to
  /\ \A r \in receipts :
       r.revision = case.revision => r.new = case.digest /\ r.to = case.state

\* A key buys one transition, however often and by whomever it is submitted, also by
\* callers that rebuilt their request on a newer snapshot (transition_case lines 302-307).
KeyCommitsOnce ==
  \A p, q \in receipts : p.transition.key = q.transition.key => p = q

Reached == {r.to : r \in receipts}

\* Due process: no remedy is executed before the respondent was notified, had a
\* response window, and the evidence was locked and evaluated (is_allowed).
DueProcess ==
  "RemedyExecution" \in Reached =>
    {"PreservationHold", "NoticeServed", "ResponseWindow", "EvidenceLocked",
     "DeterministicEvaluation"} \subseteq Reached

\* A repair is verified and decided anew: between a RepairPending and any later
\* RemedyExecution the evidence was locked again (is_allowed).
RepairIsReverified ==
  \A p, q \in receipts :
    /\ p.to = "RepairPending"
    /\ q.to = "RemedyExecution"
    /\ p.revision < q.revision
    => \E l \in receipts :
         /\ l.from = "Reverification"
         /\ l.to = "EvidenceLocked"
         /\ p.revision < l.revision
         /\ l.revision < q.revision

Terminal == {"RejectedOutOfScope", "Expired", "Closed"}

\* A case that is not over can move until it has made as many transitions as it has keys:
\* an actor that reads it now, asks for a legal successor and uses any fresh key is not
\* refused, whatever stale requests are around and however many requests were refused
\* before, for these use up nothing (transition_case lines 279-311).
NeverWedged ==
  \/ case.state \in Terminal
  \/ case.revision >= MaxKeys
  \/ \A key \in Keys \ case.keys : \E to \in Successors(case.state) :
       TransitionAnswer(case,
         [digest |-> case.digest, revision |-> case.revision,
          from |-> case.state, to |-> to, key |-> key]) = "committed"

\* The coarse life of a case that a party is promised: CasePhases.
PhaseOf(state) ==
  CASE state \in {"Submitted", "IntakeValidation", "AwaitingCure"} -> "Intake"
    [] state \in {"Accepted", "PreservationHold", "NoticeServed", "ResponseWindow",
                  "EvidenceCollection", "Reverification", "EvidenceLocked",
                  "RepairPending"} -> "Inquiry"
    [] state \in {"RemedyExecution", "ExecutionReconciliation"} -> "Remedy"
    [] state \in Terminal -> "Over"
    [] OTHER -> "Decision"

Phases == INSTANCE CasePhases WITH
  phase <- PhaseOf(case.state),
  heard <- {"EvidenceLocked", "NoticeServed"} \subseteq Reached

\* The detailed case, with its races, retries and refused requests, implements the
\* phase machine (is_allowed and transition_case together).
ImplementsPhases == Phases!Spec
=============================================================================
