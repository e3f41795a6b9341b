------------------------ MODULE CaseLifecycleProofs ------------------------
(***************************************************************************)
(* Theorems about the dispute case for every set of actors, keys and       *)
(* proposals and every key capacity.                                       *)
(***************************************************************************)
EXTENDS CaseLifecycle, FiniteSetTheorems, TLAPS

\* The stored digest is always the digest of the stored fields, so verify_case never
\* fails on a case that transition_case produced.
Sealed == VerifyCase(case)

\* The consumed keys are exactly those of the receipts issued so far.
KeysAccounted == case.keys = {r.transition.key : r \in receipts}

\* The case, its receipts and all requests stay well-formed (create_case, transition_case).
THEOREM Typing == Spec => []TypeOK
<1>1. Init => TypeOK
  <2> SUFFICES ASSUME Init PROVE TypeOK
    OBVIOUS
  <2>1. IsFiniteSet(case.keys) /\ Cardinality(case.keys) <= MaxKeys
    BY FS_EmptySet, MaxKeysAssumption DEF Init, SealedCase
  <2> QED
    BY <2>1 DEF Init, TypeOK, SealedCase, CaseDigest, DisputeCase, Digest, CaseStates, Answers
<1>2. TypeOK /\ [Next]_vars => TypeOK'
  <2> SUFFICES ASSUME TypeOK, [Next]_vars
               PROVE  TypeOK'
    OBVIOUS
  <2>1. ASSUME NEW a \in Actors, NEW p \in Proposals, NEW key \in Keys, Prepare(a, p, key)
        PROVE  TypeOK'
    <3>1. p[1] \in CaseStates /\ p[2] \in CaseStates
      BY ProposalsAssumption
    <3>2. [digest |-> case.digest, revision |-> case.revision,
           from |-> p[1], to |-> p[2], key |-> key] \in CaseTransition
      BY <3>1 DEF TypeOK, DisputeCase, CaseTransition
    <3> QED
      BY <2>1, <3>2 DEF TypeOK, Prepare, Answers
  <2>2. ASSUME NEW a \in Actors, Commit(a)
        PROVE  TypeOK'
    <3> DEFINE t == request[a]
    <3>1. t \in CaseTransition
      BY <2>2 DEF TypeOK, Commit
    <3>2. Candidate(case, t) \in DisputeCase
      BY <3>1 DEF TypeOK, Candidate, SealedCase, CaseDigest, DisputeCase, Digest, CaseTransition
    <3>3. ReceiptOf(case, t) \in Receipt
      BY <3>1, <3>2 DEF TypeOK, ReceiptOf, Receipt, DisputeCase, CaseTransition
    <3>4. IsFiniteSet(case'.keys) /\ Cardinality(case'.keys) <= MaxKeys
      <4>1. case'.keys = case.keys \union {t.key}
        BY <2>2 DEF Commit, Candidate, SealedCase
      <4>2. t.key \notin case.keys /\ ~(Cardinality(case.keys) >= MaxKeys)
        BY <2>2 DEF Commit, TransitionAnswer
      <4>3. Cardinality(case.keys) \in Nat
        BY FS_CardinalityType DEF TypeOK
      <4>4. /\ IsFiniteSet(case.keys \union {t.key})
            /\ Cardinality(case.keys \union {t.key}) = Cardinality(case.keys) + 1
        BY <4>2, FS_AddElement DEF TypeOK
      <4> QED
        BY <4>1, <4>2, <4>3, <4>4, MaxKeysAssumption
    <3> QED
      BY <2>2, <3>2, <3>3, <3>4 DEF TypeOK, Commit, Answers
  <2>3. ASSUME NEW a \in Actors, Refuse(a)
        PROVE  TypeOK'
    <3>1. TransitionAnswer(case, request[a]) \in Answers
      BY DEF TransitionAnswer, Answers
    <3> QED
      BY <2>3, <3>1 DEF TypeOK, Refuse
  <2>4. CASE UNCHANGED vars
    BY <2>4 DEF TypeOK, vars
  <2> QED
    BY <2>1, <2>2, <2>3, <2>4 DEF Next
<1> QED
  BY <1>1, <1>2, PTL DEF Spec

-----------------------------------------------------------------------------

\* What a committed request looked like: it carried the digest of the case it changed,
\* hence also its revision and state, a legal target, and a key not used before.
LEMMA CommittedRequest ==
  ASSUME NEW c, NEW t, TransitionAnswer(c, t) = "committed"
  PROVE  /\ VerifyCase(c)
         /\ t.digest = c.digest
         /\ t.from = c.state
         /\ IsAllowed(t.from, t.to)
         /\ t.key \notin c.keys
BY DEF TransitionAnswer

ChainInv == TypeOK /\ Sealed /\ KeysAccounted /\ ReceiptChain /\ KeyCommitsOnce

LEMMA ChainInductive == ChainInv /\ TypeOK' /\ [Next]_vars => ChainInv'
<1> SUFFICES ASSUME ChainInv, TypeOK', [Next]_vars
             PROVE  ChainInv'
  OBVIOUS
<1>1. ASSUME NEW a \in Actors, Commit(a)
      PROVE  ChainInv'
  <2> DEFINE t == request[a]
             n == case.revision
             r0 == ReceiptOf(case, t)
  <2>1. t \in CaseTransition /\ n \in Nat
    BY <1>1 DEF ChainInv, TypeOK, Commit, DisputeCase
  <2>2. /\ t.digest = case.digest
        /\ t.from = case.state
        /\ t.key \notin case.keys
    BY <1>1, CommittedRequest DEF Commit
  <2>3. /\ case'.revision = n + 1
        /\ case'.state = t.to
        /\ case'.keys = case.keys \union {t.key}
        /\ VerifyCase(case')
    BY <1>1 DEF Commit, Candidate, SealedCase, CaseDigest, VerifyCase
  <2>4. /\ receipts' = receipts \union {r0}
        /\ r0.revision = n + 1 /\ r0.prior = case.digest /\ r0.new = case'.digest
        /\ r0.from = case.state /\ r0.to = t.to /\ r0.transition = t
    BY <1>1, <2>2 DEF Commit, ReceiptOf
  <2>5. \A r \in receipts : r.revision \in 1..n
    BY DEF ChainInv, ReceiptChain
  <2>6. KeysAccounted'
    BY <2>3, <2>4 DEF ChainInv, KeysAccounted
  <2>7. KeyCommitsOnce'
    <3>1. \A r \in receipts : r.transition.key # t.key
      BY <2>2 DEF ChainInv, KeysAccounted
    <3> QED
      BY <2>4, <3>1 DEF ChainInv, KeyCommitsOnce
  <2>8. ReceiptChain'
    <3>1. \A p, q \in receipts' : p.revision = q.revision => p = q
      BY <2>1, <2>4, <2>5 DEF ChainInv, ReceiptChain
    <3>2. \A m \in 1..case'.revision : \E r \in receipts' : r.revision = m
      BY <2>1, <2>3, <2>4 DEF ChainInv, ReceiptChain
    <3>3. \A r \in receipts' : r.revision \in 1..case'.revision
      BY <2>1, <2>3, <2>4, <2>5
    <3>4. \A r \in receipts' : r.transition.digest = r.prior
      BY <2>2, <2>4 DEF ChainInv, ReceiptChain
    <3>5. \A p, q \in receipts' :
            q.revision = p.revision + 1 => q.prior = p.new /\ q.from = p.to
      <4> SUFFICES ASSUME NEW p \in receipts', NEW q \in receipts',
                          q.revision = p.revision + 1
                   PROVE  q.prior = p.new /\ q.from = p.to
        OBVIOUS
      <4>1. CASE q = r0
        <5>1. p \in receipts /\ p.revision = n
          BY <2>1, <2>4, <2>5, <4>1
        <5> QED
          BY <2>4, <4>1, <5>1 DEF ChainInv, ReceiptChain
      <4>2. CASE q \in receipts
        <5>1. p \in receipts
          BY <2>1, <2>4, <2>5, <4>2
        <5> QED
          BY <4>2, <5>1 DEF ChainInv, ReceiptChain
      <4> QED
        BY <2>4, <4>1, <4>2
    <3>6. \A r \in receipts' :
            r.revision = case'.revision => r.new = case'.digest /\ r.to = case'.state
      BY <2>1, <2>3, <2>4, <2>5
    <3> QED
      BY <3>1, <3>2, <3>3, <3>4, <3>5, <3>6 DEF ReceiptChain
  <2> QED
    BY <2>3, <2>6, <2>7, <2>8 DEF ChainInv, Sealed
<1>2. ASSUME UNCHANGED <<case, receipts>>
      PROVE  ChainInv'
  BY <1>2 DEF ChainInv, Sealed, KeysAccounted, ReceiptChain, KeyCommitsOnce
<1>3. ASSUME NEW a \in Actors, NEW p \in Proposals, NEW key \in Keys, Prepare(a, p, key)
      PROVE  ChainInv'
  BY <1>2, <1>3 DEF Prepare
<1>4. ASSUME NEW a \in Actors, Refuse(a)
      PROVE  ChainInv'
  BY <1>2, <1>4 DEF Refuse
<1>5. CASE UNCHANGED vars
  BY <1>2, <1>5 DEF vars
<1> QED
  BY <1>1, <1>3, <1>4, <1>5 DEF Next

LEMMA ChainAlways == Spec => []ChainInv
<1>1. Init /\ TypeOK => ChainInv
  BY DEF Init, ChainInv, Sealed, VerifyCase, SealedCase, KeysAccounted, ReceiptChain,
         KeyCommitsOnce
<1> QED
  BY <1>1, ChainInductive, Typing, PTL DEF Spec

\* However many actors race, retry or replay, committed transitions form one chain of
\* receipts without a gap, a fork or a lost update (transition_case).
THEOREM ReceiptsFormOneChain == Spec => []ReceiptChain
<1>1. ChainInv => ReceiptChain
  BY DEF ChainInv
<1> QED
  BY <1>1, ChainAlways, PTL

\* An idempotency key never buys two transitions (transition_case lines 302-310).
THEOREM KeysAreConsumeOnce == Spec => []KeyCommitsOnce
<1>1. ChainInv => KeyCommitsOnce
  BY DEF ChainInv
<1> QED
  BY <1>1, ChainAlways, PTL
-----------------------------------------------------------------------------

\* The states in which a case has not yet passed each gate of due process.
BeforeHold     == {"Submitted", "IntakeValidation", "RejectedOutOfScope", "AwaitingCure",
                   "Accepted", "Expired"}
BeforeNotice   == BeforeHold \union {"PreservationHold"}
BeforeResponse == BeforeNotice \union {"NoticeServed"}
BeforeLock     == BeforeResponse \union {"ResponseWindow", "EvidenceCollection"}
BeforeEval     == BeforeLock \union {"EvidenceLocked"}

\* A case past a gate went through it.
GatesPassed ==
  /\ case.state \notin BeforeHold     => "PreservationHold" \in Reached
  /\ case.state \notin BeforeNotice   => "NoticeServed" \in Reached
  /\ case.state \notin BeforeResponse => "ResponseWindow" \in Reached
  /\ case.state \notin BeforeLock     => "EvidenceLocked" \in Reached
  /\ case.state \notin BeforeEval     => "DeterministicEvaluation" \in Reached

\* Each gate is the only way in.
LEMMA GatesHaveNoDetour ==
  ASSUME NEW from \in CaseStates, NEW to \in CaseStates, IsAllowed(from, to)
  PROVE  /\ from \in BeforeHold /\ to \notin BeforeHold => to = "PreservationHold"
         /\ from \in BeforeNotice /\ to \notin BeforeNotice => to = "NoticeServed"
         /\ from \in BeforeResponse /\ to \notin BeforeResponse => to = "ResponseWindow"
         /\ from \in BeforeLock /\ to \notin BeforeLock => to = "EvidenceLocked"
         /\ from \in BeforeEval /\ to \notin BeforeEval => to = "DeterministicEvaluation"
         /\ to = "RemedyExecution" => to \notin BeforeEval
BY DEF IsAllowed, Successors, CaseStates, BeforeHold, BeforeNotice, BeforeResponse,
       BeforeLock, BeforeEval

\* A repair that was not verified again is still pending or being verified.
RepairPendingOrVerified ==
  \A p \in receipts : p.to = "RepairPending" =>
    \/ case.state \in {"RepairPending", "Reverification"}
    \/ \E l \in receipts : /\ l.from = "Reverification" /\ l.to = "EvidenceLocked"
                           /\ p.revision < l.revision

LEMMA RepairHasNoDetour ==
  ASSUME NEW to, IsAllowed("RepairPending", to) \/ IsAllowed("Reverification", to)
  PROVE  /\ to # "RemedyExecution"
         /\ IsAllowed("RepairPending", to) => to = "Reverification"
         /\ IsAllowed("Reverification", to) => to = "EvidenceLocked"
BY DEF IsAllowed, Successors

PathInv == GatesPassed /\ DueProcess /\ RepairPendingOrVerified /\ RepairIsReverified

\* The effect of a committed transition on the case and its history.
LEMMA CommitEffect ==
  ASSUME ChainInv, NEW a \in Actors, Commit(a)
  PROVE  \E r0 \in Receipt :
           /\ receipts' = receipts \union {r0}
           /\ r0.from = case.state /\ r0.to = case'.state
           /\ r0.revision = case.revision + 1
           /\ IsAllowed(case.state, case'.state)
           /\ case.state \in CaseStates /\ case'.state \in CaseStates
<1> DEFINE t == request[a]
           r0 == ReceiptOf(case, t)
<1>1. t \in CaseTransition /\ case \in DisputeCase
  BY DEF ChainInv, TypeOK, Commit
<1>2. t.digest = case.digest /\ t.from = case.state /\ IsAllowed(t.from, t.to)
  BY CommittedRequest DEF Commit
<1>3. case' = Candidate(case, t) /\ case'.state = t.to
  BY DEF Commit, Candidate, SealedCase
<1>4. case' \in DisputeCase
  BY <1>1, <1>3 DEF Candidate, SealedCase, CaseDigest, DisputeCase, Digest, CaseTransition
<1>5. r0 \in Receipt
  BY <1>1, <1>3, <1>4 DEF ReceiptOf, Receipt, DisputeCase, CaseTransition
<1>6. /\ receipts' = receipts \union {r0}
      /\ r0.from = case.state /\ r0.to = case'.state /\ r0.revision = case.revision + 1
  BY <1>2, <1>3 DEF Commit, ReceiptOf
<1> QED
  BY <1>1, <1>2, <1>3, <1>4, <1>5, <1>6 DEF DisputeCase

LEMMA PathInductive == ChainInv /\ PathInv /\ [Next]_vars => PathInv'
<1> SUFFICES ASSUME ChainInv, PathInv, [Next]_vars
             PROVE  PathInv'
  OBVIOUS
<1>1. ASSUME NEW a \in Actors, Commit(a)
      PROVE  PathInv'
  <2>1. PICK r0 \in Receipt :
           /\ receipts' = receipts \union {r0}
           /\ r0.from = case.state /\ r0.to = case'.state
           /\ r0.revision = case.revision + 1
           /\ IsAllowed(case.state, case'.state)
           /\ case.state \in CaseStates /\ case'.state \in CaseStates
    BY <1>1, CommitEffect
  <2>2. Reached' = Reached \union {case'.state}
    BY <2>1 DEF Reached
  <2>3. /\ case.revision \in Nat
        /\ \A r \in receipts : r.revision \in Nat /\ r.revision < r0.revision
    BY <2>1 DEF ChainInv, TypeOK, DisputeCase, ReceiptChain
  <2>4. GatesPassed'
    BY <2>1, <2>2, GatesHaveNoDetour DEF PathInv, GatesPassed
  <2>5. DueProcess'
    <3>1. CASE "RemedyExecution" \in Reached
      BY <2>2, <3>1 DEF PathInv, DueProcess
    <3>2. CASE case'.state = "RemedyExecution"
      <4>1. case'.state \notin BeforeEval
        BY <2>1, <3>2, GatesHaveNoDetour
      <4>2. /\ case'.state \notin BeforeHold /\ case'.state \notin BeforeNotice
            /\ case'.state \notin BeforeResponse /\ case'.state \notin BeforeLock
        BY <4>1 DEF BeforeHold, BeforeNotice, BeforeResponse, BeforeLock, BeforeEval
      <4> QED
        BY <2>4, <4>1, <4>2 DEF GatesPassed, DueProcess
    <3> QED
      BY <2>2, <3>1, <3>2 DEF DueProcess
  <2>6. RepairPendingOrVerified'
    <3> SUFFICES ASSUME NEW p \in receipts', p.to = "RepairPending",
                        case'.state \notin {"RepairPending", "Reverification"}
                 PROVE  \E l \in receipts' :
                          /\ l.from = "Reverification" /\ l.to = "EvidenceLocked"
                          /\ p.revision < l.revision
      BY DEF RepairPendingOrVerified
    <3>1. p \in receipts
      BY <2>1
    <3>2. CASE case.state \in {"RepairPending", "Reverification"}
      <4>1. case.state = "Reverification" /\ case'.state = "EvidenceLocked"
        BY <2>1, <3>2, RepairHasNoDetour
      <4> QED
        BY <2>1, <2>3, <3>1, <4>1
    <3>3. CASE case.state \notin {"RepairPending", "Reverification"}
      BY <2>1, <3>1, <3>3 DEF PathInv, RepairPendingOrVerified
    <3> QED
      BY <3>2, <3>3
  <2>7. RepairIsReverified'
    <3> SUFFICES ASSUME NEW p \in receipts', NEW q \in receipts',
                        p.to = "RepairPending", q.to = "RemedyExecution",
                        p.revision < q.revision
                 PROVE  \E l \in receipts' :
                          /\ l.from = "Reverification" /\ l.to = "EvidenceLocked"
                          /\ p.revision < l.revision /\ l.revision < q.revision
      BY DEF RepairIsReverified
    <3>1. p \in receipts
      BY <2>1, <2>3
    <3>2. CASE q \in receipts
      BY <2>1, <3>1, <3>2 DEF PathInv, RepairIsReverified
    <3>3. CASE q = r0
      <4>1. case.state \notin {"RepairPending", "Reverification"}
        BY <2>1, <3>3, RepairHasNoDetour
      <4> QED
        BY <2>1, <2>3, <3>1, <3>3, <4>1 DEF PathInv, RepairPendingOrVerified
    <3> QED
      BY <2>1, <3>2, <3>3
  <2> QED
    BY <2>4, <2>5, <2>6, <2>7 DEF PathInv
<1>2. ASSUME UNCHANGED <<case, receipts>>
      PROVE  PathInv'
  BY <1>2 DEF PathInv, GatesPassed, DueProcess, Reached, RepairPendingOrVerified,
              RepairIsReverified
<1>3. ASSUME NEW a \in Actors, NEW p \in Proposals, NEW key \in Keys, Prepare(a, p, key)
      PROVE  PathInv'
  BY <1>2, <1>3 DEF Prepare
<1>4. ASSUME NEW a \in Actors, Refuse(a)
      PROVE  PathInv'
  BY <1>2, <1>4 DEF Refuse
<1>5. CASE UNCHANGED vars
  BY <1>2, <1>5 DEF vars
<1> QED
  BY <1>1, <1>3, <1>4, <1>5 DEF Next

LEMMA PathAlways == Spec => []PathInv
<1>1. Init => PathInv
  BY DEF Init, PathInv, GatesPassed, DueProcess, Reached, RepairPendingOrVerified,
         RepairIsReverified, SealedCase, BeforeHold, BeforeNotice, BeforeResponse,
         BeforeLock, BeforeEval
<1> QED
  BY <1>1, PathInductive, ChainAlways, PTL DEF Spec

\* No remedy is executed before notice, a response window and evaluated, locked
\* evidence, whatever the callers ask for and in whatever order (is_allowed).
THEOREM RemedyNeedsDueProcess == Spec => []DueProcess
<1>1. PathInv => DueProcess
  BY DEF PathInv
<1> QED
  BY <1>1, PathAlways, PTL

\* No remedy follows a repair that was not verified again (is_allowed).
THEOREM RepairsAreReverified == Spec => []RepairIsReverified
<1>1. PathInv => RepairIsReverified
  BY DEF PathInv
<1> QED
  BY <1>1, PathAlways, PTL
-----------------------------------------------------------------------------

\* Only a case that is over has no legal successor (is_allowed).
LEMMA OnlyOverIsDeadEnd ==
  ASSUME NEW state \in CaseStates, state \notin Terminal
  PROVE  Successors(state) # {}
<1>1. CASE state \in {"Submitted", "IntakeValidation", "AwaitingCure", "Accepted",
                      "PreservationHold", "NoticeServed", "ResponseWindow",
                      "EvidenceCollection", "Reverification"}
  BY <1>1 DEF Successors
<1>2. CASE state \in {"EvidenceLocked", "DeterministicEvaluation",
                      "AutomatedSettlementOffered", "SettledByAgreement", "Quarantined",
                      "ReviewAssigned", "ProposedDecision", "ChallengeWindow"}
  BY <1>2 DEF Successors
<1>3. CASE state \in {"FinalDecision", "AppealWindow", "Appealed", "AppealDecision",
                      "RepairPending", "RemedyExecution", "ExecutionReconciliation"}
  BY <1>3 DEF Successors
<1> QED
  BY <1>1, <1>2, <1>3 DEF CaseStates, Terminal

\* Nothing but a committed transition uses up a key.
KeysCountTransitions == Cardinality(case.keys) = case.revision

LEMMA KeysAlwaysCountTransitions == Spec => []KeysCountTransitions
<1>1. Init => KeysCountTransitions
  BY FS_EmptySet DEF Init, SealedCase, KeysCountTransitions
<1>2. ChainInv /\ KeysCountTransitions /\ [Next]_vars => KeysCountTransitions'
  <2> SUFFICES ASSUME ChainInv, KeysCountTransitions, [Next]_vars
               PROVE  KeysCountTransitions'
    OBVIOUS
  <2>1. ASSUME NEW a \in Actors, Commit(a)
        PROVE  KeysCountTransitions'
    <3> DEFINE t == request[a]
    <3>1. case'.revision = case.revision + 1 /\ case'.keys = case.keys \union {t.key}
      BY <2>1 DEF Commit, Candidate, SealedCase
    <3>2. t.key \notin case.keys
      BY <2>1, CommittedRequest DEF Commit
    <3>3. Cardinality(case.keys \union {t.key}) = Cardinality(case.keys) + 1
      BY <3>2, FS_AddElement DEF ChainInv, TypeOK
    <3> QED
      BY <3>1, <3>3 DEF KeysCountTransitions
  <2>2. ASSUME case' = case
        PROVE  KeysCountTransitions'
    BY <2>2 DEF KeysCountTransitions
  <2> QED
    BY <2>1, <2>2 DEF Next, Prepare, Refuse, vars
<1> QED
  BY <1>1, <1>2, ChainAlways, PTL DEF Spec

\* Whatever stale requests are around, an actor that reads the case, asks for a legal
\* successor and uses a fresh key is not refused before the case has made as many
\* transitions as it has keys: the stored digest is never stale, no state but the last
\* ones is a dead end, and refusals cost no key (transition_case, is_allowed).
THEOREM CaseIsNeverWedged == Spec => []NeverWedged
<1>1. ChainInv /\ KeysCountTransitions => NeverWedged
  <2> SUFFICES ASSUME ChainInv, KeysCountTransitions, case.state \notin Terminal,
                      ~(case.revision >= MaxKeys),
                      NEW key \in Keys \ case.keys
               PROVE  \E to \in Successors(case.state) :
                        TransitionAnswer(case,
                          [digest |-> case.digest, revision |-> case.revision,
                           from |-> case.state, to |-> to, key |-> key]) = "committed"
    BY DEF NeverWedged
  <2>1. VerifyCase(case) /\ case.state \in CaseStates
    BY DEF ChainInv, Sealed, TypeOK, DisputeCase
  <2>2. PICK to \in Successors(case.state) : TRUE
    BY <2>1, OnlyOverIsDeadEnd
  <2>3. ~(Cardinality(case.keys) >= MaxKeys)
    BY DEF KeysCountTransitions
  <2>4. TransitionAnswer(case,
          [digest |-> case.digest, revision |-> case.revision,
           from |-> case.state, to |-> to, key |-> key]) = "committed"
    BY <2>1, <2>3 DEF TransitionAnswer, IsAllowed
  <2> QED
    BY <2>4
<1> QED
  BY <1>1, ChainAlways, KeysAlwaysCountTransitions, PTL
-----------------------------------------------------------------------------

\* How a legal pair of states looks from the phases; only a step to EvidenceLocked
\* inside the inquiry, or one to NoticeServed, can complete what heard stands for.
LEMMA PhaseStep ==
  ASSUME NEW from \in CaseStates, NEW to \in CaseStates, IsAllowed(from, to)
  PROVE  \/ PhaseOf(from) = PhaseOf(to)
         \/ /\ PhaseOf(from) = "Intake" /\ PhaseOf(to) = "Inquiry" /\ to = "Accepted"
         \/ /\ from = "EvidenceLocked" /\ to = "DeterministicEvaluation"
            /\ PhaseOf(from) = "Inquiry" /\ PhaseOf(to) = "Decision"
         \/ /\ PhaseOf(from) = "Decision" /\ PhaseOf(to) = "Inquiry" /\ to = "RepairPending"
         \/ /\ PhaseOf(from) = "Decision" /\ PhaseOf(to) = "Remedy" /\ to = "RemedyExecution"
            /\ from \notin BeforeLock /\ from \notin BeforeNotice
         \/ /\ PhaseOf(from) \in {"Intake", "Inquiry", "Remedy"} /\ PhaseOf(to) = "Over"
            /\ to \notin {"NoticeServed", "EvidenceLocked"}
BY DEF IsAllowed, Successors, CaseStates, PhaseOf, Terminal, BeforeHold, BeforeNotice,
       BeforeResponse, BeforeLock

LEMMA HeardGrowsInInquiry ==
  ASSUME NEW state \in {"NoticeServed", "EvidenceLocked"}
  PROVE  PhaseOf(state) = "Inquiry"
BY DEF PhaseOf, Terminal

\* The detailed case implements the coarse life of a case (CasePhases) for every set
\* of actors, keys and proposals (is_allowed and transition_case).
THEOREM CaseImplementsPhases == Spec => ImplementsPhases
<1> DEFINE Heard == {"EvidenceLocked", "NoticeServed"} \subseteq Reached
<1>1. Init => Phases!PhaseInit
  <2> SUFFICES ASSUME Init PROVE Phases!PhaseInit
    OBVIOUS
  <2>1. case.state = "Submitted" /\ ~Heard
    BY DEF Init, SealedCase, Reached
  <2>2. PhaseOf(case.state) = "Intake"
    BY <2>1 DEF PhaseOf, Terminal
  <2> QED
    BY <2>1, <2>2 DEF Phases!PhaseInit
<1>2. ChainInv /\ PathInv /\ [Next]_vars
        => [Phases!PhaseNext]_<<PhaseOf(case.state), Heard>>
  <2> SUFFICES ASSUME ChainInv, PathInv, [Next]_vars
               PROVE  [Phases!PhaseNext]_<<PhaseOf(case.state), Heard>>
    OBVIOUS
  <2>1. ASSUME NEW a \in Actors, Commit(a)
        PROVE  [Phases!PhaseNext]_<<PhaseOf(case.state), Heard>>
    <3> DEFINE from == case.state
               to == case'.state
    <3>1. PICK r0 \in Receipt :
             /\ receipts' = receipts \union {r0}
             /\ r0.to = to
             /\ IsAllowed(from, to) /\ from \in CaseStates /\ to \in CaseStates
      BY <2>1, CommitEffect
    <3>2. Reached' = Reached \union {to}
      BY <3>1 DEF Reached
    <3>3. to \notin {"NoticeServed", "EvidenceLocked"} => Heard' = Heard
      BY <3>2
    <3>4. Heard => Heard'
      BY <3>2
    <3>5. CASE PhaseOf(from) = PhaseOf(to)
      <4>1. CASE to \in {"NoticeServed", "EvidenceLocked"}
        <5>1. PhaseOf(from) = "Inquiry"
          BY <3>5, <4>1, HeardGrowsInInquiry
        <5>2. CASE Heard = Heard'
          BY <3>5, <5>2
        <5>3. CASE ~Heard /\ Heard'
          BY <3>5, <5>1, <5>3 DEF Phases!PhaseNext, Phases!Hear
        <5> QED
          BY <3>4, <5>2, <5>3
      <4>2. CASE to \notin {"NoticeServed", "EvidenceLocked"}
        BY <3>3, <3>5, <4>2
      <4> QED
        BY <4>1, <4>2
    <3>6. CASE PhaseOf(from) = "Intake" /\ PhaseOf(to) = "Inquiry" /\ to = "Accepted"
      BY <3>3, <3>6 DEF Phases!PhaseNext, Phases!Accept
    <3>7. CASE /\ from = "EvidenceLocked" /\ to = "DeterministicEvaluation"
               /\ PhaseOf(from) = "Inquiry" /\ PhaseOf(to) = "Decision"
      <4>1. Heard
        BY <3>7 DEF PathInv, GatesPassed, BeforeHold, BeforeNotice, BeforeResponse, BeforeLock
      <4> QED
        BY <3>3, <3>7, <4>1 DEF Phases!PhaseNext, Phases!Evaluate
    <3>8. CASE PhaseOf(from) = "Decision" /\ PhaseOf(to) = "Inquiry" /\ to = "RepairPending"
      BY <3>3, <3>8 DEF Phases!PhaseNext, Phases!Repair
    <3>9. CASE /\ PhaseOf(from) = "Decision" /\ PhaseOf(to) = "Remedy"
               /\ to = "RemedyExecution"
               /\ from \notin BeforeLock /\ from \notin BeforeNotice
      <4>1. Heard
        BY <3>9 DEF PathInv, GatesPassed
      <4> QED
        BY <3>3, <3>9, <4>1 DEF Phases!PhaseNext, Phases!Execute
    <3>10. CASE /\ PhaseOf(from) \in {"Intake", "Inquiry", "Remedy"} /\ PhaseOf(to) = "Over"
                /\ to \notin {"NoticeServed", "EvidenceLocked"}
      BY <3>3, <3>10 DEF Phases!PhaseNext, Phases!Finish
    <3> QED
      BY <3>1, <3>5, <3>6, <3>7, <3>8, <3>9, <3>10, PhaseStep
  <2>2. ASSUME UNCHANGED <<case, receipts>>
        PROVE  [Phases!PhaseNext]_<<PhaseOf(case.state), Heard>>
    BY <2>2 DEF Reached
  <2>3. ASSUME NEW a \in Actors, NEW p \in Proposals, NEW key \in Keys, Prepare(a, p, key)
        PROVE  [Phases!PhaseNext]_<<PhaseOf(case.state), Heard>>
    BY <2>2, <2>3 DEF Prepare
  <2>4. ASSUME NEW a \in Actors, Refuse(a)
        PROVE  [Phases!PhaseNext]_<<PhaseOf(case.state), Heard>>
    BY <2>2, <2>4 DEF Refuse
  <2>5. CASE UNCHANGED vars
    BY <2>2, <2>5 DEF vars
  <2> QED
    BY <2>1, <2>3, <2>4, <2>5 DEF Next
<1> QED
  BY <1>1, <1>2, ChainAlways, PathAlways, PTL DEF Spec, ImplementsPhases, Phases!Spec
=============================================================================
