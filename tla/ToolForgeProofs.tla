--------------------------- MODULE ToolForgeProofs ---------------------------
(***************************************************************************)
(* Proofs about ToolForge: verification is exact, the policy of tools      *)
(* implies what the guardian gate asks, the tool that its guardians have   *)
(* approved can be promoted, and promotion implements ToolAdmission.       *)
(***************************************************************************)
EXTENDS ToolForge, FiniteSetTheorems, TLAPS

-----------------------------------------------------------------------------
\* Verification of one specification and one bundle.

\* No finding means that the condition of the finding does not hold.
LEMMA FindingIsEmpty ==
  ASSUME NEW code, NEW condition \in BOOLEAN
  PROVE  Finding(code, condition) = {} <=> ~condition
BY DEF Finding

\* The findings of the static rules are empty exactly for a specification whose
\* parts are within their bounds.
LEMMA StaticRules ==
  ASSUME NEW s \in Specs
  PROVE  SpecFindings(s) = {}
           <=> /\ s.schema = "joan.tool-spec.v0"
               /\ s.name \in Identifiers /\ s.tenant \in Identifiers /\ s.purpose \in Identifiers
               /\ s.budget \in 1..MaxBudget /\ Len(s.tests) \in 1..MaxTests
               /\ \A n \in DOMAIN s.tests :
                    /\ s.tests[n].name \in Identifiers
                    /\ \A m \in DOMAIN s.tests : m # n => s.tests[m].name # s.tests[n].name
                    /\ Fits(s.operation, s.tests[n])
<1> DEFINE seen == {n \in DOMAIN s.tests : n <= MaxTests}
<1>1. SpecFindings(s) = {}
        <=> /\ s.schema = "joan.tool-spec.v0"
            /\ s.name \in Identifiers /\ s.tenant \in Identifiers /\ s.purpose \in Identifiers
            /\ s.budget \in 1..MaxBudget /\ Len(s.tests) \in 1..MaxTests
            /\ ~ \E n \in seen : s.tests[n].name \notin Identifiers
            /\ ~ \E m, n \in seen : m # n /\ s.tests[m].name = s.tests[n].name
            /\ ~ \E n \in seen : ~Fits(s.operation, s.tests[n])
  BY Zenon DEF SpecFindings, Finding
<1>2. Len(s.tests) \in 1..MaxTests => seen = DOMAIN s.tests
  BY SpecsAssumption, BoundAssumption
<1> HIDE DEF seen
<1> QED BY <1>1, <1>2, Zenon

\* A verified tool is the tool of a specification that makes sense, and the
\* tool of such a specification is verified.
LEMMA VerifiedIsExact ==
  ASSUME NEW s \in Specs, NEW b
  PROVE  VerifyTool(s, b).body.status = "verified" <=> Sensible(s) /\ b = ForgeTool(s)
<1> DEFINE static == StaticFindings(s, b)
           Answer(n) == RunTool(b.body.bytecode, s.tests[n].arguments, s.budget)
           executed == IF static = {} THEN DOMAIN s.tests ELSE {}
           passed == {n \in executed : Answer(n) = s.tests[n].expected}
           findings == static
             \union {<<"TF1011", s.tests[n].name>> :
                       n \in {m \in executed \ passed : Answer(m) # <<"fault">>}}
             \union {<<"TF1012", s.tests[n].name>> :
                       n \in {m \in executed : Answer(m) = <<"fault">>}}
<1>1. VerifyTool(s, b).body.status = "verified" <=> findings = {} /\ passed = DOMAIN s.tests
  BY Zenon DEF VerifyTool, Sealed
<1>2. findings = {} /\ passed = DOMAIN s.tests
        <=> /\ static = {}
            /\ \A n \in DOMAIN s.tests :
                 Answer(n) = s.tests[n].expected /\ Answer(n) # <<"fault">>
  <2> HIDE DEF static, Answer
  <2>1. ASSUME findings = {}, passed = DOMAIN s.tests
        PROVE  /\ static = {}
               /\ \A n \in DOMAIN s.tests :
                    Answer(n) = s.tests[n].expected /\ Answer(n) # <<"fault">>
    <3>1. static = {} /\ executed = DOMAIN s.tests
      BY <2>1, Zenon
    <3>2. ASSUME NEW n \in DOMAIN s.tests PROVE Answer(n) = s.tests[n].expected
      BY <2>1, Zenon
    <3>3. {<<"TF1012", s.tests[n].name>> :
             n \in {m \in executed : Answer(m) = <<"fault">>}} = {}
      BY <2>1, Zenon
    <3>4. ASSUME NEW n \in DOMAIN s.tests PROVE Answer(n) # <<"fault">>
      BY <3>1, <3>3, Zenon
    <3> QED BY <3>1, <3>2, <3>4
  <2>2. ASSUME static = {},
               \A n \in DOMAIN s.tests :
                 Answer(n) = s.tests[n].expected /\ Answer(n) # <<"fault">>
        PROVE  findings = {} /\ passed = DOMAIN s.tests
    BY <2>2, Zenon
  <2> QED BY <2>1, <2>2
<1>3. static = {} <=> SpecFindings(s) = {} /\ s.name \notin Keywords /\ b = ForgeTool(s)
  <2>1. ASSUME static = {} PROVE SpecFindings(s) = {} /\ s.name \notin Keywords /\ b = ForgeTool(s)
    BY <2>1, Zenon DEF StaticFindings, Finding, Regenerates, Forgeable
  <2>2. ASSUME SpecFindings(s) = {}, s.name \notin Keywords, b = ForgeTool(s)
        PROVE  static = {}
    <3>1. /\ b.body.schema = "joan.tool-bundle.v0" /\ b.body.spec = s
          /\ b.body.sourceDigest = b.body.source /\ b.digest = b.body /\ b.body.passes = 3
          /\ b.body.bytecodeDigest = b.body.bytecode
          /\ b.body.bytecode.sound /\ b.body.bytecode.pure
      BY <2>2 DEF ForgeTool, Sealed
    <3> QED BY <2>2, <3>1, Zenon DEF StaticFindings, Finding, Regenerates, Forgeable
  <2> QED BY <2>1, <2>2
<1>4. ASSUME b = ForgeTool(s), NEW n \in DOMAIN s.tests, Fits(s.operation, s.tests[n]),
             s.budget \in Nat
      PROVE  (Answer(n) = s.tests[n].expected /\ Answer(n) # <<"fault">>)
               <=> /\ Cost(s.operation) <= s.budget
                   /\ Result(s.operation, s.tests[n].arguments) = s.tests[n].expected
  <2>1. b.body.bytecode.operation = s.operation
    BY <1>4 DEF ForgeTool, Sealed
  <2>2. s.tests[n].expected # <<"fault">>
    BY <1>4 DEF Fits, Contract
  <2>3. Answer(n) = IF Cost(s.operation) <= s.budget
                    THEN Result(s.operation, s.tests[n].arguments)
                    ELSE <<"fault">>
    BY <1>4, <2>1 DEF RunTool, Fits, Cost
  <2> HIDE DEF Answer
  <2> QED BY <2>2, <2>3
<1>5. s.budget \in Nat /\ (DOMAIN s.tests # {} /\ Len(s.tests) <= MaxTests
                             <=> Len(s.tests) \in 1..MaxTests)
  <2>1. s.budget \in Nat /\ Len(s.tests) \in Nat /\ DOMAIN s.tests = 1..Len(s.tests)
    BY SpecsAssumption
  <2>2. \A k \in Nat : 1..k # {} /\ k <= MaxTests <=> k \in 1..MaxTests
    <3>1. \A k \in Nat : 1..k # {} <=> 1 <= k
      <4>1. ASSUME NEW k \in Nat, 1 <= k PROVE 1..k # {}
        <5>1. 1 \in 1..k
          BY <4>1
        <5> QED BY <5>1
      <4>2. ASSUME NEW k \in Nat, 1..k # {} PROVE 1 <= k
        BY <4>2
      <4> QED BY <4>1, <4>2
    <3> QED BY <3>1, BoundAssumption
  <2> QED BY <2>1, <2>2
<1>6. ASSUME Cost(s.operation) <= s.budget, s.budget <= MaxBudget PROVE s.budget \in 1..MaxBudget
  BY <1>5, <1>6, BoundAssumption DEF Cost
<1> HIDE DEF static, Answer, executed, passed, findings
<1>7. ASSUME VerifyTool(s, b).body.status = "verified"
      PROVE  Sensible(s) /\ b = ForgeTool(s)
  <2>1. /\ static = {}
        /\ \A n \in DOMAIN s.tests : Answer(n) = s.tests[n].expected /\ Answer(n) # <<"fault">>
    BY <1>7, <1>1, <1>2
  <2>2. SpecFindings(s) = {} /\ s.name \notin Keywords /\ b = ForgeTool(s)
    BY <2>1, <1>3
  <2>3. DOMAIN s.tests # {} /\ Len(s.tests) <= MaxTests
    BY <2>2, <1>5, StaticRules
  <2>4. \A n \in DOMAIN s.tests :
          /\ Fits(s.operation, s.tests[n])
          /\ Cost(s.operation) <= s.budget
          /\ Result(s.operation, s.tests[n].arguments) = s.tests[n].expected
    <3>1. \A n \in DOMAIN s.tests : Fits(s.operation, s.tests[n])
      BY <2>2, StaticRules
    <3> QED BY <3>1, <2>1, <2>2, <1>4, <1>5
  <2>5. Cost(s.operation) <= s.budget
    BY <2>3, <2>4
  <2>6. s.budget <= MaxBudget
    BY <2>2, StaticRules, BoundAssumption
  <2>7. /\ s.schema = "joan.tool-spec.v0"
        /\ s.name \in Identifiers /\ s.tenant \in Identifiers /\ s.purpose \in Identifiers
        /\ \A n \in DOMAIN s.tests :
             /\ s.tests[n].name \in Identifiers
             /\ \A m \in DOMAIN s.tests : m # n => s.tests[m].name # s.tests[n].name
    BY <2>2, StaticRules
  <2> QED BY <2>2, <2>3, <2>4, <2>5, <2>6, <2>7, Zenon DEF Sensible
<1>8. ASSUME Sensible(s), b = ForgeTool(s)
      PROVE  VerifyTool(s, b).body.status = "verified"
  <2>1. \A n \in DOMAIN s.tests :
          /\ Fits(s.operation, s.tests[n])
          /\ Cost(s.operation) <= s.budget
          /\ Result(s.operation, s.tests[n].arguments) = s.tests[n].expected
    BY <1>8 DEF Sensible
  <2>2. \A n \in DOMAIN s.tests : Answer(n) = s.tests[n].expected /\ Answer(n) # <<"fault">>
    BY <2>1, <1>4, <1>5, <1>8
  <2>3. s.budget \in 1..MaxBudget /\ Len(s.tests) \in 1..MaxTests
    BY <1>5, <1>6, <1>8 DEF Sensible
  <2>4. SpecFindings(s) = {} /\ s.name \notin Keywords
    BY <1>8, <2>3, StaticRules, Zenon DEF Sensible
  <2> QED BY <2>2, <2>4, <1>1, <1>2, <1>3, <1>8
<1> QED BY <1>7, <1>8

-----------------------------------------------------------------------------
\* The gate and the policy of tools.

\* The three votes that the policy lets through are of the three guardians.
LEMMA PolicyNamesEachGuardian ==
  ASSUME NEW b, NEW c, NEW S, c.votes \in Seq(S), MatchesToolPolicy(b, c)
  PROVE  /\ DOMAIN c.votes = 1..3
         /\ \A m, n \in DOMAIN c.votes : m # n => c.votes[m].guardian # c.votes[n].guardian
         /\ \A n \in DOMAIN c.votes :
              /\ c.votes[n].guardian \in ToolGuardians
              /\ c.votes[n].role = RoleOf(c.votes[n].guardian)
              /\ c.votes[n].root = b.digest
<1>1. /\ Len(c.votes) = 3
      /\ {c.votes[n].guardian : n \in DOMAIN c.votes} = ToolGuardians
      /\ \A n \in DOMAIN c.votes : /\ c.votes[n].role = RoleOf(c.votes[n].guardian)
                                   /\ c.votes[n].root = b.digest
  BY DEF MatchesToolPolicy
<1>2. DOMAIN c.votes = 1..3
  BY <1>1
<1>3. {c.votes[1].guardian, c.votes[2].guardian, c.votes[3].guardian} = ToolGuardians
  BY <1>1, <1>2
<1>4. /\ c.votes[1].guardian # c.votes[2].guardian
      /\ c.votes[1].guardian # c.votes[3].guardian
      /\ c.votes[2].guardian # c.votes[3].guardian
  <2>1. ASSUME NEW x, NEW y, NEW z, {x, y, z} = ToolGuardians
        PROVE  x # y /\ x # z /\ y # z
    <3>1. {x, y, z} = {"semantic-verifier", "test-verifier", "policy-verifier"}
      BY <2>1 DEF ToolGuardians
    <3>2. /\ "semantic-verifier" \in {x, y, z} /\ "test-verifier" \in {x, y, z}
          /\ "policy-verifier" \in {x, y, z}
      BY <3>1
    <3> QED BY <3>2
  <2> QED BY <1>3, <2>1
<1>5. \A n \in DOMAIN c.votes : c.votes[n].guardian \in ToolGuardians
  BY <1>1
<1> QED BY <1>1, <1>2, <1>4, <1>5

\* A candidate that the policy lets through is one the guardian gate can judge.
LEMMA PolicyMatchIsWellFormed ==
  ASSUME NEW b, NEW c, NEW S, c.votes \in Seq(S), MatchesToolPolicy(b, c)
  PROVE  ~Malformed(c)
<1>1. /\ c.schema = CandidateSchema /\ c.threshold = 3 /\ c.root = b.digest
      /\ c.required # {} /\ c.proposer = "tool-generator"
  BY DEF MatchesToolPolicy
<1>2. /\ \A m, n \in DOMAIN c.votes : m # n => c.votes[m].guardian # c.votes[n].guardian
      /\ \A n \in DOMAIN c.votes :
           /\ c.votes[n].guardian \in ToolGuardians
           /\ c.votes[n].root = b.digest
  BY PolicyNamesEachGuardian
<1>3. \A n \in DOMAIN c.votes :
        c.votes[n].guardian # "" /\ c.votes[n].guardian # "tool-generator"
  BY <1>2 DEF ToolGuardians
<1>4. \A n \in DOMAIN c.votes : c.votes[n].guardian # "" /\ c.votes[n].root = c.root
  BY <1>1, <1>2, <1>3
<1>5. c.threshold # 0
  BY <1>1
<1> QED BY <1>1, <1>2, <1>3, <1>4, <1>5, Zenon DEF Malformed, Approvals

\* An approved outcome under the policy has the approval of every guardian.
LEMMA ApprovedByEachGuardian ==
  ASSUME NEW b, NEW c, NEW S, c.votes \in Seq(S), MatchesToolPolicy(b, c),
         Outcome(c) = "approved", NEW g \in ToolGuardians
  PROVE  \E n \in DOMAIN c.votes : /\ c.votes[n].guardian = g
                                   /\ c.votes[n].decision = "approve"
                                   /\ c.votes[n].root = b.digest
<1>1. RoleOf(g) \in c.required
  BY DEF MatchesToolPolicy, RoleOf, ToolGuardians
<1>2. c.required \subseteq ApprovedRoles(c)
  BY DEF Outcome
<1>3. PICK n \in DOMAIN c.votes : c.votes[n].decision = "approve" /\ c.votes[n].role = RoleOf(g)
  BY <1>1, <1>2, Zenon DEF ApprovedRoles, Approvals
<1>4. /\ c.votes[n].guardian \in ToolGuardians
      /\ c.votes[n].role = RoleOf(c.votes[n].guardian)
      /\ c.votes[n].root = b.digest
  BY PolicyNamesEachGuardian
<1>5. c.votes[n].guardian = g
  BY <1>3, <1>4 DEF RoleOf, ToolGuardians
<1> QED BY <1>3, <1>4, <1>5

-----------------------------------------------------------------------------
\* The files hold what was put there.
FilesInv ==
  /\ spec \in Specs
  /\ bundle \in Replacement.bundle \union {ForgeTool(s) : s \in Specs} \union {Nothing}

\* The invariant of the files is inductive.
THEOREM FilesAreKnown == Spec => []FilesInv
<1>1. Init => FilesInv
  BY DEF Init, FilesInv
<1>2. FilesInv /\ [Next]_vars => FilesInv'
  <2> SUFFICES ASSUME FilesInv, [Next]_vars PROVE FilesInv'
    OBVIOUS
  <2>1. CASE Forge
    BY <2>1 DEF FilesInv, Forge
  <2>2. CASE Verify
    BY <2>2 DEF FilesInv, Verify
  <2>3. CASE Vote
    BY <2>3 DEF FilesInv, Vote, files
  <2>4. CASE Finalize
    BY <2>4 DEF FilesInv, Finalize
  <2>5. CASE Promote
    BY <2>5 DEF FilesInv, Promote, files
  <2>6. CASE Replace
    BY <2>6, ReplacementAssumption DEF FilesInv, Replace
  <2>7. CASE UNCHANGED vars
    BY <2>7 DEF FilesInv, vars
  <2> QED BY <2>1, <2>2, <2>3, <2>4, <2>5, <2>6, <2>7 DEF Next
<1> QED BY <1>1, <1>2, PTL DEF Spec

\* Whatever files are read, verify_tool answers "verified" exactly for the tool
\* of a sensible specification.
THEOREM VerificationTheorem == Spec => []VerificationIsExact
<1>1. FilesInv => VerificationIsExact
  BY VerifiedIsExact DEF FilesInv, VerificationIsExact
<1> QED BY <1>1, FilesAreKnown, PTL

\* Nobody presents a vote that was not cast.
LEMMA PresentedWereCast ==
  ASSUME NEW c \in Candidates PROVE c.votes \in Seq(cast)
<1>1. PICK h \in Headers \union {ToolPolicy},
           votes \in (Presented(cast) \cap Seq(cast)) \union Threes(cast),
           root \in {bundle.digest} \union {v.root : v \in cast} :
             c = CandidateOf(h, votes, root)
  BY DEF Candidates
<1>2. Threes(cast) \subseteq Seq(cast)
  <2> SUFFICES ASSUME NEW t \in Threes(cast) PROVE t \in Seq(cast)
    OBVIOUS
  <2>1. PICK x \in cast, y \in cast, z \in cast : t = <<x, y, z>>
    BY DEF Threes
  <2>2. <<x, y, z>> \in Seq(cast)
    OBVIOUS
  <2> QED BY <2>1, <2>2
<1> QED BY <1>1, <1>2 DEF CandidateOf

\* Every choice of votes, root and header makes a candidate.
LEMMA VotesMayBePresented ==
  ASSUME NEW h \in Headers \union {ToolPolicy},
         NEW votes \in (Presented(cast) \cap Seq(cast)) \union Threes(cast),
         NEW root \in {bundle.digest} \union {v.root : v \in cast}
  PROVE  CandidateOf(h, votes, root) \in Candidates
<1> DEFINE H == Headers \union {ToolPolicy}
           V == (Presented(cast) \cap Seq(cast)) \union Threes(cast)
           R == {bundle.digest} \union {v.root : v \in cast}
<1>1. Candidates = {CandidateOf(h1, v1, r1) : h1 \in H, v1 \in V, r1 \in R}
  BY DEF Candidates
<1>2. h \in H /\ votes \in V /\ root \in R
  OBVIOUS
<1> HIDE DEF H, V, R
<1> QED BY <1>1, <1>2

\* No candidate passes matches_tool_guardian_policy and is then refused by
\* evaluate_candidate.
THEOREM PolicyTheorem == Spec => []PolicyIsWellFormed
<1>1. PolicyIsWellFormed
  BY PresentedWereCast, PolicyMatchIsWellFormed DEF PolicyIsWellFormed
<1> QED BY <1>1, PTL

-----------------------------------------------------------------------------
\* What Promotable says when it holds: the tool does what was asked, and every
\* guardian has approved it.
LEMMA PromotableIsEarned ==
  ASSUME NEW s \in Specs, NEW b, NEW v, NEW c, NEW f, NEW S, c.votes \in Seq(S),
         Promotable(s, b, v, c, f)
  PROVE  /\ Sensible(s) /\ b = ForgeTool(s)
         /\ MatchesToolPolicy(b, c) /\ Outcome(c) = "approved"
<1> DEFINE chain == ChainFindings(s, b, v, c)
           evaluated == chain = {} /\ ~Malformed(c)
<1>1. /\ f.body.findings = {}
      /\ f.body.findings = chain
                    \union Finding("TF2004", evaluated /\ EvaluateCandidate(c).outcome # "approved")
                    \union Finding("TF2005", chain = {} /\ Malformed(c))
  BY Zenon DEF Promotable, FinalizeTool, Sealed
<1>2. chain = {}
  BY <1>1, Zenon
<1>3. Finding("TF2004", evaluated /\ EvaluateCandidate(c).outcome # "approved") = {}
  BY <1>1, Zenon
<1>4. MatchesToolPolicy(b, c) /\ VerifyTool(s, b).body.status = "verified"
  BY <1>2, Zenon DEF ChainFindings, Finding
<1>5. ~Malformed(c)
  BY <1>4, PolicyMatchIsWellFormed
<1>6. EvaluateCandidate(c).outcome = "approved"
  BY <1>2, <1>3, <1>5, Zenon DEF Finding
<1> QED BY <1>4, <1>6, VerifiedIsExact DEF EvaluateCandidate

\* The approval of the policy is unanimous: of its three guardians.
LEMMA ThreeOfThem ==
  ASSUME NEW x, NEW y, NEW z, x # y, x # z, y # z
  PROVE  Cardinality({x, y, z}) = 3
<1>1. IsFiniteSet({x}) /\ Cardinality({x}) = 1
  BY FS_Singleton
<1>2. {x, y} = {x} \union {y} /\ {x, y, z} = {x, y} \union {z}
  OBVIOUS
<1>3. y \notin {x} /\ z \notin {x, y}
  OBVIOUS
<1>4. IsFiniteSet({x, y}) /\ Cardinality({x, y}) = 2
  BY <1>1, <1>2, <1>3, FS_AddElement
<1> QED BY <1>2, <1>3, <1>4, FS_AddElement

\* The candidate of three approving votes of the guardians matches the policy and is
\* approved by the gate.
LEMMA UnanimityApproves ==
  ASSUME NEW b, NEW x, NEW y, NEW z,
         x.guardian = "semantic-verifier", y.guardian = "test-verifier",
         z.guardian = "policy-verifier",
         \A w \in {x, y, z} : /\ w.role = RoleOf(w.guardian) /\ w.decision = "approve"
                              /\ w.root = b.digest
                              /\ w.evidence = <<b.body.sourceDigest, b.body.bytecodeDigest>>,
         NEW c, c = [schema |-> ToolPolicy.schema, root |-> b.digest,
                     proposer |-> ToolPolicy.proposer, required |-> ToolPolicy.required,
                     threshold |-> ToolPolicy.threshold, votes |-> <<x, y, z>>]
  PROVE  MatchesToolPolicy(b, c) /\ ~Malformed(c) /\ Outcome(c) = "approved"
<1>1. /\ c.schema = CandidateSchema /\ c.root = b.digest /\ c.proposer = "tool-generator"
      /\ c.required = {"semantic", "test", "policy"} /\ c.threshold = 3
      /\ c.votes = <<x, y, z>>
  BY DEF ToolPolicy
<1>2. /\ Len(c.votes) = 3 /\ DOMAIN c.votes = {1, 2, 3}
      /\ c.votes[1] = x /\ c.votes[2] = y /\ c.votes[3] = z
  BY <1>1
<1>3. /\ x.role = "semantic" /\ y.role = "test" /\ z.role = "policy"
      /\ x.decision = "approve" /\ y.decision = "approve" /\ z.decision = "approve"
  BY DEF RoleOf
<1>4. {c.votes[n].guardian : n \in DOMAIN c.votes} = ToolGuardians
  BY <1>2 DEF ToolGuardians
<1>5. MatchesToolPolicy(b, c)
  <2>1. \A n \in DOMAIN c.votes :
          /\ c.votes[n].role = RoleOf(c.votes[n].guardian)
          /\ c.votes[n].root = b.digest
          /\ c.votes[n].evidence = <<b.body.sourceDigest, b.body.bytecodeDigest>>
    BY <1>2
  <2> QED BY <1>1, <1>2, <1>4, <2>1, Zenon DEF MatchesToolPolicy
<1>6. ~Malformed(c)
  <2>1. c.votes \in Seq({x, y, z})
    BY <1>1
  <2> QED BY <1>5, <2>1, PolicyMatchIsWellFormed
<1>7. Outcome(c) = "approved"
  <2>1. Approvals(c) = {1, 2, 3}
    BY <1>2, <1>3 DEF Approvals
  <2>2. Denying(c) = {}
    BY <1>2, <1>3 DEF Denying
  <2>3. ApprovedRoles(c) = {"semantic", "test", "policy"}
    BY <1>2, <1>3, <2>1 DEF ApprovedRoles
  <2>4. {c.votes[n].guardian : n \in Approvals(c)}
          = {"semantic-verifier", "test-verifier", "policy-verifier"}
    BY <1>2, <2>1
  <2>5. ApprovalCount(c) = 3
    <3>1. Cardinality({"semantic-verifier", "test-verifier", "policy-verifier"}) = 3
      BY ThreeOfThem
    <3> QED BY <2>4, <3>1, Zenon DEF ApprovalCount
  <2> QED BY <1>1, <2>2, <2>3, <2>5 DEF Outcome
<1> QED BY <1>5, <1>6, <1>7

\* A verified tool with an approved candidate is finalized without a finding, and that
\* finalization is promotable.
LEMMA ApprovedIsPromotable ==
  ASSUME NEW s, NEW b, NEW v, NEW c, b.digest = b.body,
         v = VerifyTool(s, b), v.body.status = "verified", c.root = b.digest,
         MatchesToolPolicy(b, c), ~Malformed(c), Outcome(c) = "approved"
  PROVE  Promotable(s, b, v, c, FinalizeTool(s, b, v, c))
<1> DEFINE chain == ChainFindings(s, b, v, c)
           evaluated == chain = {} /\ ~Malformed(c)
           receipt == EvaluateCandidate(c)
           findings == chain
                    \union Finding("TF2004", evaluated /\ receipt.outcome # "approved")
                    \union Finding("TF2005", chain = {} /\ Malformed(c))
           f == FinalizeTool(s, b, v, c)
<1>1. chain = {}
  BY Zenon DEF ChainFindings, Finding
<1>2. receipt.outcome = "approved"
  BY DEF EvaluateCandidate
<1>3. findings = {}
  BY <1>1, <1>2, Zenon DEF Finding
<1>4. /\ f.body.status = IF findings = {} THEN "finalized" ELSE "quarantined"
      /\ f.body.guardian = IF evaluated THEN <<receipt>> ELSE <<>>
      /\ f.body.findings = findings
  BY Zenon DEF FinalizeTool, Sealed
<1>5. evaluated
  BY <1>1
<1> HIDE DEF findings, evaluated, receipt, chain, f
<1>6. f.body.guardian = <<receipt>> /\ f.body.guardian # <<>>
      /\ f.body.guardian[1].outcome = "approved"
  BY <1>2, <1>4, <1>5
<1>7. f.body.status = "finalized" /\ f.body.findings = {}
  BY <1>3, <1>4
<1> QED BY <1>6, <1>7, Zenon DEF Promotable, f

\* Once its three guardians have approved it on the evidence of the unaltered tool, the
\* tool of a sensible specification can be promoted, whatever other votes were cast and
\* whatever files were replaced before (finalize_tool, promotion).
THEOREM ApprovedToolTheorem == Spec => []ApprovedToolIsPromotable
<1> DEFINE Approval(g, w) ==
             /\ w.guardian = g /\ w.role = RoleOf(g)
             /\ w.decision = "approve" /\ w.root = bundle.digest
             /\ w.evidence = <<bundle.body.sourceDigest, bundle.body.bytecodeDigest>>
           Ready == /\ Sensible(spec) /\ bundle = ForgeTool(spec)
                    /\ \A g \in ToolGuardians : \E w \in cast : Approval(g, w)
           v == VerifyTool(spec, bundle)
<1>1. ASSUME FilesInv, Ready
      PROVE  \E c \in Candidates :
               Promotable(spec, bundle, v, c, FinalizeTool(spec, bundle, v, c))
  <2>1. PICK x \in cast : Approval("semantic-verifier", x)
    BY <1>1 DEF ToolGuardians
  <2>2. PICK y \in cast : Approval("test-verifier", y)
    BY <1>1 DEF ToolGuardians
  <2>3. PICK z \in cast : Approval("policy-verifier", z)
    BY <1>1 DEF ToolGuardians
  <2> DEFINE c == [schema |-> ToolPolicy.schema, root |-> bundle.digest,
                   proposer |-> ToolPolicy.proposer, required |-> ToolPolicy.required,
                   threshold |-> ToolPolicy.threshold, votes |-> <<x, y, z>>]
  <2>4. c \in Candidates
    <3>1. <<x, y, z>> \in Threes(cast)
      BY <2>1, <2>2, <2>3 DEF Threes
    <3>2. ToolPolicy \in Headers \union {ToolPolicy}
      OBVIOUS
    <3>3. bundle.digest \in {bundle.digest} \union {w.root : w \in cast}
      OBVIOUS
    <3>4. <<x, y, z>> \in (Presented(cast) \cap Seq(cast)) \union Threes(cast)
      BY <3>1
    <3>5. CandidateOf(ToolPolicy, <<x, y, z>>, bundle.digest) \in Candidates
      BY <3>2, <3>3, <3>4, VotesMayBePresented
    <3> QED BY <3>5 DEF CandidateOf
  <2>5. MatchesToolPolicy(bundle, c) /\ ~Malformed(c) /\ Outcome(c) = "approved"
    <3>1. \A w \in {x, y, z} :
            /\ w.role = RoleOf(w.guardian) /\ w.decision = "approve"
            /\ w.root = bundle.digest
            /\ w.evidence = <<bundle.body.sourceDigest, bundle.body.bytecodeDigest>>
      BY <2>1, <2>2, <2>3
    <3> HIDE DEF Approval
    <3>2. /\ x.guardian = "semantic-verifier" /\ y.guardian = "test-verifier"
          /\ z.guardian = "policy-verifier"
      BY <2>1, <2>2, <2>3 DEF Approval
    <3> QED BY <3>1, <3>2, UnanimityApproves
  <2>6. v.body.status = "verified"
    BY <1>1, VerifiedIsExact DEF FilesInv
  <2>7. bundle.digest = bundle.body
    BY <1>1 DEF ForgeTool, Sealed
  <2>8. c.root = bundle.digest
    OBVIOUS
  <2> HIDE DEF c, v
  <2>9. Promotable(spec, bundle, v, c, FinalizeTool(spec, bundle, v, c))
    BY <2>5, <2>6, <2>7, <2>8, ApprovedIsPromotable DEF v
  <2> QED BY <2>4, <2>9
<1>2. FilesInv => ApprovedToolIsPromotable
  BY <1>1 DEF ApprovedToolIsPromotable
<1> QED BY <1>2, FilesAreKnown, PTL

\* Promotion implements admission: every step of the files, the guardians and
\* the forge is a step or a stutter of ToolAdmission.
THEOREM AdmissionTheorem == Spec => ImplementsAdmission
<1> DEFINE Tools == {b.digest : b \in Replacement.bundle \union {ForgeTool(s) : s \in Specs}}
           Approved == {<<v.guardian, v.root>> :
                          v \in {w \in cast : w.decision = "approve" /\ w.guardian \in ToolGuardians}}
<1>1. Init => Admission!Init
  BY DEF Init, Admission!Init
<1>2. FilesInv /\ [Next]_vars => [Admission!Next]_(Admission!vars)
  <2> SUFFICES ASSUME FilesInv, [Next]_vars PROVE [Admission!Next]_(Admission!vars)
    OBVIOUS
  <2>1. ASSUME UNCHANGED <<cast, eligible>> PROVE UNCHANGED Admission!vars
    BY <2>1 DEF Admission!vars
  <2>2. CASE Vote
    <3>1. UNCHANGED eligible
      BY <2>2 DEF Vote
    <3>2. PICK ballot \in Ballots :
            cast' = cast \union
              {[guardian |-> ballot.guardian, role |-> ballot.role,
                decision |-> ballot.decision, root |-> bundle.digest,
                evidence |-> <<bundle.body.sourceDigest, bundle.body.bytecodeDigest>>]}
      BY <2>2 DEF Vote
    <3>3. bundle.digest \in Tools
      BY <2>2 DEF FilesInv, Vote
    <3> DEFINE vote == [guardian |-> ballot.guardian, role |-> ballot.role,
                        decision |-> ballot.decision, root |-> bundle.digest,
                        evidence |-> <<bundle.body.sourceDigest, bundle.body.bytecodeDigest>>]
    <3>4. vote.guardian = ballot.guardian /\ vote.root = bundle.digest
          /\ vote.decision = ballot.decision
      OBVIOUS
    <3>5. cast' = cast \union {vote}
      BY <3>2
    <3> HIDE DEF vote
    <3>6. CASE vote.decision = "approve" /\ vote.guardian \in ToolGuardians
      <4>1. PICK guardian \in ToolGuardians, tool \in Tools :
              guardian = vote.guardian /\ tool = vote.root
        BY <3>3, <3>4, <3>6
      <4>2. Approved' = Approved \union {<<guardian, tool>>}
        BY <3>5, <3>6, <4>1
      <4>3. Admission!Approve(guardian, tool)
        BY <4>2, <3>1 DEF Admission!Approve
      <4> QED BY <4>3 DEF Admission!Next
    <3>7. CASE ~(vote.decision = "approve" /\ vote.guardian \in ToolGuardians)
      <4>1. Approved' = Approved
        BY <3>5, <3>7
      <4> QED BY <4>1, <3>1 DEF Admission!vars
    <3> QED BY <3>6, <3>7
  <2>3. CASE Promote
    <3>1. PICK c \in Candidates : Promotable(spec, bundle, verification, c, finalization)
      BY <2>3 DEF Promote
    <3>2. c.votes \in Seq(cast)
      BY <3>1, PresentedWereCast
    <3>3. spec \in Specs
      BY DEF FilesInv
    <3>4. /\ Sensible(spec) /\ bundle = ForgeTool(spec)
          /\ MatchesToolPolicy(bundle, c) /\ Outcome(c) = "approved"
      BY <3>1, <3>2, <3>3, PromotableIsEarned
    <3>5. ASSUME NEW g \in ToolGuardians PROVE <<g, bundle.digest>> \in Approved
      <4>1. PICK n \in DOMAIN c.votes :
              /\ c.votes[n].guardian = g /\ c.votes[n].decision = "approve"
              /\ c.votes[n].root = bundle.digest
        BY <3>2, <3>4, ApprovedByEachGuardian
      <4>2. c.votes[n] \in cast
        BY <3>2, <4>1
      <4> QED BY <4>1, <4>2
    <3>6. ToolGuardians \X {bundle.digest} \subseteq Approved
      BY <3>5
    <3>7. bundle.digest \in Tools
      BY <3>3, <3>4
    <3>8. UNCHANGED cast /\ eligible' = eligible \union {<<spec, bundle.digest>>}
      BY <2>3 DEF Promote
    <3>9. Admission!Admit(spec, bundle.digest)
      BY <3>4, <3>6, <3>8 DEF Admission!Admit, Meets
    <3> QED BY <3>3, <3>7, <3>9 DEF Admission!Next
  <2>4. CASE Forge
    BY <2>4, <2>1 DEF Forge
  <2>5. CASE Verify
    BY <2>5, <2>1 DEF Verify
  <2>6. CASE Finalize
    BY <2>6, <2>1 DEF Finalize
  <2>7. CASE Replace
    BY <2>7, <2>1 DEF Replace
  <2>8. CASE UNCHANGED vars
    BY <2>8, <2>1 DEF vars
  <2> QED BY <2>2, <2>3, <2>4, <2>5, <2>6, <2>7, <2>8 DEF Next
<1> QED BY <1>1, <1>2, FilesAreKnown, PTL DEF Spec, ImplementsAdmission, Admission!Spec
=============================================================================
