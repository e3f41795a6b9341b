------------------------------ MODULE ToolForge ------------------------------
(***************************************************************************)
(* Generated tools (joan-tool-forge): from a specification to a bundle of  *)
(* source and bytecode, its verification, its finalization under guardian  *)
(* votes, and the promotion decision.  Each stage is a separate call of    *)
(* the program on files, and any file may have been replaced in between.   *)
(*                                                                         *)
(* A sealed artifact is [body, digest]; the digest of a body is the body   *)
(* itself.  Bytecode is [name, operation, pure, sound]: whether no effect  *)
(* stands in it, and the verdict of the verifier (BytecodeVerifier).       *)
(***************************************************************************)
EXTENDS Guardian, Integers

CONSTANTS
  Identifiers,      \* the words validate_identifier accepts
  Keywords,         \* those of them that the parser reads as keywords
  MaxBudget, MaxTests,
  MinInt, MaxInt,   \* the integers, in place of the 64-bit range
  Specs,            \* what may stand in the specification file
  Replacement,      \* [spec, bundle, verification, finalization]: what a file may become
  Ballots,          \* [guardian, role, decision] a guardian may cast
  Headers,          \* [schema, proposer, required, threshold] of candidates
                    \* besides the policy of tools
  Presented(_),     \* the sequences in which votes that were cast are presented
                    \* besides any three of them
  MaxVotes(_), MaxReplacements(_)   \* bounds, by what the specification file holds

ASSUME KeywordAssumption == Keywords \subseteq Identifiers
ASSUME BoundAssumption == MaxBudget \in Nat /\ MaxTests \in Nat
ASSUME ReplacementAssumption == Replacement.spec \subseteq Specs
ASSUME SpecsAssumption ==
  \A s \in Specs :
    s.budget \in Nat /\ Len(s.tests) \in Nat /\ DOMAIN s.tests = 1..Len(s.tests)

Sealed(body) == [body |-> body, digest |-> body]
Nothing == Sealed([none |-> TRUE])
Finding(code, condition) == IF condition THEN {<<code>>} ELSE {}

-----------------------------------------------------------------------------
\* The operations, the kinds of their arguments and result, and their code.
Operations == {"identity-i64", "add-i64", "subtract-i64", "multiply-i64", "equal-i64", "and-bool"}
Contract(operation) ==
  [arguments |-> CASE operation = "identity-i64" -> <<"i64">>
                   [] operation = "and-bool" -> <<"bool", "bool">>
                   [] OTHER -> <<"i64", "i64">>,
   result |-> IF operation \in {"equal-i64", "and-bool"} THEN "bool" ELSE "i64"]

Kinds(values) == [n \in DOMAIN values |-> values[n][1]]
Fits(operation, test) ==
  /\ Kinds(test.arguments) = Contract(operation).arguments
  /\ test.expected[1] = Contract(operation).result

\* What the code of an operation leaves; "fault" when the integers do not hold it.
Checked(n) == IF n \in MinInt..MaxInt THEN <<"i64", n>> ELSE <<"fault">>
Result(operation, arguments) ==
  LET a == arguments[1][2]
      b == arguments[2][2]
  IN  CASE operation = "identity-i64" -> arguments[1]
        [] operation = "add-i64" -> Checked(a + b)
        [] operation = "subtract-i64" -> Checked(a - b)
        [] operation = "multiply-i64" -> Checked(a * b)
        [] operation = "equal-i64" -> <<"bool", a = b>>
        [] operation = "and-bool" -> <<"bool", a /\ b>>

\* One instruction loads each argument, one computes, one returns.
Cost(operation) == IF operation = "identity-i64" THEN 2 ELSE 4

\* An execution of the function "run" of the code under a budget.
RunTool(bytecode, arguments, budget) ==
  IF /\ Kinds(arguments) = Contract(bytecode.operation).arguments
     /\ budget >= Cost(bytecode.operation)
  THEN Result(bytecode.operation, arguments)
  ELSE <<"fault">>

-----------------------------------------------------------------------------
\* The static rules of a specification; of too long a list of tests only the
\* first ones are looked at.
SpecFindings(s) ==
  LET seen == {n \in DOMAIN s.tests : n <= MaxTests}
  IN  Finding("TF0001", s.schema # "joan.tool-spec.v0")
        \union Finding("TF0002", s.name \notin Identifiers)
        \union Finding("TF0003", s.tenant \notin Identifiers)
        \union Finding("TF0004", s.purpose \notin Identifiers)
        \union Finding("TF0005", s.budget \notin 1..MaxBudget)
        \union Finding("TF0006", Len(s.tests) \notin 1..MaxTests)
        \union Finding("TF0007", \E n \in seen : s.tests[n].name \notin Identifiers)
        \union Finding("TF0008", \E m, n \in seen : m # n /\ s.tests[m].name = s.tests[n].name)
        \union Finding("TF0009", \E n \in seen : ~Fits(s.operation, s.tests[n]))

\* A name that passes the static rules and is a keyword does not compile.
Forgeable(s) == SpecFindings(s) = {} /\ s.name \notin Keywords

\* Generation has no other input than the specification: three passes agree.
ForgeTool(s) ==
  LET source == [name |-> s.name, operation |-> s.operation, edited |-> FALSE]
      bytecode == [name |-> s.name, operation |-> s.operation, pure |-> TRUE, sound |-> TRUE]
  IN  Sealed([schema |-> "joan.tool-bundle.v0", spec |-> s,
              source |-> source, sourceDigest |-> source,
              bytecode |-> bytecode, bytecodeDigest |-> bytecode, passes |-> 3])

-----------------------------------------------------------------------------
\* Verification, before and after the tests are executed.
\* Faulty form: the source is not compared, for only the bytecode is executed.
CompilesToTheSame(s, b) == Forgeable(s) /\ ForgeTool(s).body.bytecode = b.body.bytecode

Regenerates(s, b) == Forgeable(s) /\ ForgeTool(s) = b
StaticFindings(s, b) ==
  SpecFindings(s)
    \union Finding("TF1001", b.body.schema # "joan.tool-bundle.v0")
    \union Finding("TF1002", b.body.spec # s)
    \union Finding("TF1003", b.body.sourceDigest # b.body.source)
    \union Finding("TF1004", b.digest # b.body)
    \union Finding("TF1005", b.body.passes # 3)
    \union Finding("TF1006", b.body.bytecode.sound /\ b.body.bytecodeDigest # b.body.bytecode)
    \union Finding("TF1007", ~b.body.bytecode.sound)
    \union Finding("TF1008", ~b.body.bytecode.pure)
    \union Finding("TF1009", ~Forgeable(s))
    \union Finding("TF1010", ~Regenerates(s, b))

VerifyTool(s, b) ==
  LET static == StaticFindings(s, b)
      Answer(n) == RunTool(b.body.bytecode, s.tests[n].arguments, s.budget)
      executed == IF static = {} THEN DOMAIN s.tests ELSE {}
      passed == {n \in executed : Answer(n) = s.tests[n].expected}
      findings == static
                    \union {<<"TF1011", s.tests[n].name>> :
                              n \in {m \in executed \ passed : Answer(m) # <<"fault">>}}
                    \union {<<"TF1012", s.tests[n].name>> :
                              n \in {m \in executed : Answer(m) = <<"fault">>}}
  IN  Sealed([spec |-> s, bundle |-> b.digest,
              status |-> IF findings = {} /\ passed = DOMAIN s.tests THEN "verified" ELSE "rejected",
              testsPassed |-> passed, identical |-> Regenerates(s, b), findings |-> findings])

-----------------------------------------------------------------------------
\* The guardians of a tool and their roles; the policy of a tool candidate.
ToolGuardians == {"semantic-verifier", "test-verifier", "policy-verifier"}
RoleOf(guardian) ==
  CASE guardian = "semantic-verifier" -> "semantic"
    [] guardian = "test-verifier" -> "test"
    [] guardian = "policy-verifier" -> "policy"

\* Faulty form: three votes of the three roles will do, whoever casts them.
MatchesToolPolicyByRole(b, c) ==
  /\ c.schema = CandidateSchema /\ c.root = b.digest /\ c.proposer = "tool-generator"
  /\ c.required = {"semantic", "test", "policy"} /\ c.threshold = 3
  /\ {c.votes[n].role : n \in DOMAIN c.votes} = {"semantic", "test", "policy"}

MatchesToolPolicy(b, c) ==
  /\ c.schema = CandidateSchema
  /\ c.root = b.digest
  /\ c.proposer = "tool-generator"
  /\ c.required = {"semantic", "test", "policy"}
  /\ c.threshold = 3
  /\ Len(c.votes) = 3
  /\ {c.votes[n].guardian : n \in DOMAIN c.votes} = ToolGuardians
  /\ \A n \in DOMAIN c.votes :
       /\ c.votes[n].role = RoleOf(c.votes[n].guardian)
       /\ c.votes[n].root = b.digest
       /\ c.votes[n].evidence \in {<<b.body.sourceDigest, b.body.bytecodeDigest>>,
                                   <<b.body.bytecodeDigest, b.body.sourceDigest>>}

\* What is wrong before the guardian evaluates anything.
ChainFindings(s, b, v, c) ==
  LET expected == VerifyTool(s, b)
  IN  Finding("TF2001", b.digest # b.body)
        \union Finding("TF2002", v # expected \/ expected.body.status # "verified")
        \union Finding("TF2003", c.root # b.digest)
        \union Finding("TF2006", ~MatchesToolPolicy(b, c))

FinalizeTool(s, b, v, c) ==
  LET chain == ChainFindings(s, b, v, c)
      evaluated == chain = {} /\ ~Malformed(c)
      receipt == EvaluateCandidate(c)
      findings == chain
                    \union Finding("TF2004", evaluated /\ receipt.outcome # "approved")
                    \union Finding("TF2005", chain = {} /\ Malformed(c))
  IN  Sealed([bundle |-> b.digest, verification |-> v.digest,
              status |-> IF findings = {} THEN "finalized" ELSE "quarantined",
              guardian |-> IF evaluated THEN <<receipt>> ELSE <<>>, findings |-> findings])

\* Faulty form: the finalization is taken at its word.
PromotableOnTrust(s, b, v, c, f) == f.body.status = "finalized" /\ f.body.bundle = b.digest

Promotable(s, b, v, c, f) ==
  /\ f = FinalizeTool(s, b, v, c)
  /\ f.body.status = "finalized" /\ f.body.findings = {}
  /\ f.body.guardian # <<>> /\ f.body.guardian[1].outcome = "approved"

-----------------------------------------------------------------------------
VARIABLES
  spec, bundle, verification, finalization,   \* the files
  cast,          \* the votes guardians have cast
  eligible,      \* pairs of a specification and a tool found eligible
  replacements   \* how often a file was replaced by something else

files == <<spec, bundle, verification, finalization>>
vars == <<spec, bundle, verification, finalization, cast, eligible, replacements>>

Init ==
  /\ spec \in Specs
  /\ bundle = Nothing /\ verification = Nothing /\ finalization = Nothing
  /\ cast = {} /\ eligible = {} /\ replacements = 0

Forge ==
  /\ Forgeable(spec)
  /\ bundle' = ForgeTool(spec)
  /\ UNCHANGED <<spec, verification, finalization, cast, eligible, replacements>>

Verify ==
  /\ bundle # Nothing
  /\ verification' = VerifyTool(spec, bundle)
  /\ UNCHANGED <<spec, bundle, finalization, cast, eligible, replacements>>

\* A guardian votes on the bundle as it stands; once for each root.
Vote ==
  /\ bundle # Nothing /\ Cardinality(cast) < MaxVotes(spec)
  /\ \E ballot \in Ballots :
       LET vote == [guardian |-> ballot.guardian, role |-> ballot.role,
                    decision |-> ballot.decision, root |-> bundle.digest,
                    evidence |-> <<bundle.body.sourceDigest, bundle.body.bytecodeDigest>>]
       IN  /\ \A v \in cast : v.guardian = vote.guardian => v.root # vote.root
           /\ cast' = cast \union {vote}
  /\ UNCHANGED <<files, eligible, replacements>>

\* Nobody presents a vote that was not cast.
ToolPolicy == [schema |-> CandidateSchema, proposer |-> "tool-generator",
               required |-> {"semantic", "test", "policy"}, threshold |-> 3]
Threes(votes) ==
  {t \in votes \X votes \X votes : t[1] # t[2] /\ t[1] # t[3] /\ t[2] # t[3]}
CandidateOf(h, votes, root) ==
  [schema |-> h.schema, root |-> root, proposer |-> h.proposer, required |-> h.required,
   threshold |-> h.threshold, votes |-> votes]
Candidates ==
  {CandidateOf(h, votes, root) :
     h \in Headers \union {ToolPolicy},
     votes \in (Presented(cast) \cap Seq(cast)) \union Threes(cast),
     root \in {bundle.digest} \union {v.root : v \in cast}}

Finalize ==
  /\ bundle # Nothing /\ verification # Nothing
  /\ finalization' \in {FinalizeTool(spec, bundle, verification, c) : c \in Candidates}
  /\ UNCHANGED <<spec, bundle, verification, cast, eligible, replacements>>

Promote ==
  /\ bundle # Nothing /\ finalization # Nothing
  /\ {c \in Candidates : Promotable(spec, bundle, verification, c, finalization)} # {}
  /\ eligible' = eligible \union {<<spec, bundle.digest>>}
  /\ UNCHANGED <<files, cast, replacements>>

\* A file is replaced: by an older product, by one of another specification, or
\* by something altered.
Replace ==
  /\ replacements < MaxReplacements(spec)
  /\ replacements' = replacements + 1
  /\ \/ spec' \in Replacement.spec \ {spec} /\ UNCHANGED <<bundle, verification, finalization>>
     \/ bundle' \in Replacement.bundle \ {bundle} /\ UNCHANGED <<spec, verification, finalization>>
     \/ verification' \in Replacement.verification \ {verification} /\ UNCHANGED <<spec, bundle, finalization>>
     \/ finalization' \in Replacement.finalization \ {finalization} /\ UNCHANGED <<spec, bundle, verification>>
  /\ UNCHANGED <<cast, eligible>>

Next == Forge \/ Verify \/ Vote \/ Finalize \/ Promote \/ Replace

Spec == Init /\ [][Next]_vars

-----------------------------------------------------------------------------
\* What a specification asks of a tool, told without its code: the names are
\* words of the language, the tests are there and typed, the budget suffices and
\* the operation gives every answer that is expected.
Sensible(s) ==
  /\ s.schema = "joan.tool-spec.v0"
  /\ {s.name, s.tenant, s.purpose} \subseteq Identifiers
  /\ s.name \notin Keywords
  /\ DOMAIN s.tests # {} /\ Len(s.tests) <= MaxTests
  /\ Cost(s.operation) <= s.budget /\ s.budget <= MaxBudget
  /\ \A n \in DOMAIN s.tests :
       /\ s.tests[n].name \in Identifiers
       /\ \A m \in DOMAIN s.tests : s.tests[m].name = s.tests[n].name => m = n
       /\ Fits(s.operation, s.tests[n])
       /\ Result(s.operation, s.tests[n].arguments) = s.tests[n].expected

Meets(s, root) == Sensible(s) /\ root = ForgeTool(s).digest

\* Verification answers "verified" for the tool of a sensible specification and
\* for nothing else, whatever stands in the two files.
VerificationIsExact ==
  bundle # Nothing =>
    (VerifyTool(spec, bundle).body.status = "verified"
       <=> Sensible(spec) /\ bundle = ForgeTool(spec))

\* The policy of tools and the guardian gate are two rules in two crates: what
\* the policy lets through, the gate never finds malformed.
PolicyIsWellFormed ==
  \A c \in Candidates : MatchesToolPolicy(bundle, c) => ~Malformed(c)

\* Closed to everything else is not closed to all: the unaltered tool of a
\* sensible specification can be promoted once its three guardians have
\* approved it on the evidence of the unaltered tool.
ApprovedToolIsPromotable ==
  LET v == VerifyTool(spec, bundle)
      ready == /\ Sensible(spec) /\ bundle = ForgeTool(spec)
               /\ \A g \in ToolGuardians :
                    \E w \in cast : /\ w.guardian = g /\ w.role = RoleOf(g)
                                    /\ w.decision = "approve" /\ w.root = bundle.digest
                                    /\ w.evidence = <<bundle.body.sourceDigest, bundle.body.bytecodeDigest>>
  IN  ready => \E c \in Candidates :
                 Promotable(spec, bundle, v, c, FinalizeTool(spec, bundle, v, c))

\* A promotion is an admission: the whole chain is what it was for this very
\* tool, whatever files were replaced on the way.
Admission == INSTANCE ToolAdmission
  WITH Specifications <- Specs,
       Tools <- {b.digest : b \in Replacement.bundle \union {ForgeTool(s) : s \in Specs}},
       GuardianNames <- ToolGuardians,
       approved <- {<<v.guardian, v.root>> :
                      v \in {w \in cast : w.decision = "approve" /\ w.guardian \in ToolGuardians}},
       admitted <- eligible
ImplementsAdmission == Admission!Spec
=============================================================================
