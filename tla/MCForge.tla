------------------------------ MODULE MCForge ------------------------------
(***************************************************************************)
(* Families of specifications, files that replace others, and ballots.     *)
(***************************************************************************)
EXTENDS ToolForge, SequencesExt

MCMinInt == -4

I64(n) == <<"i64", n>>
Flag(b) == <<"bool", b>>
Test(name, arguments, expected) == [name |-> name, arguments |-> arguments, expected |-> expected]
Tool(operation, tests) ==
  [schema |-> "joan.tool-spec.v0", name |-> "tool", tenant |-> "acme", purpose |-> "cost",
   budget |-> 4, operation |-> operation, tests |-> tests]

\* Two specifications that are good, and change places in the middle of a chain.
Sum == Tool("add-i64", <<Test("a", <<I64(1), I64(2)>>, I64(3))>>)
Difference == [Sum EXCEPT !.operation = "subtract-i64", !.tests[1].expected = I64(-1)]

\* Each rule of a specification at both sides of its boundary.
Questionable ==
  {[Sum EXCEPT !.schema = "joan.tool-spec.v1"], [Sum EXCEPT !.name = "Tool"],
   [Sum EXCEPT !.name = "let"], [Sum EXCEPT !.tenant = ""], [Sum EXCEPT !.purpose = "Cost"],
   [Sum EXCEPT !.tests = <<>>], [Sum EXCEPT !.tests[1].name = "A"],
   [Sum EXCEPT !.tests[1].expected = I64(2)], [Sum EXCEPT !.tests[1].expected = Flag(TRUE)],
   [Sum EXCEPT !.tests[1].arguments = <<I64(1)>>],
   [Sum EXCEPT !.tests[1].arguments = <<I64(3), I64(1)>>, !.tests[1].expected = I64(3)],
   [Sum EXCEPT !.tests = @ \o @],
   [Sum EXCEPT !.tests = Append(@, Test("b", <<I64(0), I64(3)>>, I64(3)))],
   [Sum EXCEPT !.tests = @ \o <<Test("b", <<I64(0), I64(3)>>, I64(3)), Test("c", <<I64(0)>>, I64(0))>>]}
    \union {[Sum EXCEPT !.budget = n] : n \in {0, 1, 3, 5, 6}}
    \union {Tool("identity-i64", <<Test("a", <<I64(3)>>, I64(3))>>),
            [Tool("identity-i64", <<Test("a", <<I64(3)>>, I64(3))>>) EXCEPT !.budget = 2],
            Tool("multiply-i64", <<Test("a", <<I64(-2), I64(2)>>, I64(-4))>>),
            Tool("multiply-i64", <<Test("a", <<I64(2), I64(2)>>, I64(3))>>),
            Tool("equal-i64", <<Test("a", <<I64(2), I64(2)>>, Flag(TRUE))>>),
            Tool("and-bool", <<Test("a", <<Flag(TRUE), Flag(FALSE)>>, Flag(FALSE))>>)}
MCSpecs == {Sum, Difference} \union Questionable

Genuine == ForgeTool(Sum)
Resealed(b) == Sealed(b.body)
Altered ==
  LET b == Genuine
      Bodies == {[b EXCEPT !.body.source.edited = TRUE],
                 [b EXCEPT !.body.source.edited = TRUE, !.body.sourceDigest.edited = TRUE],
                 [b EXCEPT !.body.bytecode.operation = "multiply-i64",
                           !.body.bytecodeDigest.operation = "multiply-i64"],
                 [b EXCEPT !.body.bytecode.pure = FALSE, !.body.bytecodeDigest.pure = FALSE],
                 [b EXCEPT !.body.bytecode.sound = FALSE],
                 [b EXCEPT !.body.bytecodeDigest.operation = "multiply-i64", !.body.passes = 1]}
  IN  Bodies \union {Resealed(c) : c \in Bodies}
Bundles == Altered \union {ForgeTool(Difference)}

\* A verification and a finalization that say what nobody derived.
Claimed == [VerifyTool(Sum, ForgeTool(Difference)).body EXCEPT
              !.status = "verified", !.testsPassed = {1}, !.identical = TRUE, !.findings = {}]
Verifications == {Sealed(Claimed), VerifyTool(Difference, ForgeTool(Difference))}
Fabricated(b, v) ==
  Sealed([bundle |-> b.digest, verification |-> v.digest, status |-> "finalized",
          guardian |-> <<[root |-> b.digest, outcome |-> "approved", approvals |-> 3,
                          approvedRoles |-> {"semantic", "test", "policy"}, missingRoles |-> {},
                          denying |-> {}]>>, findings |-> {}])
Finalizations == {Fabricated(b, VerifyTool(Sum, Genuine)) : b \in {Genuine, ForgeTool(Difference)}}
MCReplacement == [spec |-> {Sum, Difference}, bundle |-> Bundles,
                  verification |-> Verifications, finalization |-> Finalizations]

Ballot(g, role, decision) == [guardian |-> g, role |-> role, decision |-> decision]
MCBallots ==
  {Ballot(g, RoleOf(g), "approve") : g \in ToolGuardians}
    \union {Ballot("policy-verifier", "policy", "deny"), Ballot("tool-generator", "policy", "approve")}

MCHeaders == {[ToolPolicy EXCEPT !.proposer = "policy-verifier"],
              [ToolPolicy EXCEPT !.threshold = 1, !.required = {"semantic"}]}

\* One chain is broken; the others run through, with or without a vote.
MCMaxVotes(s) == IF s \in {Sum, Difference} THEN 3 ELSE 1
MCMaxReplacements(s) == IF s = Sum THEN 1 ELSE 0

\* Votes that are fewer than three; all votes, and one of them twice.
MCPresented(votes) ==
  LET all == SetToSeq(votes)
  IN  IF votes = {} THEN {all}
      ELSE {Append(all, all[1])} \union (IF Cardinality(votes) < 3 THEN {all} ELSE {})
=============================================================================
