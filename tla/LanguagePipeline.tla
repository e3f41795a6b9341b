-------------------------- MODULE LanguagePipeline --------------------------
(***************************************************************************)
(* From a submission to its receipts.  A source module goes through the    *)
(* checker, the compiler and the verifier; an artifact from elsewhere goes *)
(* through the verifier alone.  What is accepted is handed to the stack    *)
(* machine, and its answers are compared with the meaning of the source    *)
(* and with native code.                                                   *)
(***************************************************************************)
EXTENDS Compiler, NativeCode, StackMachine

CONSTANT Submissions    \* [origin: "source", program] or [origin: "artifact", artifact]

VARIABLES submission, stage

vars == <<submission, stage, artifact, chosen, machine, started>>

Init == /\ submission \in Submissions /\ stage = "submitted"
        /\ MachineInit

Settle(verdict, a) ==
  /\ stage' = verdict
  /\ artifact' = IF verdict = "verified" THEN a ELSE Nothing
  /\ UNCHANGED <<submission, chosen, machine, started>>

CompileSource ==
  /\ stage = "submitted" /\ submission.origin = "source"
  /\ LET compiled == CompileProgram(submission.program)
     IN  IF Accepted(submission.program) THEN Settle(Verdict(compiled), compiled)
         ELSE Settle("check", Nothing)

LoadArtifact ==
  /\ stage = "submitted" /\ submission.origin = "artifact"
  /\ Settle(Verdict(submission.artifact), submission.artifact)

ExecuteAccepted == Execute /\ UNCHANGED <<submission, stage>>
InstructAccepted == Instruct /\ UNCHANGED <<submission, stage>>

Next == CompileSource \/ LoadArtifact \/ ExecuteAccepted \/ InstructAccepted

Spec == Init /\ [][Next]_vars

-----------------------------------------------------------------------------
\* The meaning of a source program, read off its tree: the reference against
\* which compiled executions are judged.  It has no stack, slots or code.
Outcome(value, requests, fault) == [value |-> value, requests |-> requests, fault |-> fault]

\* The values so far and the next one; a fault ends the list.
Extended(sofar, next) ==
  IF sofar.fault # "none" THEN sofar
  ELSE Outcome(Append(sofar.value, next.value), sofar.requests \o next.requests, next.fault)

Computed(operands, answer) ==
  IF answer[1] = "fault" THEN Outcome(<<>>, operands.requests, answer[2])
  ELSE Outcome(answer, operands.requests, "none")
Returned(operands, body) == Outcome(body.value, operands.requests \o body.requests, body.fault)

\* A statement, given the values of its expressions.
Performed(f, state, s, given) ==
  LET asked == [function |-> f.name, effect |-> s.effect, slot |-> s.slot, label |-> s.label,
                arguments |-> given.value]
      after == [state EXCEPT !.requests = @ \o given.requests, !.fault = given.fault]
  IN  IF given.fault # "none" THEN after
      ELSE CASE s.kind = "let" ->
                  [after EXCEPT !.locals = [n \in DOMAIN @ \union {s.name} |->
                                              IF n = s.name THEN given.value[1] ELSE @[n]]]
             [] s.kind = "return" ->
                  [after EXCEPT !.value = IF s.result = Absent THEN UnitValue ELSE given.value[1]]
             [] s.kind = "request" -> [after EXCEPT !.requests = Append(@, asked)]
             [] s.kind = "expression" -> after

Opening(f, arguments) ==
  [locals |-> [n \in {x.name : x \in ToSet(f.params)} |->
                 arguments[CHOOSE i \in DOMAIN f.params : f.params[i].name = n]],
   value |-> UnitValue, requests |-> <<>>, fault |-> "none"]

RECURSIVE Value(_, _, _), Applied(_, _, _), BodyMeaning(_, _, _)
Values(p, locals, expressions) ==
  FoldLeft(LAMBDA sofar, e : Extended(sofar, IF sofar.fault # "none" THEN sofar ELSE Value(p, locals, e)),
           Outcome(<<>>, <<>>, "none"), expressions)

Value(p, locals, e) ==
  CASE e.kind = "literal" -> Outcome(e.value, <<>>, "none")
    [] e.kind = "variable" -> Outcome(locals[e.name], <<>>, "none")
    [] OTHER -> Applied(p, e, Values(p, locals, ChildrenOf(e)))

Applied(p, e, operands) ==
  IF operands.fault # "none" THEN operands
  ELSE IF e.kind = "call"
  THEN Returned(operands, BodyMeaning(p, SignatureOf(p, e.callee), operands.value))
  ELSE Computed(operands, Compute(e.op, operands.value))

BodyMeaning(p, f, arguments) ==
  FoldLeft(LAMBDA state, s : IF state.fault # "none" THEN state
                             ELSE Performed(f, state, s, Values(p, state.locals, ExpressionsOf(s))),
           Opening(f, arguments), f.body)

-----------------------------------------------------------------------------
\* The requests of an execution without the position the machine gives them.
Asked(m) == [i \in DOMAIN m.requests |->
               [function |-> m.requests[i].function, effect |-> m.requests[i].effect,
                slot |-> m.requests[i].slot, label |-> m.requests[i].label,
                arguments |-> m.requests[i].arguments]]

Ended(r) == Started /\ ~Running(machine[r])

\* What an execution of verified code computes, asks of the host and fails with
\* is what the source says, unless the budget ends it; then it has asked for a
\* prefix of that.
CompiledMeaning ==
  \A r \in Runs : Ended(r) =>
    LET p == FromCanonical(artifact.ast)
        f == p.functions[chosen.function]
        meaning == BodyMeaning(p, f, chosen.arguments[r])
    IN  CASE machine[r].status = "completed" ->
               /\ meaning.fault = "none" /\ machine[r].result = meaning.value
               /\ Asked(machine[r]) = meaning.requests
          [] machine[r].status = "budget" -> IsPrefix(Asked(machine[r]), meaning.requests)
          [] OTHER -> machine[r].status = meaning.fault /\ Asked(machine[r]) = meaning.requests

\* Native code answers what the machine answers: status, value and fuel.
NativeAgrees ==
  \A r \in Runs : Ended(r) /\ NativeSubset(artifact) =>
    LET native == NativeInvoke(artifact, chosen.function, chosen.arguments[r], chosen.budget)
    IN  /\ native.status = machine[r].status
        /\ native.status = "completed" => /\ native.result = machine[r].result
                                          /\ native.executed = machine[r].executed

\* Nothing is executed whose code is not sound and within its limits: what the
\* pipeline does to the machine is what StackMachine allows.
ImplementsMachine == MachineSpec

\* A source module the checker accepts is refused later only for its size.
OnlySizeRefusesCheckedSource ==
  submission.origin = "source" => stage \in {"submitted", "check", "limit", "verified"}

\* The checker on the tree and the verifier on the code it compiles to are two
\* statements of the same rules: where the module can be lowered at all, neither
\* accepts what the other refuses; the checker alone counts statements.
SizeCodes == {"J2001", "J2002", "J2005"}
Lowered(p) == /\ Diagnostics(p) \cap {"J2004", "J2010", "J2021", "J2023", "J2025", "J2027", "J2030",
                                      "J2032", "J2050"} = {}
              /\ CanonicalShape(Canonical(p))
CheckersAgree ==
  (submission.origin = "source" /\ stage # "submitted" /\ Lowered(submission.program)) =>
    LET code == CompileProgram(submission.program)
    IN  StructureSound(code) <=> Diagnostics(submission.program) \subseteq SizeCodes
=============================================================================
