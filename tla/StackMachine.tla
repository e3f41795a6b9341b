---------------------------- MODULE StackMachine ----------------------------
(***************************************************************************)
(* The virtual machine (joan-compiler) on an artifact whose code has been  *)
(* verified.  It runs one instruction at a time; a call opens a frame, a   *)
(* return closes it.  It still checks at run time what the verifier has    *)
(* shown, and stops with the name of the fault:                            *)
(*   underflow, type, frame, target, arity, depth, unbound, no_return      *)
(*                          a fault the verifier should have excluded      *)
(*   budget, <operator>     the budget ran out, or arithmetic failed       *)
(*                                                                         *)
(* A function is executed twice, side by side, on arguments that an        *)
(* observer of a chosen label cannot tell apart.  started is a history     *)
(* variable: how often each function has been entered in each execution.   *)
(***************************************************************************)
EXTENDS Bytecode

CONSTANTS MaxCallDepth,
          Observers,        \* labels
          TestIntegers, TestStrings,   \* arguments of type i64 and string
          Budgets

\* A chain of calls of distinct functions fits: both limits are 1024 in the code.
ASSUME DepthAssumption == /\ MaxFunctions \in Nat /\ MaxCallDepth \in Nat
                          /\ MaxFunctions <= MaxCallDepth
ASSUME ArgumentsAssumption == /\ TestIntegers \subseteq MinInt..MaxInt /\ TestStrings \subseteq STRING
                              /\ Budgets \subseteq Nat

VARIABLES artifact, chosen, machine, started

machineVars == <<artifact, chosen, machine, started>>

Runs == {1, 2}
Nothing == [none |-> TRUE]

-----------------------------------------------------------------------------
\* One execution.  requests is what the host is asked to do, never done here.
ArgumentsFit(f, arguments) ==
  /\ Len(arguments) = Len(f.params)
  /\ \A i \in DOMAIN arguments : TypeOf(arguments[i]) = f.params[i]

Frame(f, i, arguments) ==
  [function |-> i, pc |-> 1, stack |-> <<>>,
   locals |-> [k \in DOMAIN f.locals |-> IF k <= Len(arguments) THEN arguments[k] ELSE UnitValue]]

Machine(a, i, arguments, budget) ==
  [frames |-> <<Frame(a.functions[i], i, arguments)>>, remaining |-> budget, executed |-> 0,
   requests |-> <<>>, status |-> "running", result |-> UnitValue]

Halt(m, status) == [m EXCEPT !.status = status, !.frames = <<>>]

Running(m) == m.status = "running"
Active(m) == m.frames[Len(m.frames)]
Current(a, m) == a.functions[Active(m).function].code[Active(m).pc]

\* The budget is charged before an instruction runs.
Paid(m) == [m EXCEPT !.remaining = @ - 1, !.executed = @ + 1]

\* The machine whose active frame is this one; the frame after an instruction
\* that leaves this stack; and both at once.
Activate(m, frame) == [m EXCEPT !.frames = [@ EXCEPT ![Len(@)] = frame]]
Onward(frame, stack) == [frame EXCEPT !.stack = stack, !.pc = @ + 1]
Leave(m, stack) == Activate(m, Onward(Active(m), stack))

Take(stack, n) == SubSeq(stack, 1, Len(stack) - n)

\* Faulty form: the operands come off the stack in reverse.
GivenReversed(stack, n) == Reverse(SubSeq(stack, Len(stack) - n + 1, Len(stack)))

Given(stack, n) == SubSeq(stack, Len(stack) - n + 1, Len(stack))

\* The value an operator leaves for its operands, or the fault it stops with.
Compute(op, operands) ==
  LET All(type) == \A v \in ToSet(operands) : TypeOf(v) = type
      a == operands[1][2]
      b == operands[2][2]
      Number(answer) == IF answer = <<>> THEN <<"fault", op>> ELSE answer
  IN  IF op \in Equality THEN EqualityResult(op, operands[1], operands[2])
      ELSE IF ~All(IF op \in Logic \union {"not"} THEN "bool" ELSE "i64") THEN <<"fault", "type">>
      ELSE IF op \in Arithmetic THEN Number(ArithmeticResult(op, a, b))
      ELSE IF op \in Comparison THEN ComparisonResult(op, a, b)
      ELSE IF op \in Logic THEN LogicResult(op, a, b)
      ELSE IF op = "negate" THEN Number(Checked(-a))
      ELSE <<"bool", ~a>>

RunOperator(m, op) ==
  LET count == IF op \in {"negate", "not"} THEN 1 ELSE 2
      stack == Active(m).stack
      answer == Compute(op, Given(stack, count))
  IN  IF Len(stack) < count THEN Halt(m, "underflow")
      ELSE IF answer[1] = "fault" THEN Halt(m, answer[2])
      ELSE Leave(m, Append(Take(stack, count), answer))

RunStore(m, i) ==
  LET stack == Active(m).stack
      kept == [Active(m) EXCEPT !.locals[i.slot] = Given(stack, 1)[1]]
  IN  IF stack = <<>> THEN Halt(m, "underflow")
      ELSE IF i.slot \notin DOMAIN Active(m).locals THEN Halt(m, "frame")
      ELSE Activate(m, Onward(kept, Take(stack, 1)))

\* Faulty form: the depth limit is met one frame early.
RunCallShallow(a, m, i) ==
  LET stack == Active(m).stack
  IN  IF Len(m.frames) + 1 >= MaxCallDepth THEN Halt(m, "depth")
      ELSE [Leave(m, Take(stack, i.count)) EXCEPT !.frames =
              Append(@, Frame(a.functions[i.callee], i.callee, Given(stack, i.count)))]

RunCall(a, m, i) ==
  LET stack == Active(m).stack
      after == Leave(m, Take(stack, i.count))
  IN  IF Len(stack) < i.count THEN Halt(m, "underflow")
      ELSE IF Len(m.frames) >= MaxCallDepth THEN Halt(m, "depth")
      ELSE IF i.callee \notin DOMAIN a.functions THEN Halt(m, "target")
      ELSE IF i.count # Len(a.functions[i.callee].params) THEN Halt(m, "arity")
      ELSE [after EXCEPT !.frames =
              Append(@, Frame(a.functions[i.callee], i.callee, Given(stack, i.count)))]

Recorded(a, m, i) ==
  [index |-> Len(m.requests), function |-> a.functions[Active(m).function].name,
   effect |-> i.effect, slot |-> i.slot, label |-> i.label,
   arguments |-> Given(Active(m).stack, i.count)]

\* Faulty form: a request is recorded and then met again.
RunRequestAgain(a, m, i) ==
  [m EXCEPT !.requests = Append(@, Recorded(a, m, i))]

\* Whether a request lacks the slot or the label its module asks for.
Unbound(a, i) == \/ IsLinear(a.ast) /\ i.slot = Absent
                 \/ IsFlow(a.ast) /\ i.label = NoLabel

RunRequest(a, m, i) ==
  LET stack == Active(m).stack
  IN  IF Len(stack) < i.count THEN Halt(m, "underflow")
      ELSE IF Unbound(a, i) THEN Halt(m, "unbound")
      ELSE [Leave(m, Take(stack, i.count)) EXCEPT !.requests = Append(@, Recorded(a, m, i))]

RunReturn(m) ==
  LET stack == Active(m).stack
      callers == SubSeq(m.frames, 1, Len(m.frames) - 1)
      value == Given(stack, 1)[1]
  IN  IF stack = <<>> THEN Halt(m, "underflow")
      ELSE IF callers = <<>> THEN [Halt(m, "completed") EXCEPT !.result = value]
      ELSE [m EXCEPT !.frames = [callers EXCEPT ![Len(callers)].stack = Append(@, value)]]

\* One instruction.
RunInstruction(a, m) ==
  LET i == Current(a, m)
      paid == Paid(m)
      stack == Active(m).stack
  IN  IF Active(m).pc > Len(a.functions[Active(m).function].code) THEN Halt(m, "no_return")
      ELSE IF m.remaining = 0 THEN Halt(m, "budget")
      ELSE CASE i.op = "push" -> Leave(paid, Append(stack, i.value))
             [] i.op = "load" -> IF i.slot \notin DOMAIN Active(m).locals THEN Halt(paid, "frame")
                                 ELSE Leave(paid, Append(stack, Active(m).locals[i.slot]))
             [] i.op = "store" -> RunStore(paid, i)
             [] i.op = "pop" -> IF stack = <<>> THEN Halt(paid, "underflow")
                                ELSE Leave(paid, Take(stack, 1))
             [] i.op = "call" -> RunCall(a, paid, i)
             [] i.op = "request" -> RunRequest(a, paid, i)
             [] i.op = "return" -> RunReturn(paid)
             [] OTHER -> RunOperator(paid, i.op)

-----------------------------------------------------------------------------
\* Two executions of one function.
MachineInit ==
  /\ artifact = Nothing /\ chosen = Nothing
  /\ machine = [r \in Runs |-> Nothing]
  /\ started = [r \in Runs |-> <<>>]

\* Only code that is sound and within its limits is accepted.
Accept ==
  /\ artifact = Nothing /\ artifact' # Nothing
  /\ IsDecoded(artifact') /\ StructureSound(artifact') /\ StructureLimits(artifact')
  /\ UNCHANGED <<chosen, machine, started>>

ArgumentValues == ({"i64"} \X TestIntegers) \union ({"bool"} \X BOOLEAN)
                    \union ({"string"} \X TestStrings)

ArgumentsOf(f) == {given \in [DOMAIN f.params -> ArgumentValues] : ArgumentsFit(f, given)}

ParameterLabel(f, i) == IF f.paramLabels = Absent THEN Public ELSE f.paramLabels[1][i]
Alike(f, left, right, observer) ==
  \A i \in DOMAIN left : CanFlow(ParameterLabel(f, i), observer) => left[i] = right[i]

\* A function of the accepted artifact is executed by name under a budget.
Begin(k, observer, budget, first, second) ==
  /\ Alike(artifact.functions[k], first, second, observer)
  /\ chosen' = [function |-> k, observer |-> observer, budget |-> budget,
                arguments |-> <<first, second>>]
  /\ machine' = [r \in Runs |-> Machine(artifact, k, <<first, second>>[r], budget)]
  /\ started' = [r \in Runs |-> [n \in DOMAIN artifact.functions |-> IF n = k THEN 1 ELSE 0]]

Execute ==
  /\ artifact # Nothing /\ chosen = Nothing
  /\ \E k \in DOMAIN artifact.functions, observer \in Observers, budget \in Budgets \ {0} :
       \E first, second \in ArgumentsOf(artifact.functions[k]) : Begin(k, observer, budget, first, second)
  /\ UNCHANGED artifact

\* Each execution that is running runs one instruction.
Advanced(a, m) == IF Running(m) THEN RunInstruction(a, m) ELSE m
Entries(entered, m, next) ==
  IF Len(next.frames) > Len(m.frames) THEN [entered EXCEPT ![Active(next).function] = @ + 1]
  ELSE entered

Instruct ==
  /\ chosen # Nothing /\ \E r \in Runs : Running(machine[r])
  /\ machine' = [r \in Runs |-> Advanced(artifact, machine[r])]
  /\ started' = [r \in Runs |-> Entries(started[r], machine[r], machine'[r])]
  /\ UNCHANGED <<artifact, chosen>>

MachineNext == Accept \/ Execute \/ Instruct

MachineSpec == MachineInit /\ [][MachineNext]_machineVars

-----------------------------------------------------------------------------
Started == chosen # Nothing

\* Verified code never meets a fault the verifier is there to exclude: no
\* underflow, no wrong type, no unknown local or function, no request without
\* its slot or label, no missing return, and no chain of calls deeper than the
\* machine allows.
Excluded == {"underflow", "type", "frame", "target", "arity", "depth", "unbound", "no_return"}
VerifiedNeverStuck == \A r \in Runs : Started => machine[r].status \notin Excluded

\* How often a function has moved a slot.
Moved(m, function, slot) ==
  Cardinality({i \in DOMAIN m.requests : /\ m.requests[i].function = function
                                         /\ m.requests[i].slot = <<slot>>})

\* An authority slot is moved at most once per entry of the function that
\* declares it, exactly once when the execution completes, and every effect
\* asked for stands in the effect row of the function that was executed.
SlotsAreLinear ==
  \A r \in Runs : Started /\ IsLinear(artifact.ast) =>
    /\ \A k \in DOMAIN artifact.functions :
         \A slot \in ToSet(SlotsOf(artifact.functions[k])) :
           LET moved == Moved(machine[r], artifact.functions[k].name, slot.name)
           IN  /\ moved <= started[r][k]
               /\ machine[r].status = "completed" => moved = started[r][k]
    /\ \A q \in ToSet(machine[r].requests) :
         q.effect \in ToSet(artifact.functions[chosen.function].effects)

\* The requests an observer sees, at their positions.
Seen(m, observer) ==
  [i \in {n \in DOMAIN m.requests : CanFlow(LabelOf(m.requests[n].label), observer)} |->
     m.requests[i]]

\* Two completed executions whose arguments an observer cannot tell apart show
\* that observer the same requests and, where the result is for them, the same
\* result; and they run the same number of instructions whatever the secrets.
NoSecretIsObserved ==
  (Started /\ \A r \in Runs : machine[r].status = "completed") =>
    LET f == artifact.functions[chosen.function]
    IN  /\ Seen(machine[1], chosen.observer) = Seen(machine[2], chosen.observer)
        /\ CanFlow(LabelOf(f.retLabel), chosen.observer) => machine[1].result = machine[2].result
        /\ machine[1].executed = machine[2].executed
=============================================================================
