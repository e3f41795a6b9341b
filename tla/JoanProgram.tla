---------------------------- MODULE JoanProgram ----------------------------
(***************************************************************************)
(* The syntax tree of a JOAN module (joan-ast) and the labels on it, as    *)
(* every later stage sees them.  The language has no loop and no branch: a *)
(* body is a list of statements, and control moves only through calls.     *)
(*                                                                         *)
(* A function, an effect and an authority slot is named by a number, its   *)
(* rank in the lexical order that sorting uses; a local is named by a      *)
(* string.  Records:                                                       *)
(*   program   [flow, functions]                                           *)
(*   function  [name, params, ret, retLabel, effects, slots, body]         *)
(*   slots     absent, or a sequence of [name, effect]                     *)
(*   statement [kind: let, return, request, expression, ...]               *)
(*   value     <<type>> or <<type, datum>>                                 *)
(* What may be absent is a sequence of at most one element.                *)
(***************************************************************************)
EXTENDS Integers, Sequences, SequencesExt

CONSTANTS Main,             \* the function the entry point must have
          MinInt, MaxInt,   \* the integers, in place of the 64-bit range
          MaxFunctions, MaxParameters

ASSUME IntegerAssumption == /\ MinInt \in Int /\ MaxInt \in Int
                            /\ MinInt < 0 /\ 0 < MaxInt

Absent == <<>>
Public == <<"public">>
Secret(tenant, purpose) == <<"secret", tenant, purpose>>
NoLabel == <<>>
Incompatible == <<"incompatible">>

\* An absent label reads as the default, public.
LabelOf(label) == IF label = NoLabel THEN Public ELSE label

CanFlow(source, destination) == source = destination \/ source = Public

\* Faulty form: two secrets combine, and the left one names the result.
JoinToLeft(left, right) == IF left = Public THEN right ELSE left

Join(left, right) ==
  IF left = right \/ right = Public THEN left
  ELSE IF left = Public THEN right
  ELSE Incompatible

UnitValue == <<"unit">>
TypeOf(value) == value[1]

Literal(value) == [kind |-> "literal", value |-> value]
Variable(name) == [kind |-> "variable", name |-> name]
Unary(op, operand) == [kind |-> "unary", op |-> op, operand |-> operand]
Binary(op, left, right) == [kind |-> "binary", op |-> op, left |-> left, right |-> right]
Invoke(callee, arguments) == [kind |-> "call", callee |-> callee, arguments |-> arguments]

Let(name, type, label, value) ==
  [kind |-> "let", name |-> name, type |-> type, label |-> label, value |-> value]
Return(result) == [kind |-> "return", result |-> result]   \* an expression or absent
Request(effect, slot, label, arguments) ==                \* slot: a name or absent
  [kind |-> "request", effect |-> effect, slot |-> slot, label |-> label,
   arguments |-> arguments]
Evaluate(expression) == [kind |-> "expression", value |-> expression]

Arithmetic == {"add", "subtract", "multiply", "divide", "remainder"}
Comparison == {"less", "less_equal", "greater", "greater_equal"}
Equality == {"equal", "not_equal"}
Logic == {"and", "or"}

\* The slots a function declares; the expressions of a statement, in order.
SlotsOf(f) == FlattenSeq(f.slots)
ExpressionsOf(s) ==
  CASE s.kind \in {"let", "expression"} -> <<s.value>>
    [] s.kind = "return" -> s.result
    [] s.kind = "request" -> s.arguments

\* Whether any function or request of the module names an authority slot.
NamesAuthority(functions) ==
  \E f \in ToSet(functions) :
    \/ f.slots # Absent
    \/ \E s \in ToSet(f.body) : s.kind = "request" /\ s.slot # Absent

\* Faulty form: the slots of a function keep the order of the source.
CanonicalUnsorted(program) ==
  [schema |-> IF program.flow THEN "flow"
              ELSE IF NamesAuthority(program.functions) THEN "linear" ELSE "legacy",
   functions |-> SortSeq([i \in DOMAIN program.functions |->
                            [program.functions[i] EXCEPT !.effects = SortSeq(@, <)]],
                         LAMBDA f, g : f.name < g.name)]

\* The canonical tree of a module: functions, effects and slots in order.
Canonical(program) ==
  LET Sorted(f) == [f EXCEPT !.effects = SortSeq(@, <),
                             !.slots = [i \in DOMAIN @ |-> SortSeq(@[i], LAMBDA a, b : a.name < b.name)]]
      Before(f, g) == f.name < g.name
  IN  [schema |-> IF program.flow THEN "flow"
                  ELSE IF NamesAuthority(program.functions) THEN "linear" ELSE "legacy",
       functions |-> SortSeq([i \in DOMAIN program.functions |-> Sorted(program.functions[i])],
                             Before)]

IsFlow(ast) == ast.schema = "flow"
IsLinear(ast) == ast.schema \in {"linear", "flow"}

\* A depth-first visit of every function meets a function it is still visiting
\* exactly when some set of functions calls into itself all along.
HasCycle(vertices, edges) ==
  \E cycle \in (SUBSET vertices) \ {{}} : \A v \in cycle : \E w \in cycle : <<v, w>> \in edges

-----------------------------------------------------------------------------
\* What an operator computes: checked arithmetic of a bounded integer.  The
\* answer is <<>> where the program must stop (overflow, division by zero).
Checked(n) == IF n \in MinInt..MaxInt THEN <<"i64", n>> ELSE <<>>

\* Division truncates toward zero and the remainder has the dividend's sign.
Magnitude(n) == IF n < 0 THEN -n ELSE n
Truncated(a, b) == LET q == Magnitude(a) \div Magnitude(b)
                   IN  IF (a < 0) = (b < 0) THEN q ELSE -q

ArithmeticResult(op, a, b) ==
  CASE op = "add" -> Checked(a + b)
    [] op = "subtract" -> Checked(a - b)
    [] op = "multiply" -> Checked(a * b)
    [] op = "divide" -> IF b = 0 THEN <<>> ELSE Checked(Truncated(a, b))
    [] op = "remainder" -> IF b = 0 \/ Checked(Truncated(a, b)) = <<>> THEN <<>>
                           ELSE <<"i64", a - b * Truncated(a, b)>>

ComparisonResult(op, a, b) ==
  <<"bool", \/ op = "less" /\ a < b
            \/ op = "less_equal" /\ a <= b
            \/ op = "greater" /\ a > b
            \/ op = "greater_equal" /\ a >= b>>

EqualityResult(op, left, right) == <<"bool", (left = right) = (op = "equal")>>
LogicResult(op, a, b) == <<"bool", IF op = "and" THEN a /\ b ELSE a \/ b>>
=============================================================================
