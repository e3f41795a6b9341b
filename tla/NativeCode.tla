----------------------------- MODULE NativeCode -----------------------------
(***************************************************************************)
(* The native back end (joan-native).  It takes only verified, pure,       *)
(* string-free legacy code.  A value is one machine word: a boolean is 0   *)
(* or 1 and unit is 0, and no operator looks at a type.  The fuel word is  *)
(* shared by all functions of an invocation and is charged before every    *)
(* instruction; the first failing status is passed up through the calls.   *)
(***************************************************************************)
EXTENDS Bytecode

CONSTANTS MaxNativeFunctions, MaxNativeCode, MaxNativeTotalCode, MaxNativeLocals

NativeLimits(a) ==
  /\ Len(a.functions) <= MaxNativeFunctions
  /\ Total([n \in DOMAIN a.functions |-> Len(a.functions[n].code)]) <= MaxNativeTotalCode
  /\ \A f \in ToSet(a.functions) : Len(f.code) <= MaxNativeCode /\ Len(f.locals) <= MaxNativeLocals

NativeSubset(a) ==
  /\ a.schema = "legacy"
  /\ NativeLimits(a)
  /\ \A f \in ToSet(a.functions) :
       /\ f.effects = <<>> /\ f.slots = Absent
       /\ "string" \notin ToSet(f.params) \union ToSet(f.locals) \union {f.ret}
       /\ \A i \in ToSet(f.code) :
            i.op # "request" /\ (i.op = "push" => TypeOf(i.value) # "string")

Word(value) ==
  CASE TypeOf(value) = "i64" -> value[2]
    [] TypeOf(value) = "bool" -> IF value[2] THEN 1 ELSE 0
    [] TypeOf(value) = "unit" -> 0

\* A word read back at a type; the word must be canonical for it.
ValueOf(word, type) ==
  CASE type = "i64" -> <<"i64", word>>
    [] type = "bool" /\ word \in {0, 1} -> <<"bool", word = 1>>
    [] type = "unit" /\ word = 0 -> UnitValue
    [] OTHER -> <<"fault", "encoding">>

BitwiseAnd(a, b) == IF a = 1 /\ b = 1 THEN 1 ELSE 0   \* on the words of booleans
BitwiseOr(a, b) == IF a = 0 /\ b = 0 THEN 0 ELSE 1

\* Faulty form: only the zero divisor is tested.
UndefinedOnZeroOnly(a, b) == b = 0

\* Division stops on a zero divisor and on the one quotient that overflows.
Undefined(a, b) == b = 0 \/ (a = MinInt /\ b = -1)

\* The word an operator leaves, or <<>> where the emitted test fails.
NativeOperator(op, words) ==
  LET a == words[1]
      b == words[2]
      Bit(condition) == <<IF condition THEN 1 ELSE 0>>
      Fits(n) == IF n \in MinInt..MaxInt THEN <<n>> ELSE <<>>
  IN  CASE op = "negate" -> Fits(0 - a)
        [] op = "not" -> <<1 - a>>
        [] op = "add" -> Fits(a + b)
        [] op = "subtract" -> Fits(a - b)
        [] op = "multiply" -> Fits(a * b)
        [] op = "divide" -> IF Undefined(a, b) THEN <<>> ELSE <<Truncated(a, b)>>
        [] op = "remainder" -> IF Undefined(a, b) THEN <<>> ELSE <<a - b * Truncated(a, b)>>
        [] op = "equal" -> Bit(a = b)
        [] op = "not_equal" -> Bit(a # b)
        [] op \in Comparison -> Bit(ComparisonResult(op, a, b)[2])
        [] op = "and" -> <<BitwiseAnd(a, b)>>
        [] op = "or" -> <<BitwiseOr(a, b)>>

\* One lowered function: registers, an operand stack known when it is compiled,
\* and the fuel.  status is "ok" until an emitted test fails.
RECURSIVE NativeCall(_, _, _, _)
NativeStep(a, state, i) ==
  LET n == Len(state.stack)
      Given1(count) == SubSeq(state.stack, n - count + 1, n)
      Put(count, word) == [state EXCEPT !.fuel = @ - 1,
                                        !.stack = Append(SubSeq(@, 1, n - count), word)]
      Fail(status) == [state EXCEPT !.fuel = @ - 1, !.status = status]
      count == IF i.op \in {"negate", "not"} THEN 1 ELSE 2
      answer == NativeOperator(i.op, Given1(count))
      call == NativeCall(a, i.callee, Given1(i.count), state.fuel - 1)
  IN  IF state.status # "ok" THEN state
      ELSE IF state.fuel = 0 THEN [state EXCEPT !.status = "budget"]
      ELSE CASE i.op = "push" -> Put(0, Word(i.value))
             [] i.op = "load" -> Put(0, state.registers[i.slot])
             [] i.op = "store" -> [state EXCEPT !.fuel = @ - 1, !.stack = SubSeq(@, 1, n - 1),
                                                !.registers[i.slot] = state.stack[n]]
             [] i.op = "pop" -> [state EXCEPT !.fuel = @ - 1, !.stack = SubSeq(@, 1, n - 1)]
             [] i.op = "return" -> [state EXCEPT !.fuel = @ - 1, !.output = state.stack[n]]
             [] i.op = "call" ->
                  IF call.status # "ok" THEN [state EXCEPT !.status = call.status, !.fuel = call.fuel]
                  ELSE [Put(i.count, call.output) EXCEPT !.fuel = call.fuel]
             [] OTHER -> IF answer = <<>> THEN Fail(i.op) ELSE Put(count, answer[1])

NativeCall(a, k, words, fuel) ==
  LET f == a.functions[k]
      start == [registers |-> [s \in DOMAIN f.locals |-> IF s <= Len(words) THEN words[s] ELSE 0],
                stack |-> <<>>, fuel |-> fuel, status |-> "ok", output |-> 0]
  IN  FoldLeft(LAMBDA state, i : NativeStep(a, state, i), start, f.code)

\* What an invocation answers: the status, the value and the instructions run.
NativeInvoke(a, k, arguments, budget) ==
  LET end == NativeCall(a, k, [i \in DOMAIN arguments |-> Word(arguments[i])], budget)
      value == ValueOf(end.output, a.functions[k].ret)
  IN  IF end.status # "ok" THEN [status |-> end.status, result |-> UnitValue, executed |-> 0]
      ELSE IF value[1] = "fault" THEN [status |-> "encoding", result |-> UnitValue, executed |-> 0]
      ELSE [status |-> "completed", result |-> value, executed |-> budget - end.fuel]
=============================================================================
