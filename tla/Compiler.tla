------------------------------ MODULE Compiler ------------------------------
(***************************************************************************)
(* The compiler (joan-compiler).  Lowering folds over the statements of a  *)
(* checked function with the frame built so far.                           *)
(***************************************************************************)
EXTENDS BytecodeVerifier

\* Lowering: the locals of the frame by name, its tables and the code.
RECURSIVE Lower(_, _, _)
Lower(e, locals, index) ==
  LET Operands(list) == FoldLeft(LAMBDA code, x : code \o Lower(x, locals, index), <<>>, list)
  IN  CASE e.kind = "literal" -> <<Push(e.value)>>
        [] e.kind = "variable" -> <<Load(locals[e.name])>>
        [] e.kind = "unary" -> Append(Lower(e.operand, locals, index), Op(e.op))
        [] e.kind = "binary" -> Append(Operands(<<e.left, e.right>>), Op(e.op))
        [] e.kind = "call" -> Append(Operands(e.arguments),
                                     CallOf(index[e.callee], Len(e.arguments)))

LowerStatement(state, s, index) ==
  LET Code(e) == Lower(e, state.locals, index)
      slot == Cardinality(DOMAIN state.locals) + 1
      Emit(code) == [state EXCEPT !.code = @ \o code]
  IN  CASE s.kind = "let" ->
             [locals |-> [n \in DOMAIN state.locals \union {s.name} |->
                            IF n = s.name THEN slot ELSE state.locals[n]],
              types |-> Append(state.types, s.type),
              labels |-> [i \in DOMAIN state.labels |-> Append(state.labels[i], s.label)],
              code |-> state.code \o Code(s.value) \o <<Store(slot)>>]
        [] s.kind = "return" ->
             Emit((IF s.result = Absent THEN <<Push(UnitValue)>> ELSE Code(s.result[1]))
                    \o <<Op("return")>>)
        [] s.kind = "request" ->
             Emit(FoldLeft(LAMBDA code, x : code \o Code(x), <<>>, s.arguments)
                    \o <<RequestOf(s.effect, s.slot, s.label, Len(s.arguments))>>)
        [] s.kind = "expression" -> Emit(Append(Code(s.value), Op("pop")))

CompileFunction(f, index) ==
  LET types == [i \in DOMAIN f.params |-> f.params[i].type]
      labels == IF f.retLabel = NoLabel THEN Absent
                ELSE <<[i \in DOMAIN f.params |-> f.params[i].label]>>
      start == [locals |-> [n \in {x.name : x \in ToSet(f.params)} |->
                              CHOOSE i \in DOMAIN f.params : f.params[i].name = n],
                types |-> types, labels |-> labels, code |-> <<>>]
      end == FoldLeft(LAMBDA state, s : LowerStatement(state, s, index), start, f.body)
  IN  [name |-> f.name, params |-> types, paramLabels |-> labels,
       locals |-> end.types, localLabels |-> end.labels,
       ret |-> f.ret, retLabel |-> f.retLabel, effects |-> f.effects, slots |-> f.slots,
       code |-> end.code]

CompileProgram(program) ==
  LET ast == Canonical(program)
      names == {f.name : f \in ToSet(ast.functions)}
      index == [n \in names |-> CHOOSE i \in DOMAIN ast.functions : ast.functions[i].name = n]
  IN  [schema |-> ast.schema, ast |-> ast, identity |-> ast, entry |-> index[Main],
       functions |-> [i \in DOMAIN ast.functions |-> CompileFunction(ast.functions[i], index)]]
=============================================================================
