-------------------------- MODULE BytecodeVerifier --------------------------
(***************************************************************************)
(* The standalone verifier of the bytecode of a JOAN module                *)
(* (joan-bytecode).  An artifact carries the canonical tree it claims to   *)
(* come from, the identity of that tree, and the code; the verifier checks *)
(* the shape of the tree, runs the static checker on it again, interprets  *)
(* the code over types and labels, and at last emits the code of the tree  *)
(* by itself and compares.                                                 *)
(* The digest of a tree is the tree itself: digests are taken to differ    *)
(* when trees do.                                                          *)
(***************************************************************************)
EXTENDS JoanCheck, Bytecode

CONSTANTS MaxNodes, MaxExpressionDepth

-----------------------------------------------------------------------------
\* The shape of a canonical tree.
RECURSIVE NodesOf(_), DepthOf(_)
ChildrenOf(e) == CASE e.kind = "unary" -> <<e.operand>>
                   [] e.kind = "binary" -> <<e.left, e.right>>
                   [] e.kind = "call" -> e.arguments
                   [] OTHER -> <<>>
NodesOf(e) == LET children == ChildrenOf(e)
              IN  1 + Total([i \in DOMAIN children |-> NodesOf(children[i])])
DepthOf(e) == LET below == {DepthOf(c) : c \in ToSet(ChildrenOf(e))}
              IN  IF below = {} THEN 0 ELSE 1 + CHOOSE d \in below : \A b \in below : b <= d

StatementShape(ast, s) ==
  /\ s.kind \in {"let", "request"} => LabelPresence(ast, s.label)
  /\ s.kind = "request" => (IsLinear(ast) <=> s.slot # Absent)

FunctionShape(ast, f) ==
  /\ StrictlySorted(f.effects)
  /\ IsLinear(ast) <=> f.slots # Absent
  /\ f.slots # Absent => StrictlySorted(Names(SlotsOf(f)))
  /\ LabelPresence(ast, f.retLabel)
  /\ \A x \in ToSet(f.params) : LabelPresence(ast, x.label)
  /\ \A s \in ToSet(f.body) : StatementShape(ast, s)

CanonicalShape(ast) ==
  /\ ast.functions # <<>>
  /\ StrictlySorted(Names(ast.functions))
  /\ \A f \in ToSet(ast.functions) : FunctionShape(ast, f)

\* The counted limits of the tree.
CanonicalLimits(ast) ==
  LET bodies == [i \in DOMAIN ast.functions |-> Len(ast.functions[i].body)]
      trees == FlattenSeq([n \in DOMAIN ast.functions |->
                        FlattenSeq([i \in DOMAIN ast.functions[n].body |->
                                      ExpressionsOf(ast.functions[n].body[i])])])
  IN  /\ Len(ast.functions) <= MaxFunctions
      /\ \A f \in ToSet(ast.functions) : Len(f.params) <= MaxParameters
      /\ Total(bodies) <= MaxStatements
      /\ Total([i \in DOMAIN trees |-> NodesOf(trees[i])]) <= MaxNodes
      /\ \A e \in ToSet(trees) : DepthOf(e) <= MaxExpressionDepth

\* The program the checker is given again.
FromCanonical(ast) == [flow |-> IsFlow(ast), functions |-> ast.functions]

-----------------------------------------------------------------------------
\* The verifier's own emitter.  A frame is the list of the names bound so far.
SlotIn(frame, name) == CHOOSE k \in DOMAIN frame : frame[k] = name

RECURSIVE EmitExpression(_, _, _)
EmitAll(ast, frame, expressions) ==
  FlattenSeq([i \in DOMAIN expressions |-> EmitExpression(ast, frame, expressions[i])])
EmitExpression(ast, frame, e) ==
  CASE e.kind = "literal" -> <<Push(e.value)>>
    [] e.kind = "variable" -> <<Load(SlotIn(frame, e.name))>>
    [] e.kind = "unary" -> EmitAll(ast, frame, <<e.operand>>) \o <<Op(e.op)>>
    [] e.kind = "binary" -> EmitAll(ast, frame, <<e.left, e.right>>) \o <<Op(e.op)>>
    [] e.kind = "call" ->
         EmitAll(ast, frame, e.arguments)
           \o <<CallOf(SlotIn(Names(ast.functions), e.callee), Len(e.arguments))>>

EmitStatement(ast, frame, s) ==
  CASE s.kind = "let" -> EmitExpression(ast, frame, s.value) \o <<Store(Len(frame) + 1)>>
    [] s.kind = "return" -> (IF s.result = Absent THEN <<Push(UnitValue)>>
                             ELSE EmitAll(ast, frame, s.result)) \o <<Op("return")>>
    [] s.kind = "request" -> EmitAll(ast, frame, s.arguments)
                               \o <<RequestOf(s.effect, s.slot, s.label, Len(s.arguments))>>
    [] s.kind = "expression" -> EmitExpression(ast, frame, s.value) \o <<Op("pop")>>

EmitFunction(ast, f) ==
  LET lets == SelectSeq(f.body, LAMBDA s : s.kind = "let")
      frame == f.params \o lets
      BoundBefore(k) == Len(f.params) + Cardinality({j \in 1..k - 1 : f.body[j].kind = "let"})
      FieldOf(s, Field(_)) == [i \in DOMAIN s |-> Field(s[i])]
      Type(x) == x.type
      Label(x) == x.label
      flow == f.retLabel # NoLabel
  IN  [name |-> f.name,
       params |-> FieldOf(f.params, Type),
       paramLabels |-> IF flow THEN <<FieldOf(f.params, Label)>> ELSE Absent,
       locals |-> FieldOf(frame, Type),
       localLabels |-> IF flow THEN <<FieldOf(frame, Label)>> ELSE Absent,
       ret |-> f.ret, retLabel |-> f.retLabel, effects |-> f.effects, slots |-> f.slots,
       code |-> FlattenSeq([k \in DOMAIN f.body |->
                  EmitStatement(ast, SubSeq(Names(frame), 1, BoundBefore(k)), f.body[k])])]

IndependentlyEmit(ast) ==
  [schema |-> ast.schema, ast |-> ast, identity |-> ast,
   entry |-> SlotIn(Names(ast.functions), Main),
   functions |-> [i \in DOMAIN ast.functions |-> EmitFunction(ast, ast.functions[i])]]

-----------------------------------------------------------------------------
\* The verdict on an artifact: "verified", the stage that refuses it, or "panic"
\* where the verifier aborts instead of refusing.  A counted limit is asked after the shape it bounds, so that "limit" says the
\* artifact is refused for its size and for nothing else in that stage.
Verdict(a) ==
  IF a.schema # a.ast.schema THEN "profile"
  ELSE IF ~CanonicalShape(a.ast) THEN "shape"
  ELSE IF ~CanonicalLimits(a.ast) THEN "limit"
  ELSE IF ~Accepted(FromCanonical(a.ast)) THEN "static"
  ELSE IF a.identity # a.ast THEN "identity"
  ELSE IF StructureAborts(a) THEN "panic"
  ELSE IF ~StructureSound(a) THEN "structure"
  ELSE IF ~StructureLimits(a) THEN "limit"
  ELSE IF a # IndependentlyEmit(a.ast) THEN "codegen"
  ELSE "verified"
=============================================================================
