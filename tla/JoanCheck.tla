----------------------------- MODULE JoanCheck -----------------------------
(***************************************************************************)
(* The static checker (joan-check): names, types, information labels,      *)
(* effects, linear authority slots and the acyclic call graph.  The        *)
(* checker never stops at the first fault: it collects the codes of all    *)
(* of them, and a module is accepted when there is none.  (The calls of a  *)
(* statement the checker skips count here for the cycle code; a skipped    *)
(* statement is a fault already, so the verdict is the same.)              *)
(***************************************************************************)
EXTENDS JoanProgram, FiniteSets

CONSTANT MaxStatements

NoType == "unknown"
Typed(type, label, faults) == [type |-> type, label |-> label, faults |-> faults]

Fault(code, condition) == IF condition THEN {code} ELSE {}
RequireType(expected, actual) == Fault("J2035", actual \notin {expected, NoType})
RequireFlow(p, actual, destination) ==
  Fault("J2062", p.flow /\ actual.type # NoType /\ ~CanFlow(actual.label, destination))

\* Signatures are kept by name; of two functions of one name the later stays.
Named(p, name) == {i \in DOMAIN p.functions : p.functions[i].name = name}
Declared(p, name) == Named(p, name) # {}
SignatureOf(p, name) ==
  p.functions[CHOOSE i \in Named(p, name) : \A j \in Named(p, name) : j <= i]

\* Whether the module takes the linear profile.
Linear(p) == p.flow \/ NamesAuthority(p.functions)

BinaryInfo(op, left, right) ==
  LET operands == IF op \in Logic THEN "bool" ELSE "i64"
      joined == Join(left.label, right.label)
      mismatch == /\ NoType \notin {left.type, right.type}
                  /\ left.type # right.type
  IN  Typed(IF op \in Arithmetic THEN "i64" ELSE "bool",
            IF joined = Incompatible THEN Public ELSE joined,
            left.faults \union right.faults
              \union Fault("J2063", joined = Incompatible)
              \union IF op \in Equality THEN Fault("J2031", mismatch)
                     ELSE RequireType(operands, left.type) \union RequireType(operands, right.type))

CallInfo(p, caller, callee, arguments) ==
  LET argumentFaults == UNION {a.faults : a \in ToSet(arguments)}
      signature == SignatureOf(p, callee)
      Mismatch(i) == RequireType(signature.params[i].type, arguments[i].type)
                       \union RequireFlow(p, arguments[i], LabelOf(signature.params[i].label))
  IN  IF ~Declared(p, callee) THEN Typed(NoType, Public, argumentFaults \union {"J2032"})
      ELSE Typed(signature.ret, LabelOf(signature.retLabel),
                 argumentFaults
                   \union Fault("J2033", Len(arguments) # Len(signature.params))
                   \union Fault("J2034", ~(ToSet(signature.effects) \subseteq ToSet(caller.effects)))
                   \union UNION {Mismatch(i) : i \in DOMAIN arguments \cap DOMAIN signature.params})

RECURSIVE InfoOf(_, _, _, _)
InfoOf(p, caller, locals, e) ==
  CASE e.kind = "literal" -> Typed(TypeOf(e.value), Public, {})
    [] e.kind = "variable" -> IF e.name \in DOMAIN locals
                              THEN Typed(locals[e.name].type, locals[e.name].label, {})
                              ELSE Typed(NoType, Public, {"J2030"})
    [] e.kind = "unary" -> LET operand == InfoOf(p, caller, locals, e.operand)
                               type == IF e.op = "negate" THEN "i64" ELSE "bool"
                           IN  Typed(type, operand.label,
                                     operand.faults \union RequireType(type, operand.type))
    [] e.kind = "binary" -> BinaryInfo(e.op, InfoOf(p, caller, locals, e.left),
                                             InfoOf(p, caller, locals, e.right))
    [] e.kind = "call" -> CallInfo(p, caller, e.callee,
                                   [i \in DOMAIN e.arguments |->
                                      InfoOf(p, caller, locals, e.arguments[i])])

-----------------------------------------------------------------------------
\* Statements are checked in order over a scope: the locals bound so far, the
\* slots not yet consumed, whether the body has returned, and the faults.
CheckLet(p, f, scope, s) ==
  LET actual == InfoOf(p, f, scope.locals, s.value)
      bound == [type |-> s.type, label |-> LabelOf(s.label)]
  IN  [scope EXCEPT
         !.locals = [n \in DOMAIN @ \union {s.name} |-> IF n = s.name THEN bound ELSE @[n]],
         !.faults = @ \union actual.faults
                      \union Fault("J2024", s.type = "unit")
                      \union RequireType(s.type, actual.type)
                      \union RequireFlow(p, actual, bound.label)
                      \union Fault("J2025", s.name \in DOMAIN scope.locals)]

CheckReturn(p, f, scope, s) ==
  LET actual == InfoOf(p, f, scope.locals, s.result[1])
      faults == CASE s.result = Absent -> Fault("J2026", f.ret # "unit")
                  [] s.result # Absent /\ f.ret = "unit" -> {"J2027"}
                  [] OTHER -> actual.faults \union RequireType(f.ret, actual.type)
                                \union RequireFlow(p, actual, LabelOf(f.retLabel))
  IN  [scope EXCEPT !.returned = TRUE, !.faults = @ \union faults]

\* The authority of a request: one declared slot, for this effect, not yet moved.
SlotFault(f, scope, s) ==
  LET declared == {a \in ToSet(SlotsOf(f)) : a.name = s.slot[1]}
  IN  CASE s.slot = Absent -> "J2053"
        [] s.slot # Absent /\ declared = {} -> "J2054"
        [] s.slot # Absent /\ declared # {} /\ ~\E a \in declared : a.effect = s.effect -> "J2055"
        [] s.slot # Absent /\ (\E a \in declared : a.effect = s.effect)
             /\ s.slot[1] \notin scope.available -> "J2056"
        [] OTHER -> "none"

CheckRequest(p, f, scope, s) ==
  LET arguments == {InfoOf(p, f, scope.locals, a) : a \in ToSet(s.arguments)}
      slotFault == IF Linear(p) THEN SlotFault(f, scope, s) ELSE "none"
  IN  [scope EXCEPT
         !.available = IF Linear(p) /\ slotFault = "none" THEN @ \ {s.slot[1]} ELSE @,
         !.faults = @ \union Fault("J2028", s.effect \notin ToSet(f.effects))
                      \union UNION {a.faults \union RequireFlow(p, a, LabelOf(s.label)) :
                                      a \in arguments}
                      \union ({slotFault} \ {"none"})]

CheckStatement(p, f, scope, s) ==
  CASE scope.returned -> [scope EXCEPT !.faults = @ \union {"J2023"}]
    [] ~scope.returned /\ s.kind = "let" -> CheckLet(p, f, scope, s)
    [] ~scope.returned /\ s.kind = "return" -> CheckReturn(p, f, scope, s)
    [] ~scope.returned /\ s.kind = "request" -> CheckRequest(p, f, scope, s)
    [] ~scope.returned /\ s.kind = "expression" ->
         [scope EXCEPT !.faults = @ \union InfoOf(p, f, scope.locals, s.value).faults]

\* The slots a function declares must be distinct and within its effects.
AuthorityFaults(f) ==
  Fault("J2051", Cardinality({a.name : a \in ToSet(SlotsOf(f))}) # Len(SlotsOf(f)))
    \union Fault("J2052", \E a \in ToSet(SlotsOf(f)) : a.effect \notin ToSet(f.effects))

ParameterScope(p, f) ==
  LET names == {x.name : x \in ToSet(f.params)}
      Bound(n) == f.params[CHOOSE i \in DOMAIN f.params :
                            /\ f.params[i].name = n
                            /\ \A j \in DOMAIN f.params : f.params[j].name = n => j <= i]
  IN  [locals |-> [n \in names |-> [type |-> Bound(n).type, label |-> LabelOf(Bound(n).label)]],
       available |-> IF Linear(p) THEN {a.name : a \in ToSet(SlotsOf(f))} ELSE {},
       returned |-> FALSE,
       faults |-> Fault("J2020", \E x \in ToSet(f.params) : x.type = "unit")
                    \union Fault("J2021", Cardinality(names) # Len(f.params))]

CheckFunction(p, f) ==
  LET Visit(scope, s) == CheckStatement(p, f, scope, s)
      end == FoldLeft(Visit, ParameterScope(p, f), f.body)
  IN  IF Linear(p) /\ f.slots = Absent THEN {"J2050"}
      ELSE (IF Linear(p) THEN AuthorityFaults(f) ELSE {}) \union
           IF f.body = <<>> THEN ParameterScope(p, f).faults \union {"J2022"}
           ELSE end.faults \union Fault("J2029", ~end.returned)
                           \union Fault("J2057", end.available # {})

-----------------------------------------------------------------------------
\* A flow module labels every value and request boundary, any other none.
InformationFaults(p, f) ==
  LET labels == {f.retLabel} \union {x.label : x \in ToSet(f.params)}
                  \union {s.label : s \in {t \in ToSet(f.body) : t.kind \in {"let", "request"}}}
  IN  Fault("J2060", p.flow /\ NoLabel \in labels)
        \union Fault("J2061", ~p.flow /\ labels # {NoLabel})

SignatureFaults(p) ==
  LET functions == ToSet(p.functions)
      statements == FoldLeft(LAMBDA n, f : n + Len(f.body), 0, p.functions)
  IN  Fault("J2001", Len(p.functions) > MaxFunctions)
        \union Fault("J2002", \E f \in functions : Len(f.params) > MaxParameters)
        \union Fault("J2003", \E f \in functions :
                                Cardinality(ToSet(f.effects)) # Len(f.effects))
        \union Fault("J2004", Cardinality({f.name : f \in functions}) # Len(p.functions))
        \union Fault("J2005", statements > MaxStatements)

EntrypointFaults(p) ==
  IF Declared(p, Main) THEN Fault("J2011", SignatureOf(p, Main).params # <<>>) ELSE {"J2010"}

\* The functions an expression or a body calls.
RECURSIVE CallsIn(_)
CallsIn(e) ==
  CASE e.kind = "unary" -> CallsIn(e.operand)
    [] e.kind = "binary" -> CallsIn(e.left) \union CallsIn(e.right)
    [] e.kind = "call" -> {e.callee} \union UNION {CallsIn(a) : a \in ToSet(e.arguments)}
    [] OTHER -> {}

CallEdges(p) ==
  {<<f.name, callee>> : f \in ToSet(p.functions), callee \in {g.name : g \in ToSet(p.functions)}}
    \cap UNION {{<<f.name, callee>> :
                   callee \in UNION {UNION {CallsIn(e) : e \in ToSet(ExpressionsOf(s))} :
                                       s \in ToSet(f.body)}} :
                  f \in ToSet(p.functions)}

CycleFaults(p) == Fault("J2040", HasCycle({f.name : f \in ToSet(p.functions)}, CallEdges(p)))

Diagnostics(p) ==
  SignatureFaults(p) \union EntrypointFaults(p) \union CycleFaults(p)
    \union UNION {InformationFaults(p, f) \union CheckFunction(p, f) : f \in ToSet(p.functions)}

Accepted(p) == Diagnostics(p) = {}
=============================================================================
