------------------------------ MODULE MCLanguage ------------------------------
(***************************************************************************)
(* Submissions for the language pipeline, in families, each around one     *)
(* part of the rules.  Function 2 is main; 1 sorts before it, 3 after.     *)
(***************************************************************************)
EXTENDS LanguagePipeline

MCMain == 2
MCMinInt == -4
MCIntegers == {-4, 0, 3}

I64(n) == Literal(<<"i64", n>>)
Flag(b) == Literal(<<"bool", b>>)
Text == Literal(<<"string", "s">>)
Yes == <<"bool", TRUE>>
A == Secret("acme", "care")
B == Secret("acme", "billing")
MCObservers == {Public, A}

Parameter(name, type, label) == [name |-> name, type |-> type, label |-> label]
Function(name, params, ret, body) ==
  [name |-> name, params |-> params, ret |-> ret, retLabel |-> NoLabel, effects |-> <<>>,
   slots |-> Absent, body |-> body]
Source(flow, functions) == [flow |-> flow, functions |-> functions]

X == Variable("x")
Y == Variable("y")
Give(e) == <<Return(<<e>>)>>
MainGives(e) == Function(Main, <<>>, "i64", Give(e))

\* Operators over a parameter: every operator on pairs of small operands.
Operands == {X, I64(0), I64(-1), Flag(TRUE)}
Formulas == {Unary(op, x) : op \in {"negate", "not"}, x \in Operands \union {I64(MinInt)}}
              \union {Binary(op, x, y) : op \in Arithmetic \union Comparison \union Equality \union Logic,
                                         x \in Operands, y \in {X, I64(2), I64(-1), Text}}
Operators ==
  {Source(FALSE, <<Function(1, <<Parameter("x", type, NoLabel)>>, ret, Give(e)),
                   MainGives(Invoke(1, <<I64(1)>>))>>) :
     type \in {"i64", "bool"}, ret \in {"i64", "bool"}, e \in Formulas}

\* Call graphs of three functions, each calling two others, one or none.
Bodies == {Give(I64(1)), Give(Invoke(3, <<I64(1)>>))} \union {Give(Invoke(g, <<>>)) : g \in 1..3}
            \union {Give(Binary("subtract", Invoke(g, <<>>), Invoke(1, <<>>))) : g \in {1, 3}}
CallGraphs ==
  {Source(FALSE, <<Function(3, <<>>, "i64", b3), Function(2, <<>>, "i64", b2),
                   Function(1, <<>>, "i64", b1)>>) : b1, b2, b3 \in Bodies}

\* Bodies of statements in every order, over two types of result.
Statements == {Let("x", "i64", NoLabel, I64(1)), Let("y", "i64", NoLabel, X),
               Let("y", "bool", NoLabel, X), Let("y", "unit", NoLabel, Invoke(1, <<>>)),
               Evaluate(Invoke(1, <<>>)), Evaluate(Y)}
Ends == {Return(<<X>>), Return(Absent), Return(<<Invoke(1, <<>>)>>), Evaluate(I64(1))}
BodyShapes ==
  {Source(FALSE, <<Function(1, <<>>, helper, IF helper = "unit" THEN <<Return(Absent)>>
                                             ELSE Give(I64(2))),
                   Function(Main, <<>>, ret, Append(body, end))>>) :
     helper, ret \in {"i64", "unit"}, body \in UNION {[1..n -> Statements] : n \in 0..2},
     end \in Ends}
    \union {Source(FALSE, <<Function(Main, <<>>, "i64", body)>>) :
              body \in {<<>>, Give(X) \o Give(X), Give(I64(1)) \o Give(I64(1))}}
    \union {Source(FALSE, <<Function(3, params, "i64", Give(X)), MainGives(I64(1))>>) :
              params \in {<<Parameter("x", type, label)>> : type \in {"i64", "unit"},
                                                           label \in {NoLabel, Public}}
                           \union {[n \in 1..k |-> Parameter("x", "i64", NoLabel)] : k \in 2..3}}

\* Sizes: modules just within and just beyond each limit.
Sums(n) == FoldLeft(LAMBDA e, k : Binary("add", e, I64(0)), I64(1), [k \in 1..n |-> k])
Sizes ==
  {Source(FALSE, <<Function(Main, <<>>, "i64", [k \in 1..n |-> Evaluate(I64(1))] \o Give(e))>>) :
     n \in 0..8, e \in {I64(1), Sums(1), Sums(2), Binary("add", I64(0), Sums(1))}}

\* Authority: rows of effects, tables of slots, requests that move them, and a
\* caller that enters the function twice.
Slot(name, effect) == [name |-> name, effect |-> effect]
NoSlots == <<<<>>>>
Tables == {Absent, NoSlots, <<<<Slot(1, 1)>>>>, <<<<Slot(2, 1), Slot(1, 1)>>>>,
           <<<<Slot(1, 1), Slot(1, 1)>>>>, <<<<Slot(1, 2)>>>>}
Asks == {Request(effect, slot, NoLabel, <<X>>) : effect \in {1, 2}, slot \in {Absent, <<1>>, <<2>>}}
Authority ==
  {Source(FALSE, <<[Function(1, <<Parameter("x", "i64", NoLabel)>>, "i64", body \o Give(X))
                      EXCEPT !.effects = rows[1], !.slots = tables[1]],
                   [Function(Main, <<>>, "i64",
                             Give(Binary("add", Invoke(1, <<I64(1)>>), Invoke(1, <<I64(2)>>))))
                      EXCEPT !.effects = rows[2], !.slots = tables[2]]>>) :
     rows \in {<<row, row>> : row \in {<<>>, <<1>>, <<2, 1>>}} \union {<<<<1>>, <<>>>>, <<<<1, 1>>, <<1>>>>},
     tables \in {<<Absent, Absent>>, <<<<<<Slot(1, 1)>>>>, Absent>>} \union {<<t, NoSlots>> : t \in Tables},
     body \in UNION {[1..n -> Asks] : n \in 0..2}}

\* Labels: two parameters, a local, a request and a result, each public or secret.
Labels == {Public, A, B}
Z == Variable("z")
FlowHelper == [Function(1, <<Parameter("x", "i64", A)>>, "i64", Give(Binary("add", X, I64(1))))
                 EXCEPT !.retLabel = A, !.slots = NoSlots]
Information ==
  {Source(TRUE, <<FlowHelper,
                  [MainGives(I64(1)) EXCEPT !.retLabel = Public, !.slots = NoSlots],
                  [Function(3, <<Parameter("x", "i64", lx), Parameter("y", "i64", ly)>>, "i64",
                            <<Let("z", "i64", lz, value), Request(1, <<1>>, ls, <<asked>>), Return(<<Z>>)>>)
                     EXCEPT !.retLabel = lr, !.effects = <<1>>, !.slots = <<<<Slot(1, 1)>>>>]>>) :
     lx \in {Public, A}, ly, lz, ls \in Labels, lr \in Labels \union {NoLabel},
     value \in {X, Binary("add", X, Y), Invoke(1, <<X>>)}, asked \in {Z, Binary("equal", X, Y)}}

Sources == Operators \union CallGraphs \union BodyShapes \union Sizes \union Authority \union Information

-----------------------------------------------------------------------------
\* Artifacts from elsewhere: the code of an accepted module, and every change of
\* one instruction, one header field, or the tree.
Genuine ==
  {CompileProgram(Source(FALSE, <<Function(1, <<Parameter("x", "i64", NoLabel)>>, "i64",
                                           <<Let("y", "i64", NoLabel, X), Return(<<Y>>)>>),
                                  MainGives(Invoke(1, <<I64(1)>>))>>)),
   CompileProgram(Source(FALSE, <<[Function(1, <<>>, "i64",
                                            <<Request(1, <<1>>, NoLabel, <<I64(1)>>)>> \o Give(I64(2)))
                                     EXCEPT !.effects = <<1>>, !.slots = <<<<Slot(1, 1)>>>>],
                                  [MainGives(Invoke(1, <<>>)) EXCEPT !.effects = <<1>>, !.slots = NoSlots]>>)),
   CompileProgram(Source(TRUE, <<FlowHelper,
                                 [MainGives(Invoke(1, <<I64(1)>>)) EXCEPT !.retLabel = A, !.slots = NoSlots]>>))}

Instructions == {Push(<<"i64", 1>>), Push(Yes), Load(1), Load(2), Store(1), Store(2), Op("pop"),
                 Op("add"), Op("not"), Op("equal"), Op("return"), CallOf(1, 0), CallOf(2, 0),
                 CallOf(3, 0), RequestOf(1, <<1>>, NoLabel, 0), RequestOf(2, <<>>, NoLabel, 1)}
Without(s, i) == SubSeq(s, 1, i - 1) \o SubSeq(s, i + 1, Len(s))

Altered(a) ==
  UNION {LET code == a.functions[k].code
             Coded(c) == [a EXCEPT !.functions[k].code = c]
         IN  {Coded([code EXCEPT ![n] = i]) : n \in DOMAIN code, i \in Instructions}
               \union {Coded(Without(code, n)) : n \in DOMAIN code}
               \union {[a EXCEPT !.functions[k].effects = <<2>>],
                       [a EXCEPT !.functions[k].slots = Absent],
                       [a EXCEPT !.functions[k].locals = <<>>],
                       [a EXCEPT !.functions[k].locals = <<>>,
                                 !.functions[k].localLabels = [i \in DOMAIN @ |-> <<>>]],
                       [a EXCEPT !.functions[k].ret = "bool"],
                       [a EXCEPT !.functions[k].name = 3],
                       [a EXCEPT !.ast.functions[k].ret = "bool"],
                       [a EXCEPT !.ast.functions[k].effects = <<1, 2>>]}
         : k \in DOMAIN a.functions}
    \union {[a EXCEPT !.entry = 1], [a EXCEPT !.entry = 3], [a EXCEPT !.schema = "flow"],
            [a EXCEPT !.functions = SubSeq(@, 1, 1)],
            [a EXCEPT !.functions = Reverse(@)],
            [a EXCEPT !.ast.functions = Reverse(@)],
            [a EXCEPT !.identity.functions[1].body = <<>>]}

MCSubmissions ==
  {[origin |-> "source", program |-> p] : p \in Sources}
    \union {[origin |-> "artifact", artifact |-> a] : a \in Genuine \union UNION {Altered(g) : g \in Genuine}}
=============================================================================
