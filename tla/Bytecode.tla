------------------------------ MODULE Bytecode ------------------------------
(***************************************************************************)
(* The bytecode of a JOAN module and the part of its verifier that reads   *)
(* code (joan-bytecode): tables, frame slots, an abstract interpretation   *)
(* over types and labels, and the call graph.  Neither the tree nor the    *)
(* compiler is consulted here.                                             *)
(*                                                                         *)
(*   artifact  [schema, ast, identity, entry, functions]                   *)
(*   function  [name, params, paramLabels, locals, localLabels, ret,       *)
(*              retLabel, effects, slots, code]                            *)
(* Functions and frame slots are counted from 1.                           *)
(***************************************************************************)
EXTENDS JoanProgram, FiniteSets

CONSTANTS MaxLocals, MaxCode, MaxTotalCode, MaxStack

Op(op) == [op |-> op]
Push(value) == [op |-> "push", value |-> value]
Load(slot) == [op |-> "load", slot |-> slot]
Store(slot) == [op |-> "store", slot |-> slot]
CallOf(callee, count) == [op |-> "call", callee |-> callee, count |-> count]
RequestOf(effect, slot, label, count) ==
  [op |-> "request", effect |-> effect, slot |-> slot, label |-> label, count |-> count]

StrictlySorted(s) == \A i \in 1..Len(s) - 1 : s[i] < s[i + 1]
Names(s) == [i \in DOMAIN s |-> s[i].name]
Total(counts) == FoldLeft(LAMBDA n, c : n + c, 0, counts)

LabelPresence(ast, label) == IsFlow(ast) <=> label # NoLabel

-----------------------------------------------------------------------------
\* What a decoded artifact consists of.
JoanValue == ({"i64"} \X Int) \union ({"bool"} \X BOOLEAN) \union ({"string"} \X STRING)
               \union {UnitValue}
JoanType == {"i64", "bool", "string", "unit"}
JoanLabel == {NoLabel, Public} \union ({"secret"} \X STRING \X STRING)
Optional(S) == {s \in Seq(S) : Len(s) <= 1}
Operations == Arithmetic \union Comparison \union Equality \union Logic \union {"negate", "not"}

Instruction ==
  [op : {"push"}, value : JoanValue]
    \union [op : {"load", "store"}, slot : Nat]
    \union [op : {"call"}, callee : Nat, count : Nat]
    \union [op : {"request"}, effect : Nat, slot : Optional(Nat), label : JoanLabel, count : Nat]
    \union [op : Operations \union {"pop", "return"}]

BytecodeFunction ==
  [name : Nat, params : Seq(JoanType), paramLabels : Optional(Seq(JoanLabel)),
   locals : Seq(JoanType), localLabels : Optional(Seq(JoanLabel)), ret : JoanType, retLabel : JoanLabel,
   effects : Seq(Nat), slots : Optional(Seq([name : Nat, effect : Nat])), code : Seq(Instruction)]

IsDecoded(a) == a.functions \in Seq(BytecodeFunction)

-----------------------------------------------------------------------------
\* The abstract interpreter: a stack of types and labels, the frame slots that
\* are initialized, the authority slots consumed, and whether all went well.
Entry(type, label) == [type |-> type, label |-> label]
Typing(f) == [stack |-> <<>>, ready |-> 1..Len(f.params), used |-> {}, sound |-> TRUE, peak |-> 0]
Unsound(t) == [t EXCEPT !.sound = FALSE]

Top(t, n) == SubSeq(t.stack, Len(t.stack) - n + 1, Len(t.stack))
Below(t, n) == SubSeq(t.stack, 1, Len(t.stack) - n)
Depth(t, n) == Len(t.stack) >= n
Push1(t, n, entry) == [t EXCEPT !.stack = Append(Below(t, n), entry)]
LabelAt(f, slot) == IF f.localLabels = Absent THEN Public ELSE f.localLabels[1][slot]

TypeLoad(f, t, i) ==
  IF i.slot \in DOMAIN f.locals /\ i.slot \in t.ready
  THEN Push1(t, 0, Entry(f.locals[i.slot], LabelAt(f, i.slot)))
  ELSE Unsound(t)

TypeStore(f, t, i) ==
  IF /\ i.slot \in DOMAIN f.locals /\ i.slot \notin t.ready
     /\ Depth(t, 1) /\ Top(t, 1)[1].type = f.locals[i.slot]
     /\ CanFlow(Top(t, 1)[1].label, LabelAt(f, i.slot))
  THEN [t EXCEPT !.stack = Below(t, 1), !.ready = @ \union {i.slot}]
  ELSE Unsound(t)

TypeUnary(t, type) ==
  IF Depth(t, 1) /\ Top(t, 1)[1].type = type THEN t ELSE Unsound(t)

TypeBinary(t, op) ==
  LET pair == Top(t, 2)
      joined == Join(pair[1].label, pair[2].label)
      operands == IF op \in Logic THEN {"bool"} ELSE {"i64"}
      typed == IF op \in Equality THEN pair[1].type = pair[2].type
               ELSE {pair[1].type, pair[2].type} = operands
  IN  IF Depth(t, 2) /\ typed /\ joined # Incompatible
      THEN Push1(t, 2, Entry(IF op \in Arithmetic THEN "i64" ELSE "bool", joined))
      ELSE Unsound(t)

\* Faulty form: a caller need not declare the effects of its callee.
TypeCallAnyEffect(a, f, t, i) ==
  LET target == a.functions[i.callee]
  IN  IF /\ i.callee \in DOMAIN a.functions
         /\ i.count = Len(target.params) /\ Depth(t, i.count)
         /\ \A k \in 1..i.count : Top(t, i.count)[k].type = target.params[k]
      THEN Push1(t, i.count, Entry(target.ret, LabelOf(target.retLabel)))
      ELSE Unsound(t)

TypeCall(a, f, t, i) ==
  LET target == a.functions[i.callee]
      arguments == Top(t, i.count)
  IN  IF /\ i.callee \in DOMAIN a.functions
         /\ i.count = Len(target.params)
         /\ Depth(t, i.count)
         /\ \A k \in 1..i.count :
              /\ arguments[k].type = target.params[k]
              /\ target.paramLabels # Absent => CanFlow(arguments[k].label, target.paramLabels[1][k])
         /\ ToSet(target.effects) \subseteq ToSet(f.effects)
      THEN Push1(t, i.count, Entry(target.ret, LabelOf(target.retLabel)))
      ELSE Unsound(t)

\* The slot a request moves: none in a legacy module, otherwise one the function
\* declares for this very effect and has not consumed before.
SlotGranted(a, f, t, i) ==
  IF ~IsLinear(a.ast) THEN i.slot = Absent
  ELSE /\ i.slot # Absent /\ i.slot[1] \notin t.used
       /\ [name |-> i.slot[1], effect |-> i.effect] \in ToSet(SlotsOf(f))

TypeRequest(a, f, t, i) ==
  IF /\ i.effect \in ToSet(f.effects)
     /\ Depth(t, i.count)
     /\ LabelPresence(a.ast, i.label)
     /\ \A e \in ToSet(Top(t, i.count)) : CanFlow(e.label, LabelOf(i.label))
     /\ SlotGranted(a, f, t, i)
  THEN [t EXCEPT !.stack = Below(t, i.count), !.used = @ \union ToSet(i.slot)]
  ELSE Unsound(t)

TypeReturn(f, t) ==
  IF /\ Len(t.stack) = 1 /\ t.stack[1].type = f.ret
     /\ CanFlow(t.stack[1].label, LabelOf(f.retLabel))
  THEN [t EXCEPT !.stack = <<>>]
  ELSE Unsound(t)

TypeInstruction(a, f, t, i) ==
  CASE ~t.sound -> t
    [] t.sound /\ i.op = "push" -> Push1(t, 0, Entry(TypeOf(i.value), Public))
    [] t.sound /\ i.op = "load" -> TypeLoad(f, t, i)
    [] t.sound /\ i.op = "store" -> TypeStore(f, t, i)
    [] t.sound /\ i.op = "pop" -> IF Depth(t, 1) THEN [t EXCEPT !.stack = Below(t, 1)] ELSE Unsound(t)
    [] t.sound /\ i.op = "negate" -> TypeUnary(t, "i64")
    [] t.sound /\ i.op = "not" -> TypeUnary(t, "bool")
    [] t.sound /\ i.op = "call" -> TypeCall(a, f, t, i)
    [] t.sound /\ i.op = "request" -> TypeRequest(a, f, t, i)
    [] t.sound /\ i.op = "return" -> TypeReturn(f, t)
    [] OTHER -> TypeBinary(t, i.op)

\* One instruction, and the highest stack so far.
TypeStep(a, f, t, i) ==
  LET next == TypeInstruction(a, f, t, i)
  IN  [next EXCEPT !.peak = IF Len(next.stack) > @ THEN Len(next.stack) ELSE @]

\* The typing after each prefix of the code, the whole code last.
Typings(a, f) ==
  LET after[n \in 0..Len(f.code)] ==
        IF n = 0 THEN Typing(f) ELSE TypeStep(a, f, after[n - 1], f.code[n])
  IN  after
TypeCode(a, f) == Typings(a, f)[Len(f.code)]

FunctionSound(a, f) ==
  LET t == TypeCode(a, f)
      returns == {i \in DOMAIN f.code : f.code[i].op = "return"}
  IN  /\ returns = {Len(f.code)}
      /\ t.sound
      /\ IsLinear(a.ast) => t.used = {s.name : s \in ToSet(SlotsOf(f))}

-----------------------------------------------------------------------------
\* The tables of one function of an artifact.
AuthorityTable(a, f) ==
  /\ IsLinear(a.ast) <=> f.slots # Absent
  /\ f.slots # Absent => /\ StrictlySorted(Names(SlotsOf(f)))
                          /\ \A s \in ToSet(SlotsOf(f)) : s.effect \in ToSet(f.effects)

InformationTable(a, f) ==
  IF IsFlow(a.ast)
  THEN /\ Absent \notin {f.paramLabels, f.localLabels} /\ f.retLabel # NoLabel
       /\ Len(f.paramLabels[1]) = Len(f.params) /\ Len(f.localLabels[1]) = Len(f.locals)
       /\ f.paramLabels[1] = SubSeq(f.localLabels[1], 1, Len(f.params))
  ELSE f.paramLabels = Absent /\ f.localLabels = Absent /\ f.retLabel = NoLabel

FrameTable(f) ==
  /\ Len(f.params) <= Len(f.locals)
  /\ f.params = SubSeq(f.locals, 1, Len(f.params))
  /\ "unit" \notin ToSet(f.locals)
  /\ f.code # <<>>

CodeEdges(a) ==
  UNION {{<<n, i.callee>> : i \in {j \in ToSet(a.functions[n].code) : j.op = "call"}} :
           n \in DOMAIN a.functions}

StructureSound(a) ==
  /\ a.functions # <<>> /\ a.entry \in DOMAIN a.functions
  /\ a.functions[a.entry].name = Main /\ a.functions[a.entry].params = <<>>
  /\ \A i, j \in DOMAIN a.functions : a.functions[i].name = a.functions[j].name => i = j
  /\ \A f \in ToSet(a.functions) : /\ StrictlySorted(f.effects)
                                   /\ AuthorityTable(a, f)
                                   /\ InformationTable(a, f)
                                   /\ FrameTable(f)
                                   /\ FunctionSound(a, f)
  /\ ~HasCycle(DOMAIN a.functions, CodeEdges(a))

\* The information table compares its parameters with a slice of the frame's
\* labels before the frame is known to hold that many: on a function with more
\* parameters than locals the slice aborts the verifier.
TableAborts(a, f) ==
  /\ IsFlow(a.ast) /\ Absent \notin {f.paramLabels, f.localLabels} /\ f.retLabel # NoLabel
  /\ Len(f.paramLabels[1]) = Len(f.params) /\ Len(f.localLabels[1]) = Len(f.locals)
  /\ Len(f.params) > Len(f.locals)

\* What is asked of one function before, and after, its information table.
HeaderPasses(a, n) ==
  /\ \A m \in 1..n - 1 : a.functions[m].name # a.functions[n].name
  /\ StrictlySorted(a.functions[n].effects)
  /\ AuthorityTable(a, a.functions[n])

FunctionPasses(a, n) ==
  LET f == a.functions[n]
  IN  /\ HeaderPasses(a, n) /\ InformationTable(a, f) /\ FrameTable(f)
      /\ Len(f.locals) <= MaxLocals /\ Len(f.params) <= MaxParameters /\ Len(f.code) <= MaxCode
      /\ Total([m \in 1..n |-> Len(a.functions[m].code)]) <= MaxTotalCode
      /\ FunctionSound(a, f) /\ TypeCode(a, f).peak <= MaxStack

\* The verification of the code reaches such a function: nothing before refuses.
StructureAborts(a) ==
  /\ a.functions # <<>> /\ Len(a.functions) <= MaxFunctions /\ a.entry \in DOMAIN a.functions
  /\ a.functions[a.entry].name = Main /\ a.functions[a.entry].params = <<>>
  /\ \E n \in DOMAIN a.functions : /\ TableAborts(a, a.functions[n]) /\ HeaderPasses(a, n)
                                   /\ \A m \in 1..n - 1 : FunctionPasses(a, m)

\* The counted limits of the code.
StructureLimits(a) ==
  /\ Len(a.functions) <= MaxFunctions
  /\ \A f \in ToSet(a.functions) : /\ Len(f.locals) <= MaxLocals
                                   /\ Len(f.params) <= MaxParameters
                                   /\ Len(f.code) <= MaxCode
  /\ Total([n \in DOMAIN a.functions |-> Len(a.functions[n].code)]) <= MaxTotalCode
  /\ \A f \in ToSet(a.functions) : TypeCode(a, f).peak <= MaxStack
=============================================================================
