--------------------------- MODULE MachineProofs ---------------------------
(***************************************************************************)
(* Theorems about the stack machine on any artifact that was verified.     *)
(*                                                                         *)
(* Never stuck.  The abstract interpreter of the verifier gives a typing   *)
(* after each prefix of a code.  Every frame of the machine is as the      *)
(* typing at its place says (Placed, Matches), the active one before its   *)
(* instruction and the others behind a call they wait for (FramesFit), so  *)
(* no instruction meets a fault.  The frames are a path in a graph of      *)
(* calls without a cycle, hence not more than there are functions.         *)
(*                                                                         *)
(* Slots are linear.  For each slot, the requests that moved it and the    *)
(* frames that are still to move it are as many as the entries of its      *)
(* function (SlotBalance); no frame is left when an execution completes.   *)
(*                                                                         *)
(* No secret is observed.  Two executions on arguments that are alike to   *)
(* an observer are in step, at the same point of the same functions with   *)
(* the same visible values (InStep), until one stops or both complete.     *)
(***************************************************************************)
EXTENDS StackMachine, FiniteSumTheorems, SequenceTheorems

-----------------------------------------------------------------------------
\* The typings of the prefixes of a code satisfy their equation.
IsTyping(a, f, n, g) ==
  g = [k \in 0..n |-> IF k = 0 THEN Typing(f) ELSE TypeStep(a, f, g[k - 1], f.code[k])]

\* Typings of all prefixes exist: of none, and of one instruction more.
LEMMA TypingExtends ==
  ASSUME NEW a, NEW f, NEW n \in Nat, NEW g, IsTyping(a, f, n, g)
  PROVE  \E h : IsTyping(a, f, n + 1, h)
<1> DEFINE h == [k \in 0..(n + 1) |-> IF k = n + 1 THEN TypeStep(a, f, g[n], f.code[n + 1]) ELSE g[k]]
<1>1. \A k \in 0..n : g[k] = IF k = 0 THEN Typing(f) ELSE TypeStep(a, f, g[k - 1], f.code[k])
  BY DEF IsTyping
<1>2. \A k \in 0..(n + 1) :
        h[k] = IF k = 0 THEN Typing(f) ELSE TypeStep(a, f, h[k - 1], f.code[k])
  BY <1>1
<1>3. h = [k \in 0..(n + 1) |-> IF k = 0 THEN Typing(f) ELSE TypeStep(a, f, h[k - 1], f.code[k])]
  BY <1>2
<1>4. IsTyping(a, f, n + 1, h)
  BY <1>3 DEF IsTyping
<1> QED
  BY <1>4

LEMMA TypingExists ==
  ASSUME NEW a, NEW f, NEW N \in Nat
  PROVE  \E g : IsTyping(a, f, N, g)
<1> DEFINE T == {n \in Nat : ~\E g : IsTyping(a, f, n, g)}
<1>1. ASSUME T # {} PROVE FALSE
  <2>1. PICK n \in T : \A k \in T : n <= k
    BY <1>1, LeastNumber
  <2>2. n # 0
    <3> DEFINE g == [k \in 0..0 |-> Typing(f)]
    <3>1. g = [k \in 0..0 |-> IF k = 0 THEN Typing(f) ELSE TypeStep(a, f, g[k - 1], f.code[k])]
      OBVIOUS
    <3>2. IsTyping(a, f, 0, g)
      BY <3>1 DEF IsTyping
    <3> QED
      BY <3>2
  <2>3. n - 1 \in Nat /\ n - 1 \notin T
    BY <2>1, <2>2
  <2>4. \E g : IsTyping(a, f, n - 1, g)
    BY <2>3
  <2>5. \E g : IsTyping(a, f, (n - 1) + 1, g)
    BY <2>3, <2>4, TypingExtends
  <2> QED
    BY <2>1, <2>5
<1> QED
  BY <1>1

LEMMA TypingsAreChosen ==
  ASSUME NEW a, NEW f
  PROVE  Typings(a, f) = CHOOSE g : IsTyping(a, f, Len(f.code), g)
BY DEF Typings, IsTyping

\* What Typings answers for the empty prefix and for a longer one.
LEMMA TypingsUnfold ==
  ASSUME NEW a, NEW f, Len(f.code) \in Nat
  PROVE  /\ Typings(a, f)[0] = Typing(f)
         /\ \A n \in 1..Len(f.code) :
              Typings(a, f)[n] = TypeStep(a, f, Typings(a, f)[n - 1], f.code[n])
<1>1. IsTyping(a, f, Len(f.code), Typings(a, f))
  BY TypingsAreChosen, TypingExists
<1> QED
  BY <1>1 DEF IsTyping

-----------------------------------------------------------------------------
\* The states of the abstract interpreter.
EntryRecord == [type : JoanType, label : JoanLabel]
TypingRecord ==
  [stack : Seq(EntryRecord), ready : SUBSET Nat, used : SUBSET Nat, sound : BOOLEAN, peak : Nat]

LEMMA TypeOfTyped ==
  ASSUME NEW v \in JoanValue
  PROVE  TypeOf(v) \in JoanType
BY DEF JoanValue, JoanType, TypeOf, UnitValue

LEMMA LabelOfTyped ==
  ASSUME NEW l \in JoanLabel
  PROVE  LabelOf(l) \in JoanLabel
BY DEF JoanLabel, LabelOf, NoLabel, Public

LEMMA JoinTyped ==
  ASSUME NEW l \in JoanLabel, NEW r \in JoanLabel, Join(l, r) # Incompatible
  PROVE  Join(l, r) \in JoanLabel
BY DEF Join

LEMMA LabelAtTyped ==
  ASSUME NEW f \in BytecodeFunction, NEW slot \in Nat,
         f.localLabels # Absent => slot \in DOMAIN f.localLabels[1]
  PROVE  LabelAt(f, slot) \in JoanLabel
<1>1. CASE f.localLabels = Absent
  BY <1>1 DEF LabelAt, JoanLabel
<1>2. CASE f.localLabels # Absent
  <2>1. f.localLabels \in Optional(Seq(JoanLabel)) /\ f.localLabels # Absent
    BY <1>2 DEF BytecodeFunction
  <2>2. f.localLabels[1] \in Seq(JoanLabel)
    BY <2>1 DEF Optional, Absent
  <2>3. f.localLabels[1][slot] \in JoanLabel
    BY <2>2, <1>2
  <2> QED
    BY <1>2, <2>3 DEF LabelAt
<1> QED
  BY <1>1, <1>2

LEMMA BelowTyped ==
  ASSUME NEW t \in TypingRecord, NEW n \in Nat, Depth(t, n)
  PROVE  /\ Below(t, n) \in Seq(EntryRecord)
         /\ Len(Below(t, n)) = Len(t.stack) - n
         /\ \A k \in 1..(Len(t.stack) - n) : Below(t, n)[k] = t.stack[k]
         /\ Top(t, n) \in Seq(EntryRecord)
         /\ Len(Top(t, n)) = n
         /\ \A k \in 1..n : Top(t, n)[k] = t.stack[Len(t.stack) - n + k]
<1>1. t.stack \in Seq(EntryRecord) /\ Len(t.stack) \in Nat /\ n <= Len(t.stack)
  BY DEF TypingRecord, Depth
<1> QED
  BY <1>1 DEF Below, Top

LEMMA Push1Typed ==
  ASSUME NEW t \in TypingRecord, NEW n \in Nat, Depth(t, n), NEW e \in EntryRecord
  PROVE  /\ Push1(t, n, e) \in TypingRecord
         /\ Push1(t, n, e) = [t EXCEPT !.stack = Append(Below(t, n), e)]
         /\ Append(Below(t, n), e) \in Seq(EntryRecord)
         /\ Push1(t, n, e).stack = Append(Below(t, n), e)
         /\ Push1(t, n, e).ready = t.ready /\ Push1(t, n, e).used = t.used
<1>1. Below(t, n) \in Seq(EntryRecord)
  BY BelowTyped
<1>2. Append(Below(t, n), e) \in Seq(EntryRecord)
  BY <1>1
<1> QED
  BY <1>2 DEF Push1, TypingRecord

LEMMA UnsoundTyped ==
  ASSUME NEW t \in TypingRecord
  PROVE  Unsound(t) \in TypingRecord /\ ~Unsound(t).sound
BY DEF Unsound, TypingRecord

\* The fields of a decoded instruction.
LEMMA InstructionFields ==
  ASSUME NEW i \in Instruction
  PROVE  /\ i.op \in {"push", "load", "store", "call", "request", "pop", "return"} \union Operations
         /\ i.op = "push" => i.value \in JoanValue
         /\ i.op \in {"load", "store"} => i.slot \in Nat
         /\ i.op = "call" => i.callee \in Nat /\ i.count \in Nat
         /\ i.op = "request" => /\ i.effect \in Nat /\ i.slot \in Optional(Nat)
                                /\ i.label \in JoanLabel /\ i.count \in Nat
<1> DEFINE P == [op : {"push"}, value : JoanValue]
           S == [op : {"load", "store"}, slot : Nat]
           C == [op : {"call"}, callee : Nat, count : Nat]
           R == [op : {"request"}, effect : Nat, slot : Optional(Nat), label : JoanLabel, count : Nat]
           O == [op : Operations \union {"pop", "return"}]
<1>1. i \in P \/ i \in S \/ i \in C \/ i \in R \/ i \in O
  BY DEF Instruction
<1>2. {"push", "load", "store", "call", "request"} \cap (Operations \union {"pop", "return"}) = {}
  BY DEF Operations, Arithmetic, Comparison, Equality, Logic
<1>3. CASE i \in P
  BY <1>3
<1>4. CASE i \in S
  BY <1>4
<1>5. CASE i \in C
  BY <1>5
<1>6. CASE i \in R
  BY <1>6
<1>7. CASE i \in O
  BY <1>7, <1>2
<1> QED
  BY <1>1, <1>3, <1>4, <1>5, <1>6, <1>7

\* In tables that passed, every local has a label.
LEMMA TableLabels ==
  ASSUME NEW a, NEW f \in BytecodeFunction, InformationTable(a, f), NEW slot \in DOMAIN f.locals
  PROVE  LabelAt(f, slot) \in JoanLabel
<1>1. f.locals \in Seq(JoanType) /\ slot \in Nat
  BY DEF BytecodeFunction
<1>2. ASSUME f.localLabels # Absent
      PROVE  slot \in DOMAIN f.localLabels[1]
  <2>1. Len(f.localLabels[1]) = Len(f.locals)
    BY <1>2 DEF InformationTable
  <2>2. f.localLabels \in Optional(Seq(JoanLabel)) /\ f.localLabels # Absent
    BY <1>2 DEF BytecodeFunction
  <2>3. f.localLabels[1] \in Seq(JoanLabel)
    BY <2>2 DEF Optional, Absent
  <2> QED
    BY <2>1, <2>3, <1>1
<1> QED
  BY <1>1, <1>2, LabelAtTyped

\* What each instruction does to a typing it leaves sound.
Kept(t, n) == [t EXCEPT !.stack = Below(t, n)]
Stored(t, slot) == [t EXCEPT !.stack = Below(t, 1), !.ready = @ \union {slot}]
Requested(t, n, slots) == [t EXCEPT !.stack = Below(t, n), !.used = @ \union ToSet(slots)]
Emptied(t) == [t EXCEPT !.stack = <<>>]

\* An instruction that leaves the typing sound met its rule, and does this to it.
LEMMA PushTypes ==
  ASSUME NEW a, NEW f, NEW t \in TypingRecord, t.sound, NEW i, i.op = "push"
  PROVE  TypeInstruction(a, f, t, i) =
           Push1(t, 0, Entry(TypeOf(i.value), Public))
BY DEF TypeInstruction

LEMMA LoadTypes ==
  ASSUME NEW a, NEW f, NEW t \in TypingRecord, t.sound, NEW i, i.op = "load",
         TypeInstruction(a, f, t, i).sound
  PROVE  /\ i.slot \in DOMAIN f.locals /\ i.slot \in t.ready
         /\ TypeInstruction(a, f, t, i) =
              Push1(t, 0, Entry(f.locals[i.slot], LabelAt(f, i.slot)))
<1>1. TypeInstruction(a, f, t, i) = TypeLoad(f, t, i)
  BY DEF TypeInstruction
<1> QED
  BY <1>1, UnsoundTyped DEF TypeLoad

LEMMA StoreTypes ==
  ASSUME NEW a, NEW f, NEW t \in TypingRecord, t.sound, NEW i, i.op = "store",
         TypeInstruction(a, f, t, i).sound
  PROVE  /\ i.slot \in DOMAIN f.locals /\ i.slot \notin t.ready
         /\ Depth(t, 1) /\ Top(t, 1)[1].type = f.locals[i.slot]
         /\ CanFlow(Top(t, 1)[1].label, LabelAt(f, i.slot))
         /\ TypeInstruction(a, f, t, i) =
              Stored(t, i.slot)
<1>1. TypeInstruction(a, f, t, i) = TypeStore(f, t, i)
  BY DEF TypeInstruction
<1> QED
  BY <1>1, UnsoundTyped DEF TypeStore, Stored

LEMMA PopTypes ==
  ASSUME NEW a, NEW f, NEW t \in TypingRecord, t.sound, NEW i, i.op = "pop",
         TypeInstruction(a, f, t, i).sound
  PROVE  Depth(t, 1) /\ TypeInstruction(a, f, t, i) = Kept(t, 1)
<1>1. TypeInstruction(a, f, t, i) =
        IF Depth(t, 1) THEN Kept(t, 1) ELSE Unsound(t)
  BY DEF TypeInstruction, Kept
<1> QED
  BY <1>1, UnsoundTyped

LEMMA UnaryTypes ==
  ASSUME NEW a, NEW f, NEW t \in TypingRecord, t.sound, NEW i, i.op \in {"negate", "not"},
         TypeInstruction(a, f, t, i).sound
  PROVE  /\ Depth(t, 1) /\ Top(t, 1)[1].type = IF i.op = "negate" THEN "i64" ELSE "bool"
         /\ TypeInstruction(a, f, t, i) = t
<1>1. TypeInstruction(a, f, t, i) = TypeUnary(t, IF i.op = "negate" THEN "i64" ELSE "bool")
  BY DEF TypeInstruction
<1> QED
  BY <1>1, UnsoundTyped DEF TypeUnary

LEMMA BinaryTypes ==
  ASSUME NEW a, NEW f, NEW t \in TypingRecord, t.sound, NEW i,
         i.op \in Operations \ {"negate", "not"}, TypeInstruction(a, f, t, i).sound
  PROVE  LET left == Top(t, 2)[1]
             right == Top(t, 2)[2]
         IN  /\ Depth(t, 2)
             /\ i.op \in Equality => left.type = right.type
             /\ i.op \in Logic => left.type = "bool" /\ right.type = "bool"
             /\ i.op \in Arithmetic \union Comparison => left.type = "i64" /\ right.type = "i64"
             /\ Join(left.label, right.label) # Incompatible
             /\ TypeInstruction(a, f, t, i) =
                  Push1(t, 2, Entry(IF i.op \in Arithmetic THEN "i64" ELSE "bool",
                                    Join(left.label, right.label)))
<1>1. i.op \notin {"push", "load", "store", "pop", "negate", "not", "call", "request", "return"}
  BY DEF Operations, Arithmetic, Comparison, Equality, Logic
<1>2. TypeInstruction(a, f, t, i) = TypeBinary(t, i.op)
  BY <1>1, Zenon DEF TypeInstruction
<1>3. i.op \in Arithmetic \union Comparison => i.op \notin Equality \union Logic
  BY DEF Arithmetic, Comparison, Equality, Logic
<1>4. i.op \in Logic => i.op \notin Equality
  BY DEF Equality, Logic
<1> QED
  BY <1>2, <1>3, <1>4, UnsoundTyped DEF TypeBinary

LEMMA CallTypes ==
  ASSUME NEW a, NEW f, NEW t \in TypingRecord, t.sound, NEW i, i.op = "call",
         TypeInstruction(a, f, t, i).sound
  PROVE  /\ i.callee \in DOMAIN a.functions
         /\ i.count = Len(a.functions[i.callee].params)
         /\ Depth(t, i.count)
         /\ ToSet(a.functions[i.callee].effects) \subseteq ToSet(f.effects)
         /\ TypeInstruction(a, f, t, i) =
              Push1(t, i.count, Entry(a.functions[i.callee].ret, LabelOf(a.functions[i.callee].retLabel)))
<1>1. TypeInstruction(a, f, t, i) = TypeCall(a, f, t, i)
  BY DEF TypeInstruction
<1> QED
  BY <1>1, UnsoundTyped DEF TypeCall

LEMMA CallArgumentTypes ==
  ASSUME NEW a, NEW f, NEW t \in TypingRecord, t.sound, NEW i, i.op = "call",
         TypeInstruction(a, f, t, i).sound, NEW k \in 1..i.count
  PROVE  /\ Top(t, i.count)[k].type = a.functions[i.callee].params[k]
         /\ a.functions[i.callee].paramLabels # Absent =>
              CanFlow(Top(t, i.count)[k].label, a.functions[i.callee].paramLabels[1][k])
<1>1. TypeInstruction(a, f, t, i) = TypeCall(a, f, t, i)
  BY DEF TypeInstruction
<1> QED
  BY <1>1, UnsoundTyped DEF TypeCall

LEMMA RequestTypes ==
  ASSUME NEW a, NEW f, NEW t \in TypingRecord, t.sound, NEW i, i.op = "request",
         TypeInstruction(a, f, t, i).sound
  PROVE  /\ i.effect \in ToSet(f.effects)
         /\ Depth(t, i.count)
         /\ LabelPresence(a.ast, i.label)
         /\ \A e \in ToSet(Top(t, i.count)) : CanFlow(e.label, LabelOf(i.label))
         /\ SlotGranted(a, f, t, i)
         /\ TypeInstruction(a, f, t, i) =
              Requested(t, i.count, i.slot)
<1>1. TypeInstruction(a, f, t, i) = TypeRequest(a, f, t, i)
  BY DEF TypeInstruction
<1> QED
  BY <1>1, UnsoundTyped DEF TypeRequest, Requested

LEMMA ReturnTypes ==
  ASSUME NEW a, NEW f, NEW t \in TypingRecord, t.sound, NEW i, i.op = "return",
         TypeInstruction(a, f, t, i).sound
  PROVE  /\ Len(t.stack) = 1 /\ t.stack[1].type = f.ret
         /\ CanFlow(t.stack[1].label, LabelOf(f.retLabel))
         /\ TypeInstruction(a, f, t, i) = Emptied(t)
<1>1. TypeInstruction(a, f, t, i) = TypeReturn(f, t)
  BY DEF TypeInstruction
<1> QED
  BY <1>1, UnsoundTyped DEF TypeReturn, Emptied

\* A typing that is not sound stays as it is, and what is refused is marked.
LEMMA TypingIsSticky ==
  ASSUME NEW a, NEW f, NEW t \in TypingRecord, ~t.sound, NEW i
  PROVE  TypeInstruction(a, f, t, i) = t
BY DEF TypeInstruction

LEMMA SoundOrMarked ==
  ASSUME NEW a, NEW f, NEW t \in TypingRecord, t.sound, NEW i \in Instruction,
         TypeInstruction(a, f, t, i) # Unsound(t)
  PROVE  TypeInstruction(a, f, t, i).sound
<1> DEFINE next == TypeInstruction(a, f, t, i)
<1>1. CASE i.op = "push"
  BY <1>1 DEF TypeInstruction, TypingRecord, Push1
<1>2. CASE i.op = "load"
  BY <1>2 DEF TypeInstruction, TypeLoad, Push1, TypingRecord
<1>3. CASE i.op = "store"
  BY <1>3 DEF TypeInstruction, TypeStore, TypingRecord
<1>4. CASE i.op = "pop"
  BY <1>4 DEF TypeInstruction, TypingRecord
<1>5. CASE i.op \in {"negate", "not"}
  BY <1>5 DEF TypeInstruction, TypeUnary, TypingRecord
<1>6. CASE i.op = "call"
  BY <1>6 DEF TypeInstruction, TypeCall, Push1, TypingRecord
<1>7. CASE i.op = "request"
  BY <1>7 DEF TypeInstruction, TypeRequest, TypingRecord
<1>8. CASE i.op = "return"
  BY <1>8 DEF TypeInstruction, TypeReturn, TypingRecord
<1>9. CASE i.op \in Operations \ {"negate", "not"}
  <2>1. i.op \notin {"push", "load", "store", "pop", "negate", "not", "call", "request", "return"}
    BY <1>9 DEF Operations, Arithmetic, Comparison, Equality, Logic
  <2>2. TypeInstruction(a, f, t, i) = TypeBinary(t, i.op)
    BY <2>1, Zenon DEF TypeInstruction
  <2> QED
    BY <2>2 DEF TypeBinary, Push1, TypingRecord
<1> QED
  BY <1>1, <1>2, <1>3, <1>4, <1>5, <1>6, <1>7, <1>8, <1>9, InstructionFields

LEMMA EntryTyped ==
  ASSUME NEW type \in JoanType, NEW label \in JoanLabel
  PROVE  Entry(type, label) \in EntryRecord
BY DEF Entry, EntryRecord

LEMMA StackTyped ==
  ASSUME NEW t \in TypingRecord, NEW s \in Seq(EntryRecord)
  PROVE  [t EXCEPT !.stack = s] \in TypingRecord
BY DEF TypingRecord

LEMMA ReplacedTyped ==
  ASSUME NEW t \in TypingRecord, NEW n \in Nat, Depth(t, n),
         NEW type \in JoanType, NEW label \in JoanLabel
  PROVE  Push1(t, n, Entry(type, label)) \in TypingRecord
<1>1. Below(t, n) \in Seq(EntryRecord)
  BY BelowTyped
<1>2. Append(Below(t, n), Entry(type, label)) \in Seq(EntryRecord)
  BY <1>1, EntryTyped
<1> QED
  BY <1>2, StackTyped DEF Push1

LEMMA DepthZero ==
  ASSUME NEW t \in TypingRecord
  PROVE  Depth(t, 0)
BY DEF Depth, TypingRecord

\* Every instruction takes a typing to a typing.
LEMMA InstructionTyped ==
  ASSUME NEW a, IsDecoded(a), NEW f \in BytecodeFunction, InformationTable(a, f),
         NEW t \in TypingRecord, NEW i \in Instruction
  PROVE  TypeInstruction(a, f, t, i) \in TypingRecord
<1> DEFINE next == TypeInstruction(a, f, t, i)
<1>1. CASE ~t.sound
  BY <1>1, TypingIsSticky
<1>2. CASE next = Unsound(t)
  BY <1>2, UnsoundTyped
<1>3. CASE t.sound /\ next # Unsound(t)
  <2>1. next.sound
    BY <1>3, SoundOrMarked
  <2>2. CASE i.op = "push"
    <3>1. TypeOf(i.value) \in JoanType
      BY <2>2, InstructionFields, TypeOfTyped
    <3>2. Public \in JoanLabel
      BY DEF JoanLabel
    <3> QED
      BY <1>3, <2>2, <3>1, <3>2, PushTypes, ReplacedTyped, DepthZero
  <2>3. CASE i.op = "load"
    <3>1. i.slot \in DOMAIN f.locals
      BY <1>3, <2>1, <2>3, LoadTypes
    <3>2. f.locals[i.slot] \in JoanType /\ LabelAt(f, i.slot) \in JoanLabel
      BY <3>1, TableLabels DEF BytecodeFunction
    <3> QED
      BY <1>3, <2>1, <2>3, <3>2, LoadTypes, ReplacedTyped, DepthZero
  <2>4. CASE i.op = "store"
    <3>1. Depth(t, 1) /\ next = Stored(t, i.slot)
      BY <1>3, <2>1, <2>4, StoreTypes
    <3>2. i.slot \in Nat
      BY <2>4, InstructionFields
    <3>3. Below(t, 1) \in Seq(EntryRecord)
      BY <3>1, BelowTyped
    <3> QED
      BY <3>1, <3>2, <3>3 DEF TypingRecord, Stored
  <2>5. CASE i.op = "pop"
    <3>1. Depth(t, 1) /\ next = Kept(t, 1)
      BY <1>3, <2>1, <2>5, PopTypes
    <3>2. Below(t, 1) \in Seq(EntryRecord)
      BY <3>1, BelowTyped
    <3> QED
      BY <3>1, <3>2, StackTyped DEF Kept
  <2>6. CASE i.op \in {"negate", "not"}
    BY <1>3, <2>1, <2>6, UnaryTypes
  <2>7. CASE i.op \in Operations \ {"negate", "not"}
    <3> DEFINE left == Top(t, 2)[1]
               right == Top(t, 2)[2]
               type == IF i.op \in Arithmetic THEN "i64" ELSE "bool"
    <3>1. /\ Depth(t, 2) /\ Join(left.label, right.label) # Incompatible
          /\ next = Push1(t, 2, Entry(type, Join(left.label, right.label)))
      BY <1>3, <2>1, <2>7, BinaryTypes
    <3>2. left \in EntryRecord /\ right \in EntryRecord
      BY <3>1, BelowTyped
    <3>3. Join(left.label, right.label) \in JoanLabel
      BY <3>1, <3>2, JoinTyped DEF EntryRecord
    <3>4. type \in JoanType
      BY DEF JoanType
    <3> QED
      BY <3>1, <3>3, <3>4, ReplacedTyped
  <2>8. CASE i.op = "call"
    <3> DEFINE target == a.functions[i.callee]
    <3>1. /\ i.callee \in DOMAIN a.functions /\ Depth(t, i.count)
          /\ next = Push1(t, i.count, Entry(target.ret, LabelOf(target.retLabel)))
      BY <1>3, <2>1, <2>8, CallTypes
    <3>2. target \in BytecodeFunction
      BY <3>1 DEF IsDecoded
    <3>3. target.ret \in JoanType /\ LabelOf(target.retLabel) \in JoanLabel
      BY <3>2, LabelOfTyped DEF BytecodeFunction
    <3>4. i.count \in Nat
      BY <2>8, InstructionFields
    <3> QED
      BY <3>1, <3>3, <3>4, ReplacedTyped
  <2>9. CASE i.op = "request"
    <3>1. /\ Depth(t, i.count)
          /\ next = Requested(t, i.count, i.slot)
      BY <1>3, <2>1, <2>9, RequestTypes
    <3>2. i.count \in Nat /\ i.slot \in Optional(Nat)
      BY <2>9, InstructionFields
    <3>3. Below(t, i.count) \in Seq(EntryRecord)
      BY <3>1, <3>2, BelowTyped
    <3>4. ToSet(i.slot) \subseteq Nat
      BY <3>2 DEF ToSet, Optional, Absent
    <3> QED
      BY <3>1, <3>3, <3>4 DEF TypingRecord, Requested
  <2>10. CASE i.op = "return"
    <3>1. next = Emptied(t)
      BY <1>3, <2>1, <2>10, ReturnTypes
    <3>2. <<>> \in Seq(EntryRecord)
      OBVIOUS
    <3> QED
      BY <3>1, <3>2, StackTyped DEF Emptied
  <2> QED
    BY <2>2, <2>3, <2>4, <2>5, <2>6, <2>7, <2>8, <2>9, <2>10, InstructionFields
<1> QED
  BY <1>1, <1>2, <1>3

-----------------------------------------------------------------------------
\* An accepted artifact, and the typing of its k-th function after n instructions.
Verified(a) == IsDecoded(a) /\ StructureSound(a) /\ StructureLimits(a)
After(a, k, n) == Typings(a, a.functions[k])[n]
CodeOf(a, k) == a.functions[k].code

\* The parts of the verdict, function by function.
LEMMA VerifiedTables ==
  ASSUME NEW a, Verified(a), NEW k \in DOMAIN a.functions
  PROVE  /\ k \in Nat /\ Len(a.functions) \in Nat /\ DOMAIN a.functions = 1..Len(a.functions)
         /\ a.functions[k] \in BytecodeFunction
         /\ InformationTable(a, a.functions[k])
         /\ AuthorityTable(a, a.functions[k])
         /\ FrameTable(a.functions[k])
         /\ FunctionSound(a, a.functions[k])
         /\ CodeOf(a, k) \in Seq(Instruction)
         /\ Len(CodeOf(a, k)) \in Nat /\ DOMAIN CodeOf(a, k) = 1..Len(CodeOf(a, k))
<1>1. a.functions \in Seq(BytecodeFunction)
  BY DEF Verified, IsDecoded
<1>2. a.functions[k] \in ToSet(a.functions)
  BY DEF ToSet
<1>3. a.functions[k] \in BytecodeFunction
  BY <1>1
<1>4. CodeOf(a, k) \in Seq(Instruction)
  BY <1>3 DEF BytecodeFunction, CodeOf
<1> QED
  BY <1>1, <1>2, <1>3, <1>4 DEF Verified, StructureSound

\* The step besides keeps the highest stack.
LEMMA StepTyped ==
  ASSUME NEW a, IsDecoded(a), NEW f \in BytecodeFunction, InformationTable(a, f),
         NEW t \in TypingRecord, NEW i \in Instruction
  PROVE  LET next == TypeInstruction(a, f, t, i)
             after == TypeStep(a, f, t, i)
         IN  /\ after \in TypingRecord
             /\ after.stack = next.stack /\ after.ready = next.ready
             /\ after.used = next.used /\ after.sound = next.sound
             /\ Len(after.stack) <= after.peak /\ next.peak <= after.peak
<1> DEFINE next == TypeInstruction(a, f, t, i)
<1>1. next \in TypingRecord
  BY InstructionTyped
<1> HIDE DEF next
<1>2. Len(next.stack) \in Nat /\ next.peak \in Nat
  BY <1>1 DEF TypingRecord
<1>3. TypeStep(a, f, t, i) =
        [next EXCEPT !.peak = IF Len(next.stack) > @ THEN Len(next.stack) ELSE @]
  BY DEF TypeStep, next
<1>4. DEFINE after == [next EXCEPT !.peak = IF Len(next.stack) > @ THEN Len(next.stack) ELSE @]
<1>5. /\ after \in TypingRecord
      /\ after.stack = next.stack /\ after.ready = next.ready
      /\ after.used = next.used /\ after.sound = next.sound
      /\ Len(after.stack) <= after.peak /\ next.peak <= after.peak
  BY <1>1, <1>2, SMTT(20) DEF TypingRecord
<1> QED
  BY <1>3, <1>5 DEF next

LEMMA TypingTyped ==
  ASSUME NEW f \in BytecodeFunction
  PROVE  Typing(f) \in TypingRecord
<1>1. <<>> \in Seq(EntryRecord) /\ 1..Len(f.params) \subseteq Nat
  OBVIOUS
<1> QED
  BY <1>1 DEF Typing, TypingRecord

\* The typing after one more instruction is a step from the one before.
LEMMA AfterUnfolds ==
  ASSUME NEW a, Verified(a), NEW k \in DOMAIN a.functions
  PROVE  /\ After(a, k, 0) = Typing(a.functions[k])
         /\ \A n \in 1..Len(CodeOf(a, k)) :
              After(a, k, n) = TypeStep(a, a.functions[k], After(a, k, n - 1), CodeOf(a, k)[n])
BY VerifiedTables, TypingsUnfold DEF After, CodeOf

LEMMA AfterTyped ==
  ASSUME NEW a, Verified(a), NEW k \in DOMAIN a.functions
  PROVE  \A n \in 0..Len(CodeOf(a, k)) : After(a, k, n) \in TypingRecord
<1> DEFINE T == {n \in 0..Len(CodeOf(a, k)) : After(a, k, n) \notin TypingRecord}
<1>1. ASSUME T # {} PROVE FALSE
  <2>1. T \subseteq Nat
    OBVIOUS
  <2>2. PICK n \in T : \A j \in T : n <= j
    BY <1>1, <2>1, LeastNumber
  <2>3. n # 0
    <3>1. a.functions[k] \in BytecodeFunction
      BY VerifiedTables
    <3> QED
      BY <2>2, <3>1, AfterUnfolds, TypingTyped
  <2>4. n \in 1..Len(CodeOf(a, k)) /\ n - 1 \in 0..Len(CodeOf(a, k)) /\ n - 1 \notin T
    BY <2>2, <2>3, VerifiedTables
  <2>5. After(a, k, n - 1) \in TypingRecord /\ CodeOf(a, k)[n] \in Instruction
    BY <2>4, VerifiedTables
  <2>6. After(a, k, n) = TypeStep(a, a.functions[k], After(a, k, n - 1), CodeOf(a, k)[n])
    BY <2>4, AfterUnfolds
  <2>7. After(a, k, n) \in TypingRecord
    BY <2>5, <2>6, StepTyped, VerifiedTables DEF Verified
  <2> QED
    BY <2>2, <2>7
<1> QED
  BY <1>1

\* One more instruction: what the typing before it and the one after it have to do
\* with each other.
LEMMA AfterSteps ==
  ASSUME NEW a, Verified(a), NEW k \in DOMAIN a.functions, NEW n \in 1..Len(CodeOf(a, k))
  PROVE  LET next == TypeInstruction(a, a.functions[k], After(a, k, n - 1), CodeOf(a, k)[n])
             after == After(a, k, n)
         IN  /\ after \in TypingRecord /\ After(a, k, n - 1) \in TypingRecord
             /\ CodeOf(a, k)[n] \in Instruction
             /\ after.stack = next.stack /\ after.ready = next.ready
             /\ after.used = next.used /\ after.sound = next.sound
             /\ Len(after.stack) <= after.peak /\ next.peak <= after.peak
<1>1. n - 1 \in 0..Len(CodeOf(a, k)) /\ n \in 0..Len(CodeOf(a, k))
  BY VerifiedTables
<1>2. CodeOf(a, k)[n] \in Instruction
  BY VerifiedTables
<1>3. After(a, k, n) = TypeStep(a, a.functions[k], After(a, k, n - 1), CodeOf(a, k)[n])
  BY AfterUnfolds
<1>4. After(a, k, n) \in TypingRecord /\ After(a, k, n - 1) \in TypingRecord
  BY <1>1, AfterTyped
<1> QED
  BY <1>2, <1>3, <1>4, StepTyped, VerifiedTables DEF Verified

\* A code that ends sound was sound all along.
LEMMA AfterSound ==
  ASSUME NEW a, Verified(a), NEW k \in DOMAIN a.functions
  PROVE  \A n \in 0..Len(CodeOf(a, k)) : After(a, k, n).sound
<1> DEFINE N == Len(CodeOf(a, k))
           T == {m \in 0..N : ~After(a, k, N - m).sound}
<1>0. N \in Nat
  BY VerifiedTables
<1>1. ASSUME T # {} PROVE FALSE
  <2>1. T \subseteq Nat
    OBVIOUS
  <2>2. PICK m \in T : \A j \in T : m <= j
    BY <1>1, <2>1, LeastNumber
  <2>3. m # 0
    <3>1. TypeCode(a, a.functions[k]).sound
      BY VerifiedTables DEF FunctionSound
    <3> QED
      BY <2>2, <3>1, <1>0 DEF TypeCode, After, CodeOf
  <2>4. m - 1 \in 0..N /\ m - 1 \notin T /\ N - m + 1 \in 1..N /\ N - (m - 1) = N - m + 1
    BY <2>2, <2>3, <1>0
  <2>5. After(a, k, N - m + 1).sound
    BY <2>4
  <2>6. ~After(a, k, N - m).sound
    BY <2>2
  <2> DEFINE n == N - m + 1
  <2>7. n \in 1..N /\ n - 1 = N - m
    BY <2>2, <2>4, <1>0
  <2>8. TypeInstruction(a, a.functions[k], After(a, k, n - 1), CodeOf(a, k)[n]) = After(a, k, n - 1)
    BY <2>6, <2>7, AfterSteps, TypingIsSticky
  <2> QED
    BY <2>5, <2>6, <2>7, <2>8, AfterSteps
<1> QED
  BY <1>1, <1>0

-----------------------------------------------------------------------------
\* What operators compute has the type the verifier gives it.
LEMMA IntegerValue ==
  ASSUME NEW v \in JoanValue, TypeOf(v) = "i64"
  PROVE  v = <<"i64", v[2]>> /\ v[2] \in Int
BY DEF JoanValue, TypeOf, UnitValue

LEMMA BooleanValue ==
  ASSUME NEW v \in JoanValue, TypeOf(v) = "bool"
  PROVE  v = <<"bool", v[2]>> /\ v[2] \in BOOLEAN
BY DEF JoanValue, TypeOf, UnitValue

LEMMA MadeValues ==
  /\ \A n \in Int : <<"i64", n>> \in JoanValue /\ TypeOf(<<"i64", n>>) = "i64"
  /\ \A b \in BOOLEAN : <<"bool", b>> \in JoanValue /\ TypeOf(<<"bool", b>>) = "bool"
BY DEF JoanValue, TypeOf

LEMMA CheckedTyped ==
  ASSUME NEW n, Checked(n) # <<>>
  PROVE  Checked(n) \in JoanValue /\ TypeOf(Checked(n)) = "i64"
<1>1. n \in Int /\ Checked(n) = <<"i64", n>>
  BY IntegerAssumption DEF Checked
<1> QED
  BY <1>1, MadeValues

LEMMA TruncatedTyped ==
  ASSUME NEW a \in Int, NEW b \in Int, b # 0
  PROVE  Truncated(a, b) \in Int
<1>1. Magnitude(a) \in Nat /\ Magnitude(b) \in Nat \ {0}
  BY DEF Magnitude
<1>2. Magnitude(a) \div Magnitude(b) \in Int
  BY <1>1
<1> QED
  BY <1>2 DEF Truncated

LEMMA ArithmeticTyped ==
  ASSUME NEW op \in Arithmetic, NEW a \in Int, NEW b \in Int, ArithmeticResult(op, a, b) # <<>>
  PROVE  ArithmeticResult(op, a, b) \in JoanValue /\ TypeOf(ArithmeticResult(op, a, b)) = "i64"
<1>1. CASE op \in {"add", "subtract", "multiply"}
  <2>1. \E n : ArithmeticResult(op, a, b) = Checked(n)
    BY <1>1 DEF ArithmeticResult
  <2> QED
    BY <2>1, CheckedTyped
<1>2. CASE op = "divide"
  <2>1. ArithmeticResult(op, a, b) = Checked(Truncated(a, b))
    BY <1>2 DEF ArithmeticResult
  <2> QED
    BY <2>1, CheckedTyped
<1>3. CASE op = "remainder"
  <2>1. b # 0 /\ ArithmeticResult(op, a, b) = <<"i64", a - b * Truncated(a, b)>>
    BY <1>3 DEF ArithmeticResult
  <2>2. a - b * Truncated(a, b) \in Int
    BY <2>1, TruncatedTyped
  <2> QED
    BY <2>1, <2>2, MadeValues
<1> QED
  BY <1>1, <1>2, <1>3 DEF Arithmetic

LEMMA ComparisonTyped ==
  ASSUME NEW op \in Comparison, NEW a \in Int, NEW b \in Int
  PROVE  ComparisonResult(op, a, b) \in JoanValue /\ TypeOf(ComparisonResult(op, a, b)) = "bool"
<1> DEFINE c == \/ op = "less" /\ a < b
                \/ op = "less_equal" /\ a <= b
                \/ op = "greater" /\ a > b
                \/ op = "greater_equal" /\ a >= b
<1>1. c \in BOOLEAN
  OBVIOUS
<1>2. ComparisonResult(op, a, b) = <<"bool", c>>
  BY DEF ComparisonResult
<1> QED
  BY <1>1, <1>2, MadeValues

LEMMA EqualityTyped ==
  ASSUME NEW op, NEW left, NEW right
  PROVE  EqualityResult(op, left, right) \in JoanValue /\ TypeOf(EqualityResult(op, left, right)) = "bool"
<1>1. ((left = right) = (op = "equal")) \in BOOLEAN
  OBVIOUS
<1> QED
  BY <1>1, MadeValues DEF EqualityResult

LEMMA LogicTyped ==
  ASSUME NEW op \in Logic, NEW a \in BOOLEAN, NEW b \in BOOLEAN
  PROVE  LogicResult(op, a, b) \in JoanValue /\ TypeOf(LogicResult(op, a, b)) = "bool"
<1>1. (IF op = "and" THEN a /\ b ELSE a \/ b) \in BOOLEAN
  OBVIOUS
<1> QED
  BY <1>1, MadeValues DEF LogicResult

ResultType(op) == IF op \in Arithmetic \union {"negate"} THEN "i64" ELSE "bool"

\* The operator stops with a fault of its own name, or leaves a value of its type.
Answers(op, answer) ==
  \/ answer = <<"fault", op>>
  \/ answer \in JoanValue /\ TypeOf(answer) = ResultType(op)

LEMMA OperandTypes ==
  ASSUME NEW s \in Seq(JoanValue), s # <<>>, NEW type, \A k \in 1..Len(s) : TypeOf(s[k]) = type
  PROVE  \A v \in ToSet(s) : TypeOf(v) = type
<1>1. 1 \in DOMAIN s
  OBVIOUS
<1> QED
  BY <1>1 DEF ToSet

\* Given operands of its types, an operator answers.
LEMMA UnaryAnswers ==
  ASSUME NEW op \in {"negate", "not"}, NEW s \in Seq(JoanValue), Len(s) = 1,
         TypeOf(s[1]) = IF op = "negate" THEN "i64" ELSE "bool"
  PROVE  Answers(op, Compute(op, s))
<1> DEFINE type == IF op = "negate" THEN "i64" ELSE "bool"
<1>1. \A v \in ToSet(s) : TypeOf(v) = type
  <2>1. s # <<>> /\ \A k \in 1..Len(s) : TypeOf(s[k]) = type
    OBVIOUS
  <2> QED
    BY <2>1, OperandTypes
<1>2. s[1] \in JoanValue
  OBVIOUS
<1>3. CASE op = "negate"
  <2>1. Compute(op, s) = IF Checked(-s[1][2]) = <<>> THEN <<"fault", op>> ELSE Checked(-s[1][2])
    BY <1>1, <1>3 DEF Compute, Arithmetic, Comparison, Logic, Equality
  <2> QED
    BY <1>3, <2>1, CheckedTyped DEF Answers, ResultType
<1>4. CASE op = "not"
  <2>1. Compute(op, s) = <<"bool", ~s[1][2]>>
    BY <1>1, <1>4 DEF Compute, Arithmetic, Comparison, Logic, Equality
  <2>2. (~s[1][2]) \in BOOLEAN
    OBVIOUS
  <2>3. ResultType(op) = "bool"
    BY <1>4 DEF ResultType, Arithmetic
  <2> QED
    BY <2>1, <2>2, <2>3, MadeValues DEF Answers
<1> QED
  BY <1>3, <1>4

LEMMA BinaryAnswers ==
  ASSUME NEW op \in Operations \ {"negate", "not"}, NEW s \in Seq(JoanValue), Len(s) = 2,
         op \in Logic => TypeOf(s[1]) = "bool" /\ TypeOf(s[2]) = "bool",
         op \in Arithmetic \union Comparison => TypeOf(s[1]) = "i64" /\ TypeOf(s[2]) = "i64"
  PROVE  Answers(op, Compute(op, s))
<1>1. s[1] \in JoanValue /\ s[2] \in JoanValue /\ s # <<>>
  OBVIOUS
<1>2. \A type : TypeOf(s[1]) = type /\ TypeOf(s[2]) = type => \A v \in ToSet(s) : TypeOf(v) = type
  <2>1. ASSUME NEW type, TypeOf(s[1]) = type, TypeOf(s[2]) = type
        PROVE  \A k \in 1..Len(s) : TypeOf(s[k]) = type
    BY <2>1
  <2> QED
    BY <2>1, <1>1, OperandTypes
<1>3. CASE op \in Arithmetic
  <2>1. \A v \in ToSet(s) : TypeOf(v) = "i64"
    BY <1>2, <1>3
  <2>0. op \notin Equality \union Logic \union {"not"}
    BY <1>3 DEF Arithmetic, Equality, Logic
  <2>2. Compute(op, s) = IF ArithmeticResult(op, s[1][2], s[2][2]) = <<>> THEN <<"fault", op>>
                         ELSE ArithmeticResult(op, s[1][2], s[2][2])
    BY <1>3, <2>0, <2>1 DEF Compute
  <2>3. s[1][2] \in Int /\ s[2][2] \in Int
    BY <1>1, <1>3, IntegerValue
  <2> QED
    BY <1>3, <2>2, <2>3, ArithmeticTyped DEF Answers, ResultType
<1>4. CASE op \in Comparison
  <2>1. \A v \in ToSet(s) : TypeOf(v) = "i64"
    BY <1>2, <1>4
  <2>2. op \notin Arithmetic \union {"negate", "not"} \union Equality \union Logic
    BY <1>4 DEF Arithmetic, Comparison, Equality, Logic
  <2>3. Compute(op, s) = ComparisonResult(op, s[1][2], s[2][2])
    BY <1>4, <2>1, <2>2 DEF Compute
  <2>4. s[1][2] \in Int /\ s[2][2] \in Int
    BY <1>1, <1>4, IntegerValue
  <2> QED
    BY <1>4, <2>2, <2>3, <2>4, ComparisonTyped DEF Answers, ResultType
<1>5. CASE op \in Logic
  <2>1. \A v \in ToSet(s) : TypeOf(v) = "bool"
    BY <1>2, <1>5
  <2>2. op \notin Arithmetic \union Comparison \union {"negate"} \union Equality
    BY <1>5 DEF Arithmetic, Comparison, Logic, Equality
  <2>3. Compute(op, s) = LogicResult(op, s[1][2], s[2][2])
    BY <1>5, <2>1, <2>2 DEF Compute
  <2>4. s[1][2] \in BOOLEAN /\ s[2][2] \in BOOLEAN
    BY <1>1, <1>5, BooleanValue
  <2> QED
    BY <1>5, <2>2, <2>3, <2>4, LogicTyped DEF Answers, ResultType
<1>6. CASE op \in Equality
  <2>1. op \notin Arithmetic \union Comparison \union Logic \union {"negate"}
    BY <1>6 DEF Arithmetic, Comparison, Logic, Equality
  <2>2. Compute(op, s) = EqualityResult(op, s[1], s[2])
    BY <1>6, <2>1 DEF Compute
  <2> QED
    BY <2>1, <2>2, EqualityTyped DEF Answers, ResultType
<1> QED
  BY <1>3, <1>4, <1>5, <1>6 DEF Operations

-----------------------------------------------------------------------------
\* The states of the machine.
FrameRecord ==
  [function : Nat, pc : Nat, stack : Seq(JoanValue), locals : Seq(JoanValue)]
RequestRecord ==
  [index : Nat, function : Nat, effect : Nat, slot : Optional(Nat), label : JoanLabel,
   arguments : Seq(JoanValue)]
Statuses == {"running", "completed", "budget"} \union Operations
MachineRecord ==
  [frames : Seq(FrameRecord), remaining : Nat, executed : Nat, requests : Seq(RequestRecord),
   status : Statuses, result : JoanValue]

\* What is read from and written to a typed machine is typed.
LEMMA ActiveTyped ==
  ASSUME NEW m \in MachineRecord, m.frames # <<>>
  PROVE  /\ Len(m.frames) \in Nat \ {0} /\ Active(m) = m.frames[Len(m.frames)]
         /\ Active(m) \in FrameRecord
<1>1. m.frames \in Seq(FrameRecord)
  BY DEF MachineRecord
<1> QED
  BY <1>1 DEF Active

LEMMA PaidTyped ==
  ASSUME NEW m \in MachineRecord, m.remaining # 0
  PROVE  /\ Paid(m) \in MachineRecord
         /\ Paid(m).frames = m.frames /\ Paid(m).requests = m.requests
         /\ Paid(m).status = m.status /\ Paid(m).result = m.result
         /\ Paid(m).remaining = m.remaining - 1 /\ Paid(m).executed = m.executed + 1
         /\ Active(Paid(m)) = Active(m)
<1>1. m.remaining - 1 \in Nat /\ m.executed + 1 \in Nat
  BY DEF MachineRecord
<1>2. Paid(m) = [[m EXCEPT !.remaining = m.remaining - 1] EXCEPT !.executed = m.executed + 1]
  BY DEF MachineRecord, Paid
<1>3. [m EXCEPT !.remaining = m.remaining - 1] \in MachineRecord
  BY <1>1 DEF MachineRecord
<1>4. Paid(m) \in MachineRecord
  BY <1>1, <1>2, <1>3 DEF MachineRecord
<1>5. /\ Paid(m).frames = m.frames /\ Paid(m).requests = m.requests
      /\ Paid(m).status = m.status /\ Paid(m).result = m.result
      /\ Paid(m).remaining = m.remaining - 1 /\ Paid(m).executed = m.executed + 1
  BY <1>2 DEF MachineRecord
<1> QED
  BY <1>4, <1>5 DEF Active

LEMMA HaltTyped ==
  ASSUME NEW m \in MachineRecord, NEW status \in Statuses
  PROVE  /\ Halt(m, status) \in MachineRecord
         /\ Halt(m, status).frames = <<>> /\ Halt(m, status).status = status
         /\ Halt(m, status).requests = m.requests /\ Halt(m, status).result = m.result
         /\ Halt(m, status).executed = m.executed
<1>1. <<>> \in Seq(FrameRecord)
  OBVIOUS
<1>2. Halt(m, status) = [[m EXCEPT !.status = status] EXCEPT !.frames = <<>>]
  BY DEF MachineRecord, Halt
<1>3. [m EXCEPT !.status = status] \in MachineRecord
  BY DEF MachineRecord
<1> QED
  BY <1>1, <1>2, <1>3 DEF MachineRecord

LEMMA FramesTyped ==
  ASSUME NEW m \in MachineRecord, NEW frames \in Seq(FrameRecord)
  PROVE  /\ [m EXCEPT !.frames = frames] \in MachineRecord
         /\ [m EXCEPT !.frames = frames].frames = frames
         /\ [m EXCEPT !.frames = frames].requests = m.requests
         /\ [m EXCEPT !.frames = frames].status = m.status
         /\ [m EXCEPT !.frames = frames].executed = m.executed
         /\ [m EXCEPT !.frames = frames].remaining = m.remaining
BY DEF MachineRecord

LEMMA ActivateTyped ==
  ASSUME NEW m \in MachineRecord, m.frames # <<>>, NEW frame \in FrameRecord
  PROVE  /\ Activate(m, frame) \in MachineRecord
         /\ Activate(m, frame).frames = [m.frames EXCEPT ![Len(m.frames)] = frame]
         /\ Activate(m, frame).requests = m.requests
         /\ Activate(m, frame).status = m.status
         /\ Activate(m, frame).executed = m.executed
         /\ Activate(m, frame).remaining = m.remaining
<1>1. m.frames \in Seq(FrameRecord)
  BY DEF MachineRecord
<1>2. [m.frames EXCEPT ![Len(m.frames)] = frame] \in Seq(FrameRecord)
  BY <1>1
<1>3. Activate(m, frame) = [m EXCEPT !.frames = [m.frames EXCEPT ![Len(m.frames)] = frame]]
  BY DEF Activate
<1> QED
  BY <1>2, <1>3, FramesTyped

LEMMA OnwardTyped ==
  ASSUME NEW fr \in FrameRecord, NEW stack \in Seq(JoanValue)
  PROVE  /\ Onward(fr, stack) \in FrameRecord
         /\ Onward(fr, stack).function = fr.function /\ Onward(fr, stack).pc = fr.pc + 1
         /\ Onward(fr, stack).stack = stack /\ Onward(fr, stack).locals = fr.locals
<1>1. fr.pc + 1 \in Nat
  BY DEF FrameRecord
<1>2. Onward(fr, stack) = [[fr EXCEPT !.stack = stack] EXCEPT !.pc = fr.pc + 1]
  BY DEF FrameRecord, Onward
<1>3. [fr EXCEPT !.stack = stack] \in FrameRecord
  BY DEF FrameRecord
<1> QED
  BY <1>1, <1>2, <1>3 DEF FrameRecord

LEMMA GivenTyped ==
  ASSUME NEW stack \in Seq(JoanValue), NEW n \in Nat, n <= Len(stack)
  PROVE  /\ Given(stack, n) \in Seq(JoanValue) /\ Len(Given(stack, n)) = n
         /\ \A k \in 1..n : Given(stack, n)[k] = stack[Len(stack) - n + k]
         /\ Take(stack, n) \in Seq(JoanValue) /\ Len(Take(stack, n)) = Len(stack) - n
         /\ \A k \in 1..(Len(stack) - n) : Take(stack, n)[k] = stack[k]
BY DEF Given, Take

LEMMA FrameTyped ==
  ASSUME NEW f \in BytecodeFunction, NEW k \in Nat, NEW arguments \in Seq(JoanValue)
  PROVE  /\ Frame(f, k, arguments) \in FrameRecord
         /\ Frame(f, k, arguments).function = k /\ Frame(f, k, arguments).pc = 1
         /\ Frame(f, k, arguments).stack = <<>>
         /\ DOMAIN Frame(f, k, arguments).locals = DOMAIN f.locals
         /\ \A s \in DOMAIN f.locals : s <= Len(arguments) =>
              Frame(f, k, arguments).locals[s] = arguments[s]
<1> DEFINE locals == [s \in DOMAIN f.locals |-> IF s <= Len(arguments) THEN arguments[s] ELSE UnitValue]
<1>1. f.locals \in Seq(JoanType)
  BY DEF BytecodeFunction
<1>2. UnitValue \in JoanValue
  BY DEF JoanValue
<1>3. ASSUME NEW s \in 1..Len(f.locals)
      PROVE  (IF s <= Len(arguments) THEN arguments[s] ELSE UnitValue) \in JoanValue
  BY <1>1, <1>2
<1>4. locals \in [1..Len(f.locals) -> JoanValue]
  BY <1>1, <1>3
<1>5. locals \in Seq(JoanValue) /\ <<>> \in Seq(JoanValue)
  BY <1>1, <1>4
<1>6. Frame(f, k, arguments) = [function |-> k, pc |-> 1, stack |-> <<>>, locals |-> locals]
  BY DEF Frame
<1>7. Frame(f, k, arguments) \in FrameRecord
  BY <1>5, <1>6 DEF FrameRecord
<1> QED
  BY <1>6, <1>7

-----------------------------------------------------------------------------
\* What the verifier knows about the frames of a running machine.
TypingAt(a, fr) == After(a, fr.function, fr.pc - 1)

Placed(a, fr) ==
  /\ fr \in FrameRecord /\ fr.function \in DOMAIN a.functions
  /\ fr.pc \in 1..Len(CodeOf(a, fr.function))
  /\ DOMAIN fr.locals = DOMAIN a.functions[fr.function].locals
  /\ \A s \in DOMAIN fr.locals : s \in TypingAt(a, fr).ready =>
       TypeOf(fr.locals[s]) = a.functions[fr.function].locals[s]

Matches(stack, entries) == \A k \in 1..Len(stack) : TypeOf(stack[k]) = entries[k].type

\* The frame stands at an instruction whose operands it holds.
AtHand(a, fr) ==
  /\ Placed(a, fr)
  /\ Len(fr.stack) = Len(TypingAt(a, fr).stack)
  /\ Matches(fr.stack, TypingAt(a, fr).stack)

\* The frame waits behind a call, for the result of the callee.
Result(a, k) == Entry(a.functions[k].ret, LabelOf(a.functions[k].retLabel))
Awaits(a, fr, callee) ==
  /\ Placed(a, fr) /\ fr.pc - 1 \in 1..Len(CodeOf(a, fr.function))
  /\ callee \in DOMAIN a.functions
  /\ CodeOf(a, fr.function)[fr.pc - 1].op = "call"
  /\ CodeOf(a, fr.function)[fr.pc - 1].callee = callee
  /\ Len(TypingAt(a, fr).stack) = Len(fr.stack) + 1
  /\ TypingAt(a, fr).stack[Len(fr.stack) + 1] = Result(a, callee)
  /\ Matches(fr.stack, TypingAt(a, fr).stack)

FramesFit(a, frames) ==
  /\ frames \in Seq(FrameRecord) /\ frames # <<>>
  /\ AtHand(a, frames[Len(frames)])
  /\ \A d \in 1..(Len(frames) - 1) : Awaits(a, frames[d], frames[d + 1].function)

\* The machine is about to run an instruction within its budget.
Ready(a, m) ==
  /\ Verified(a) /\ m \in MachineRecord /\ FramesFit(a, m.frames) /\ m.remaining # 0

FunctionAt(a, m) == a.functions[Active(m).function]
NextTyping(a, m) == TypeInstruction(a, FunctionAt(a, m), TypingAt(a, Active(m)), Current(a, m))

\* Only the last instruction of a function returns.
LEMMA ReturnIsLast ==
  ASSUME NEW a, Verified(a), NEW k \in DOMAIN a.functions, NEW n \in 1..Len(CodeOf(a, k))
  PROVE  CodeOf(a, k)[n].op = "return" <=> n = Len(CodeOf(a, k))
<1>1. {i \in DOMAIN CodeOf(a, k) : CodeOf(a, k)[i].op = "return"} = {Len(CodeOf(a, k))}
  BY VerifiedTables DEF FunctionSound, CodeOf
<1> QED
  BY <1>1, VerifiedTables

\* A machine that is ready stands within the code of a function of the artifact.
LEMMA ReadyFacts ==
  ASSUME NEW a, NEW m, Ready(a, m)
  PROVE  LET fr == Active(m)
             k == Active(m).function
         IN  /\ Verified(a) /\ m \in MachineRecord /\ m.frames # <<>>
             /\ fr \in FrameRecord /\ k \in DOMAIN a.functions /\ AtHand(a, fr)
             /\ fr.stack \in Seq(JoanValue) /\ fr.locals \in Seq(JoanValue)
             /\ fr.pc \in 1..Len(CodeOf(a, k)) /\ Len(CodeOf(a, k)) \in Nat
             /\ Current(a, m) = CodeOf(a, k)[fr.pc] /\ Current(a, m) \in Instruction
             /\ FunctionAt(a, m) \in BytecodeFunction
             /\ FunctionAt(a, m) = a.functions[k]
             /\ InformationTable(a, FunctionAt(a, m))
             /\ TypingAt(a, fr) \in TypingRecord /\ TypingAt(a, fr).sound
             /\ Len(fr.stack) = Len(TypingAt(a, fr).stack)
<1> DEFINE fr == Active(m)
           k == Active(m).function
<1>1. Verified(a) /\ m \in MachineRecord /\ m.frames # <<>>
  BY DEF Ready, FramesFit
<1>2. fr \in FrameRecord /\ AtHand(a, fr)
  BY <1>1, ActiveTyped DEF Ready, FramesFit
<1>3. /\ k \in DOMAIN a.functions /\ fr.pc \in 1..Len(CodeOf(a, k))
      /\ Len(fr.stack) = Len(TypingAt(a, fr).stack)
  BY <1>2 DEF AtHand, Placed
<1>4. fr.stack \in Seq(JoanValue) /\ fr.locals \in Seq(JoanValue)
  BY <1>2 DEF FrameRecord
<1>5. /\ FunctionAt(a, m) \in BytecodeFunction /\ InformationTable(a, FunctionAt(a, m))
      /\ Len(CodeOf(a, k)) \in Nat /\ CodeOf(a, k) \in Seq(Instruction)
  BY <1>1, <1>3, VerifiedTables DEF FunctionAt
<1>6. Current(a, m) = CodeOf(a, k)[fr.pc] /\ Current(a, m) \in Instruction
  BY <1>3, <1>5 DEF Current, CodeOf
<1>7. fr.pc - 1 \in 0..Len(CodeOf(a, k))
  BY <1>3, <1>5
<1>8. TypingAt(a, fr) \in TypingRecord /\ TypingAt(a, fr).sound
  BY <1>1, <1>3, <1>7, AfterTyped, AfterSound DEF TypingAt
<1> QED
  BY <1>1, <1>2, <1>3, <1>4, <1>5, <1>6, <1>8 DEF FunctionAt

\* The instruction it stands at is the one its typing was followed by.
LEMMA NextFacts ==
  ASSUME NEW a, NEW m, Ready(a, m)
  PROVE  LET fr == Active(m)
             k == Active(m).function
             next == NextTyping(a, m)
         IN  /\ next \in TypingRecord /\ next.sound
             /\ After(a, k, fr.pc).stack = next.stack
             /\ After(a, k, fr.pc).ready = next.ready
             /\ After(a, k, fr.pc).used = next.used
             /\ Current(a, m).op # "return" => fr.pc + 1 \in 1..Len(CodeOf(a, k))
<1> DEFINE fr == Active(m)
           k == Active(m).function
<1>1. /\ Verified(a) /\ k \in DOMAIN a.functions /\ fr.pc \in 1..Len(CodeOf(a, k))
      /\ Len(CodeOf(a, k)) \in Nat /\ Current(a, m) = CodeOf(a, k)[fr.pc]
      /\ FunctionAt(a, m) = a.functions[k]
  BY ReadyFacts
<1>2. NextTyping(a, m) =
        TypeInstruction(a, a.functions[k], After(a, k, fr.pc - 1), CodeOf(a, k)[fr.pc])
  BY <1>1 DEF NextTyping, TypingAt
<1>3. /\ After(a, k, fr.pc).stack = NextTyping(a, m).stack
      /\ After(a, k, fr.pc).ready = NextTyping(a, m).ready
      /\ After(a, k, fr.pc).used = NextTyping(a, m).used
      /\ After(a, k, fr.pc).sound = NextTyping(a, m).sound
  BY <1>1, <1>2, AfterSteps
<1>4. After(a, k, fr.pc).sound
  BY <1>1, AfterSound
<1>5. NextTyping(a, m) \in TypingRecord
  BY ReadyFacts, InstructionTyped DEF NextTyping, Verified
<1>6. Current(a, m).op # "return" => fr.pc # Len(CodeOf(a, k))
  BY <1>1, ReturnIsLast
<1>7. Current(a, m).op # "return" => fr.pc + 1 \in 1..Len(CodeOf(a, k))
  BY <1>1, <1>6
<1> QED
  BY <1>3, <1>4, <1>5, <1>7

\* A frame that moved on to the next instruction.
LEMMA Arrives ==
  ASSUME NEW a, NEW m, Ready(a, m), Current(a, m).op # "return",
         NEW fr \in FrameRecord, fr.function = Active(m).function, fr.pc = Active(m).pc + 1,
         DOMAIN fr.locals = DOMAIN Active(m).locals,
         \A s \in DOMAIN fr.locals : s \in NextTyping(a, m).ready =>
           TypeOf(fr.locals[s]) = FunctionAt(a, m).locals[s]
  PROVE  /\ Placed(a, fr)
         /\ TypingAt(a, fr).stack = NextTyping(a, m).stack
         /\ TypingAt(a, fr).ready = NextTyping(a, m).ready
         /\ TypingAt(a, fr).used = NextTyping(a, m).used
<1>1. /\ Active(m).function \in DOMAIN a.functions
      /\ FunctionAt(a, m) = a.functions[Active(m).function]
      /\ Active(m).pc \in 1..Len(CodeOf(a, Active(m).function))
      /\ Len(CodeOf(a, Active(m).function)) \in Nat
      /\ DOMAIN Active(m).locals = DOMAIN FunctionAt(a, m).locals
  BY ReadyFacts DEF AtHand, Placed
<1>2. Active(m).pc + 1 - 1 = Active(m).pc
  BY <1>1
<1>3. TypingAt(a, fr) = After(a, Active(m).function, Active(m).pc)
  BY <1>1, <1>2 DEF TypingAt
<1>4. /\ TypingAt(a, fr).stack = NextTyping(a, m).stack
      /\ TypingAt(a, fr).ready = NextTyping(a, m).ready
      /\ TypingAt(a, fr).used = NextTyping(a, m).used
      /\ fr.pc \in 1..Len(CodeOf(a, fr.function))
  BY <1>3, NextFacts
<1> QED
  BY <1>1, <1>4 DEF Placed

LEMMA OnwardArrives ==
  ASSUME NEW a, NEW m, Ready(a, m), Current(a, m).op # "return",
         NextTyping(a, m).ready = TypingAt(a, Active(m)).ready, NEW stack \in Seq(JoanValue)
  PROVE  /\ Placed(a, Onward(Active(m), stack))
         /\ TypingAt(a, Onward(Active(m), stack)).stack = NextTyping(a, m).stack
         /\ TypingAt(a, Onward(Active(m), stack)).ready = NextTyping(a, m).ready
         /\ TypingAt(a, Onward(Active(m), stack)).used = NextTyping(a, m).used
         /\ (Len(stack) = Len(NextTyping(a, m).stack) /\ Matches(stack, NextTyping(a, m).stack)) =>
              AtHand(a, Onward(Active(m), stack))
<1>1. /\ Onward(Active(m), stack) \in FrameRecord
      /\ Onward(Active(m), stack).function = Active(m).function
      /\ Onward(Active(m), stack).pc = Active(m).pc + 1
      /\ Onward(Active(m), stack).stack = stack
      /\ Onward(Active(m), stack).locals = Active(m).locals
  BY ReadyFacts, OnwardTyped
<1>2. \A s \in DOMAIN Active(m).locals : s \in TypingAt(a, Active(m)).ready =>
        TypeOf(Active(m).locals[s]) = FunctionAt(a, m).locals[s]
  BY ReadyFacts DEF AtHand, Placed
<1>3. /\ Placed(a, Onward(Active(m), stack))
      /\ TypingAt(a, Onward(Active(m), stack)).stack = NextTyping(a, m).stack
      /\ TypingAt(a, Onward(Active(m), stack)).ready = NextTyping(a, m).ready
      /\ TypingAt(a, Onward(Active(m), stack)).used = NextTyping(a, m).used
  BY <1>1, <1>2, Arrives
<1> QED
  BY <1>1, <1>3 DEF AtHand

\* What the verifier calls a push of one entry over the operands, matched by values.
LEMMA PushedMatches ==
  ASSUME NEW t \in TypingRecord, NEW n \in Nat, Depth(t, n), NEW e \in EntryRecord,
         NEW stack \in Seq(JoanValue), Len(stack) = Len(t.stack), Matches(stack, t.stack),
         NEW v \in JoanValue, TypeOf(v) = e.type
  PROVE  /\ Append(Take(stack, n), v) \in Seq(JoanValue)
         /\ Len(Append(Take(stack, n), v)) = Len(Push1(t, n, e).stack)
         /\ Matches(Append(Take(stack, n), v), Push1(t, n, e).stack)
<1>1. n <= Len(stack) /\ Len(stack) \in Nat
  BY DEF Depth
<1>2. /\ Take(stack, n) \in Seq(JoanValue) /\ Len(Take(stack, n)) = Len(stack) - n
      /\ \A k \in 1..(Len(stack) - n) : Take(stack, n)[k] = stack[k]
  BY <1>1, GivenTyped
<1>3. /\ Below(t, n) \in Seq(EntryRecord) /\ Len(Below(t, n)) = Len(stack) - n
      /\ \A k \in 1..(Len(stack) - n) : Below(t, n)[k] = t.stack[k]
  BY BelowTyped
<1>4. Push1(t, n, e).stack = Append(Below(t, n), e)
  BY Push1Typed
<1>5. /\ Append(Take(stack, n), v) \in Seq(JoanValue)
      /\ Len(Append(Take(stack, n), v)) = Len(stack) - n + 1
      /\ Len(Append(Below(t, n), e)) = Len(stack) - n + 1
  BY <1>2, <1>3
<1>6. ASSUME NEW k \in 1..(Len(stack) - n + 1)
      PROVE  TypeOf(Append(Take(stack, n), v)[k]) = Append(Below(t, n), e)[k].type
  <2>1. CASE k = Len(stack) - n + 1
    <3>1. Append(Take(stack, n), v)[k] = v
      BY <2>1, <1>2
    <3>2. Append(Below(t, n), e)[k] = e
      BY <2>1, <1>3
    <3> QED
      BY <3>1, <3>2
  <2>2. CASE k # Len(stack) - n + 1
    <3>1. k \in 1..(Len(stack) - n) /\ k \in 1..Len(stack)
      BY <2>2, <1>1
    <3>2. Append(Take(stack, n), v)[k] = stack[k] /\ Append(Below(t, n), e)[k] = t.stack[k]
      BY <3>1, <1>2, <1>3
    <3> QED
      BY <3>1, <3>2 DEF Matches
  <2> QED
    BY <2>1, <2>2
<1> QED
  BY <1>4, <1>5, <1>6 DEF Matches

\* The same for operands that are taken and not replaced.
LEMMA TakenMatches ==
  ASSUME NEW t \in TypingRecord, NEW n \in Nat, Depth(t, n),
         NEW stack \in Seq(JoanValue), Len(stack) = Len(t.stack), Matches(stack, t.stack)
  PROVE  /\ n <= Len(stack)
         /\ Take(stack, n) \in Seq(JoanValue)
         /\ Len(Take(stack, n)) = Len(Below(t, n)) /\ Matches(Take(stack, n), Below(t, n))
         /\ Given(stack, n) \in Seq(JoanValue) /\ Len(Given(stack, n)) = n
         /\ \A k \in 1..n : TypeOf(Given(stack, n)[k]) = Top(t, n)[k].type
<1>1. n <= Len(stack) /\ Len(stack) \in Nat
  BY DEF Depth
<1>2. /\ Take(stack, n) \in Seq(JoanValue) /\ Len(Take(stack, n)) = Len(stack) - n
      /\ \A k \in 1..(Len(stack) - n) : Take(stack, n)[k] = stack[k]
      /\ Given(stack, n) \in Seq(JoanValue) /\ Len(Given(stack, n)) = n
      /\ \A k \in 1..n : Given(stack, n)[k] = stack[Len(stack) - n + k]
  BY <1>1, GivenTyped
<1>3. /\ Len(Below(t, n)) = Len(stack) - n
      /\ \A k \in 1..(Len(stack) - n) : Below(t, n)[k] = t.stack[k]
      /\ \A k \in 1..n : Top(t, n)[k] = t.stack[Len(stack) - n + k]
  <2>1. /\ Len(Below(t, n)) = Len(t.stack) - n
        /\ \A k \in 1..(Len(t.stack) - n) : Below(t, n)[k] = t.stack[k]
        /\ \A k \in 1..n : Top(t, n)[k] = t.stack[Len(t.stack) - n + k]
    BY BelowTyped
  <2> QED
    BY <2>1
<1>4. ASSUME NEW k \in 1..(Len(stack) - n)
      PROVE  TypeOf(Take(stack, n)[k]) = Below(t, n)[k].type
  <2>1. k \in 1..Len(stack)
    BY <1>1
  <2> QED
    BY <2>1, <1>2, <1>3 DEF Matches
<1>5. ASSUME NEW k \in 1..n
      PROVE  TypeOf(Given(stack, n)[k]) = Top(t, n)[k].type
  <2>1. Len(stack) - n + k \in 1..Len(stack)
    BY <1>1
  <2> QED
    BY <2>1, <1>2, <1>3 DEF Matches
<1>6. Matches(Take(stack, n), Below(t, n))
  BY <1>2, <1>4 DEF Matches
<1> QED
  BY <1>1, <1>2, <1>3, <1>5, <1>6

-----------------------------------------------------------------------------
\* What each instruction does to a machine that is ready for it.
Went(m, fr) == Activate(Paid(m), fr)

\* Which operation an instruction runs.
LEMMA Dispatch ==
  ASSUME NEW a, NEW m, Ready(a, m)
  PROVE  LET i == Current(a, m)
             fr == Active(m)
         IN  /\ i.op = "push" => RunInstruction(a, m) = Leave(Paid(m), Append(fr.stack, i.value))
             /\ i.op = "load" => RunInstruction(a, m) =
                  IF i.slot \notin DOMAIN fr.locals THEN Halt(Paid(m), "frame")
                  ELSE Leave(Paid(m), Append(fr.stack, fr.locals[i.slot]))
             /\ i.op = "store" => RunInstruction(a, m) = RunStore(Paid(m), i)
             /\ i.op = "pop" => RunInstruction(a, m) =
                  IF fr.stack = <<>> THEN Halt(Paid(m), "underflow")
                  ELSE Leave(Paid(m), Take(fr.stack, 1))
             /\ i.op = "call" => RunInstruction(a, m) = RunCall(a, Paid(m), i)
             /\ i.op = "request" => RunInstruction(a, m) = RunRequest(a, Paid(m), i)
             /\ i.op = "return" => RunInstruction(a, m) = RunReturn(Paid(m))
             /\ i.op \in Operations => RunInstruction(a, m) = RunOperator(Paid(m), i.op)
<1> DEFINE i == Current(a, m)
<1>1. ~(Active(m).pc > Len(a.functions[Active(m).function].code)) /\ m.remaining # 0
  BY ReadyFacts DEF Ready, CodeOf
<1>2. i.op \in Operations =>
        i.op \notin {"push", "load", "store", "pop", "call", "request", "return"}
  BY DEF Operations, Arithmetic, Comparison, Equality, Logic
<1>3. i.op = "push" => RunInstruction(a, m) = Leave(Paid(m), Append(Active(m).stack, i.value))
  BY <1>1, Zenon DEF RunInstruction
<1>4. i.op = "load" => RunInstruction(a, m) =
        IF i.slot \notin DOMAIN Active(m).locals THEN Halt(Paid(m), "frame")
        ELSE Leave(Paid(m), Append(Active(m).stack, Active(m).locals[i.slot]))
  BY <1>1, Zenon DEF RunInstruction
<1>5. i.op = "store" => RunInstruction(a, m) = RunStore(Paid(m), i)
  BY <1>1, Zenon DEF RunInstruction
<1>6. i.op = "pop" => RunInstruction(a, m) =
        IF Active(m).stack = <<>> THEN Halt(Paid(m), "underflow")
        ELSE Leave(Paid(m), Take(Active(m).stack, 1))
  BY <1>1, Zenon DEF RunInstruction
<1>7. i.op = "call" => RunInstruction(a, m) = RunCall(a, Paid(m), i)
  BY <1>1, Zenon DEF RunInstruction
<1>8. i.op = "request" => RunInstruction(a, m) = RunRequest(a, Paid(m), i)
  BY <1>1, Zenon DEF RunInstruction
<1>9. i.op = "return" => RunInstruction(a, m) = RunReturn(Paid(m))
  BY <1>1, Zenon DEF RunInstruction
<1>10. i.op \in Operations => RunInstruction(a, m) = RunOperator(Paid(m), i.op)
  BY <1>1, <1>2, Zenon DEF RunInstruction
<1> QED
  BY <1>3, <1>4, <1>5, <1>6, <1>7, <1>8, <1>9, <1>10

LEMMA LeaveGoes ==
  ASSUME NEW a, NEW m, Ready(a, m), NEW stack
  PROVE  Leave(Paid(m), stack) = Went(m, Onward(Active(m), stack))
BY ReadyFacts, PaidTyped DEF Leave, Went, Ready

\* One lemma per instruction: it meets no fault, and where its frame is then.
LEMMA PushRuns ==
  ASSUME NEW a, NEW m, Ready(a, m), Current(a, m).op = "push"
  PROVE  LET stack == Append(Active(m).stack, Current(a, m).value)
         IN  /\ stack \in Seq(JoanValue)
             /\ RunInstruction(a, m) = Went(m, Onward(Active(m), stack))
             /\ AtHand(a, Onward(Active(m), stack))
<1> DEFINE i == Current(a, m)
           t == TypingAt(a, Active(m))
           stack == Append(Active(m).stack, i.value)
<1>1. i.value \in JoanValue
  BY ReadyFacts, InstructionFields
<1>2. /\ t \in TypingRecord /\ t.sound /\ Active(m).stack \in Seq(JoanValue)
      /\ Len(Active(m).stack) = Len(t.stack) /\ Matches(Active(m).stack, t.stack)
  BY ReadyFacts DEF AtHand
<1>3. NextTyping(a, m) = Push1(t, 0, Entry(TypeOf(i.value), Public))
  BY <1>2, PushTypes DEF NextTyping
<1>4. Entry(TypeOf(i.value), Public) \in EntryRecord /\ Entry(TypeOf(i.value), Public).type = TypeOf(i.value)
  BY <1>1, TypeOfTyped DEF Entry, EntryRecord, JoanLabel
<1>5. Take(Active(m).stack, 0) = Active(m).stack
  BY <1>2 DEF Take
<1>6. /\ stack \in Seq(JoanValue) /\ Len(stack) = Len(NextTyping(a, m).stack)
      /\ Matches(stack, NextTyping(a, m).stack)
  BY <1>1, <1>2, <1>3, <1>4, <1>5, DepthZero, PushedMatches
<1>7. NextTyping(a, m).ready = t.ready
  BY <1>2, <1>3, <1>4, DepthZero, Push1Typed
<1> QED
  BY <1>6, <1>7, OnwardArrives, Dispatch, LeaveGoes

LEMMA LoadRuns ==
  ASSUME NEW a, NEW m, Ready(a, m), Current(a, m).op = "load"
  PROVE  LET slot == Current(a, m).slot
             stack == Append(Active(m).stack, Active(m).locals[slot])
         IN  /\ stack \in Seq(JoanValue)
             /\ slot \in DOMAIN Active(m).locals
             /\ RunInstruction(a, m) = Went(m, Onward(Active(m), stack))
             /\ AtHand(a, Onward(Active(m), stack))
<1> DEFINE i == Current(a, m)
           t == TypingAt(a, Active(m))
           f == FunctionAt(a, m)
           v == Active(m).locals[i.slot]
           stack == Append(Active(m).stack, v)
           e == Entry(f.locals[i.slot], LabelAt(f, i.slot))
<1>2. /\ t \in TypingRecord /\ t.sound /\ Active(m).stack \in Seq(JoanValue)
      /\ Len(Active(m).stack) = Len(t.stack) /\ Matches(Active(m).stack, t.stack)
  BY ReadyFacts DEF AtHand
<1>3. i.slot \in DOMAIN f.locals /\ i.slot \in t.ready /\ NextTyping(a, m) = Push1(t, 0, e)
  BY <1>2, LoadTypes, NextFacts DEF NextTyping
<1>4. /\ DOMAIN Active(m).locals = DOMAIN f.locals
      /\ \A s \in DOMAIN Active(m).locals : s \in t.ready => TypeOf(Active(m).locals[s]) = f.locals[s]
  BY ReadyFacts DEF AtHand, Placed
<1>5. i.slot \in DOMAIN Active(m).locals /\ v \in JoanValue /\ TypeOf(v) = f.locals[i.slot]
  BY <1>3, <1>4, ReadyFacts
<1>6. e \in EntryRecord /\ e.type = TypeOf(v)
  <2>1. LabelAt(f, i.slot) \in JoanLabel
    BY <1>3, ReadyFacts, TableLabels
  <2>2. TypeOf(v) \in JoanType
    BY <1>5, TypeOfTyped
  <2> QED
    BY <1>5, <2>1, <2>2 DEF Entry, EntryRecord
<1>7. Take(Active(m).stack, 0) = Active(m).stack
  BY <1>2 DEF Take
<1>8. /\ stack \in Seq(JoanValue) /\ Len(stack) = Len(NextTyping(a, m).stack)
      /\ Matches(stack, NextTyping(a, m).stack)
  BY <1>5, <1>2, <1>3, <1>6, <1>7, DepthZero, PushedMatches
<1>9. NextTyping(a, m).ready = t.ready
  BY <1>2, <1>3, <1>6, DepthZero, Push1Typed
<1> QED
  BY <1>5, <1>8, <1>9, OnwardArrives, Dispatch, LeaveGoes

LEMMA PopRuns ==
  ASSUME NEW a, NEW m, Ready(a, m), Current(a, m).op = "pop"
  PROVE  LET stack == Take(Active(m).stack, 1)
         IN  /\ stack \in Seq(JoanValue)
             /\ RunInstruction(a, m) = Went(m, Onward(Active(m), stack))
             /\ AtHand(a, Onward(Active(m), stack))
<1> DEFINE t == TypingAt(a, Active(m))
           stack == Take(Active(m).stack, 1)
<1>1. /\ t \in TypingRecord /\ t.sound /\ Active(m).stack \in Seq(JoanValue)
      /\ Len(Active(m).stack) = Len(t.stack) /\ Matches(Active(m).stack, t.stack)
  BY ReadyFacts DEF AtHand
<1>2. Depth(t, 1) /\ NextTyping(a, m) = Kept(t, 1)
  BY <1>1, PopTypes, NextFacts DEF NextTyping
<1>3. /\ stack \in Seq(JoanValue) /\ Len(stack) = Len(Below(t, 1))
      /\ Matches(stack, Below(t, 1)) /\ 1 <= Len(Active(m).stack)
  BY <1>1, <1>2, TakenMatches
<1>4. NextTyping(a, m).stack = Below(t, 1) /\ NextTyping(a, m).ready = t.ready
  BY <1>1, <1>2 DEF Kept, TypingRecord
<1>5. Active(m).stack # <<>>
  BY <1>1, <1>3
<1> QED
  BY <1>3, <1>4, <1>5, OnwardArrives, Dispatch, LeaveGoes

\* The frame after a store.
StoredFrame(fr, slot, v) == [fr EXCEPT !.locals[slot] = v]

LEMMA StoredFrameTyped ==
  ASSUME NEW fr \in FrameRecord, NEW slot \in DOMAIN fr.locals, NEW v \in JoanValue
  PROVE  /\ StoredFrame(fr, slot, v) \in FrameRecord
         /\ StoredFrame(fr, slot, v).function = fr.function
         /\ StoredFrame(fr, slot, v).pc = fr.pc
         /\ StoredFrame(fr, slot, v).locals = [fr.locals EXCEPT ![slot] = v]
<1>1. fr.locals \in Seq(JoanValue)
  BY DEF FrameRecord
<1>2. [fr.locals EXCEPT ![slot] = v] \in Seq(JoanValue)
  BY <1>1
<1>3. StoredFrame(fr, slot, v) = [fr EXCEPT !.locals = [fr.locals EXCEPT ![slot] = v]]
  BY DEF StoredFrame
<1> QED
  BY <1>2, <1>3 DEF FrameRecord

LEMMA StoreRuns ==
  ASSUME NEW a, NEW m, Ready(a, m), Current(a, m).op = "store"
  PROVE  LET slot == Current(a, m).slot
             v == Given(Active(m).stack, 1)[1]
             fr == Onward(StoredFrame(Active(m), slot, v), Take(Active(m).stack, 1))
         IN  /\ fr \in FrameRecord /\ fr.function = Active(m).function
             /\ fr.pc = Active(m).pc + 1 /\ fr.stack = Take(Active(m).stack, 1)
             /\ fr.locals = [Active(m).locals EXCEPT ![slot] = v]
             /\ RunInstruction(a, m) = Went(m, fr)
             /\ AtHand(a, fr)
<1> DEFINE i == Current(a, m)
           t == TypingAt(a, Active(m))
           f == FunctionAt(a, m)
           v == Given(Active(m).stack, 1)[1]
           kept == StoredFrame(Active(m), i.slot, v)
           stack == Take(Active(m).stack, 1)
           fr == Onward(kept, stack)
<1>1. /\ t \in TypingRecord /\ t.sound /\ Active(m).stack \in Seq(JoanValue)
      /\ Len(Active(m).stack) = Len(t.stack) /\ Matches(Active(m).stack, t.stack)
      /\ Active(m) \in FrameRecord
  BY ReadyFacts DEF AtHand
<1>2. /\ i.slot \in DOMAIN f.locals /\ i.slot \notin t.ready /\ Depth(t, 1)
      /\ Top(t, 1)[1].type = f.locals[i.slot] /\ NextTyping(a, m) = Stored(t, i.slot)
  BY <1>1, StoreTypes, NextFacts DEF NextTyping
<1>3. /\ stack \in Seq(JoanValue) /\ Len(stack) = Len(Below(t, 1))
      /\ Matches(stack, Below(t, 1)) /\ 1 <= Len(Active(m).stack)
      /\ v \in JoanValue /\ TypeOf(v) = Top(t, 1)[1].type
  BY <1>1, <1>2, TakenMatches
<1>4. /\ NextTyping(a, m).stack = Below(t, 1)
      /\ NextTyping(a, m).ready = t.ready \union {i.slot}
  <2>1. Stored(t, i.slot) = [[t EXCEPT !.stack = Below(t, 1)] EXCEPT !.ready = t.ready \union {i.slot}]
    BY <1>1 DEF Stored, TypingRecord
  <2> QED
    BY <1>1, <1>2, <2>1 DEF TypingRecord
<1>5. Active(m).stack # <<>>
  BY <1>1, <1>3
<1>6. /\ DOMAIN Active(m).locals = DOMAIN f.locals
      /\ \A s \in DOMAIN Active(m).locals : s \in t.ready => TypeOf(Active(m).locals[s]) = f.locals[s]
  BY ReadyFacts DEF AtHand, Placed
<1>7. /\ kept \in FrameRecord /\ kept.function = Active(m).function /\ kept.pc = Active(m).pc
      /\ kept.locals = [Active(m).locals EXCEPT ![i.slot] = v]
  BY <1>1, <1>2, <1>3, <1>6, StoredFrameTyped
<1> HIDE DEF kept
<1>8. /\ fr \in FrameRecord /\ fr.function = Active(m).function /\ fr.pc = Active(m).pc + 1
      /\ fr.stack = stack /\ fr.locals = [Active(m).locals EXCEPT ![i.slot] = v]
  BY <1>3, <1>7, OnwardTyped
<1> HIDE DEF fr
<1>9. DOMAIN fr.locals = DOMAIN Active(m).locals
  BY <1>8
<1>10. ASSUME NEW s \in DOMAIN fr.locals, s \in NextTyping(a, m).ready
       PROVE  TypeOf(fr.locals[s]) = f.locals[s]
  <2>1. CASE s = i.slot
    BY <2>1, <1>2, <1>3, <1>8, <1>9
  <2>2. CASE s # i.slot
    BY <2>2, <1>4, <1>6, <1>8, <1>9, <1>10
  <2> QED
    BY <2>1, <2>2
<1>11. Placed(a, fr) /\ TypingAt(a, fr).stack = NextTyping(a, m).stack
  BY <1>8, <1>9, <1>10, Arrives
<1>12. AtHand(a, fr)
  BY <1>3, <1>4, <1>8, <1>11 DEF AtHand
<1>13. RunInstruction(a, m) = Went(m, fr)
  <2>1. Active(Paid(m)) = Active(m)
    BY ReadyFacts, PaidTyped DEF Ready
  <2>2. RunInstruction(a, m) = RunStore(Paid(m), i)
    BY Dispatch
  <2>3. i.slot \in DOMAIN Active(m).locals
    BY <1>2, <1>6
  <2> QED
    BY <2>1, <2>2, <2>3, <1>5 DEF RunStore, Went, fr, kept, StoredFrame
<1> QED
  BY <1>8, <1>12, <1>13 DEF fr, kept

\* The entry on top of a stack and the rest of it.
LEMMA TopKept ==
  ASSUME NEW t \in TypingRecord, Depth(t, 1)
  PROVE  Top(t, 1)[1] \in EntryRecord /\ Push1(t, 1, Top(t, 1)[1]).stack = t.stack
<1> DEFINE s == t.stack
           n == Len(t.stack)
<1>1. s \in Seq(EntryRecord) /\ n \in Nat \ {0}
  BY DEF TypingRecord, Depth
<1>2. /\ Below(t, 1) \in Seq(EntryRecord) /\ Len(Below(t, 1)) = n - 1
      /\ \A k \in 1..(n - 1) : Below(t, 1)[k] = s[k]
      /\ Top(t, 1)[1] = s[n] /\ s[n] \in EntryRecord
  BY <1>1, BelowTyped
<1>3. Append(Below(t, 1), s[n]) = s
  <2> DEFINE u == Append(Below(t, 1), s[n])
  <2>1. u \in Seq(EntryRecord) /\ Len(u) = n
    BY <1>1, <1>2
  <2>2. ASSUME NEW k \in 1..n
        PROVE  u[k] = s[k]
    <3>1. CASE k = n
      BY <3>1, <1>1, <1>2
    <3>2. CASE k # n
      BY <3>2, <1>1, <1>2
    <3> QED
      BY <3>1, <3>2
  <2> HIDE DEF u
  <2>3. u = s
    BY <2>1, <2>2, <1>1
  <2> QED
    BY <2>3 DEF u
<1>4. Push1(t, 1, s[n]).stack = Append(Below(t, 1), s[n])
  BY <1>2, Push1Typed
<1> QED
  BY <1>2, <1>3, <1>4

Arity(op) == IF op \in {"negate", "not"} THEN 1 ELSE 2
Answer(m, op) == Compute(op, Given(Active(m).stack, Arity(op)))
Answered(m, op) == Append(Take(Active(m).stack, Arity(op)), Answer(m, op))

LEMMA ResultTyped ==
  ASSUME NEW op
  PROVE  ResultType(op) \in JoanType /\ ResultType(op) # "fault"
BY DEF ResultType, JoanType

\* What the typing of an operator says of the operands at hand.
LEMMA OperatorTypes ==
  ASSUME NEW a, NEW m, Ready(a, m), Current(a, m).op \in Operations
  PROVE  LET op == Current(a, m).op
             t == TypingAt(a, Active(m))
             n == Arity(Current(a, m).op)
         IN  /\ Depth(t, n) /\ Answers(op, Answer(m, op))
             /\ NextTyping(a, m).ready = t.ready /\ NextTyping(a, m).used = t.used
             /\ \E e \in EntryRecord : /\ e.type = ResultType(op)
                                       /\ NextTyping(a, m).stack = Push1(t, n, e).stack
<1> DEFINE op == Current(a, m).op
           t == TypingAt(a, Active(m))
           stack == Active(m).stack
<1>1. /\ t \in TypingRecord /\ t.sound /\ stack \in Seq(JoanValue)
      /\ Len(stack) = Len(t.stack) /\ Matches(stack, t.stack)
  BY ReadyFacts DEF AtHand
<1>2. CASE op \in {"negate", "not"}
  <2>1. /\ Depth(t, 1) /\ Top(t, 1)[1].type = IF op = "negate" THEN "i64" ELSE "bool"
        /\ NextTyping(a, m) = t
    BY <1>1, <1>2, UnaryTypes, NextFacts DEF NextTyping
  <2>2. Arity(op) = 1
    BY <1>2 DEF Arity
  <2>3. /\ Given(stack, 1) \in Seq(JoanValue) /\ Len(Given(stack, 1)) = 1
        /\ TypeOf(Given(stack, 1)[1]) = Top(t, 1)[1].type
    <3>1. \A k \in 1..1 : TypeOf(Given(stack, 1)[k]) = Top(t, 1)[k].type
      BY <1>1, <2>1, TakenMatches
    <3>2. Given(stack, 1) \in Seq(JoanValue) /\ Len(Given(stack, 1)) = 1
      BY <1>1, <2>1, TakenMatches
    <3> QED
      BY <3>1, <3>2
  <2>4. Answers(op, Answer(m, op))
    BY <1>2, <2>1, <2>2, <2>3, UnaryAnswers DEF Answer
  <2>5. Top(t, 1)[1] \in EntryRecord /\ NextTyping(a, m).stack = Push1(t, 1, Top(t, 1)[1]).stack
    BY <1>1, <2>1, TopKept
  <2>6. Top(t, 1)[1].type = ResultType(op)
    BY <1>2, <2>1 DEF ResultType, Arithmetic
  <2> QED
    BY <2>1, <2>2, <2>4, <2>5, <2>6
<1>3. CASE op \in Operations \ {"negate", "not"}
  <2> DEFINE left == Top(t, 2)[1]
             right == Top(t, 2)[2]
             e == Entry(IF op \in Arithmetic THEN "i64" ELSE "bool", Join(left.label, right.label))
  <2>1. /\ Depth(t, 2)
        /\ op \in Logic => left.type = "bool" /\ right.type = "bool"
        /\ op \in Arithmetic \union Comparison => left.type = "i64" /\ right.type = "i64"
        /\ Join(left.label, right.label) # Incompatible
        /\ NextTyping(a, m) = Push1(t, 2, e)
    BY <1>1, <1>3, BinaryTypes, NextFacts DEF NextTyping
  <2>2. Arity(op) = 2
    BY <1>3 DEF Arity
  <2>3. /\ Given(stack, 2) \in Seq(JoanValue) /\ Len(Given(stack, 2)) = 2
        /\ TypeOf(Given(stack, 2)[1]) = left.type /\ TypeOf(Given(stack, 2)[2]) = right.type
    <3>1. \A k \in 1..2 : TypeOf(Given(stack, 2)[k]) = Top(t, 2)[k].type
      BY <1>1, <2>1, TakenMatches
    <3>2. Given(stack, 2) \in Seq(JoanValue) /\ Len(Given(stack, 2)) = 2
      BY <1>1, <2>1, TakenMatches
    <3> QED
      BY <3>1, <3>2
  <2>4. Answers(op, Answer(m, op))
    BY <1>3, <2>1, <2>2, <2>3, BinaryAnswers DEF Answer
  <2>5. left \in EntryRecord /\ right \in EntryRecord
    BY <1>1, <2>1, BelowTyped
  <2>6. e \in EntryRecord /\ e.type = ResultType(op)
    <3>1. Join(left.label, right.label) \in JoanLabel
      BY <2>1, <2>5, JoinTyped DEF EntryRecord
    <3>2. op # "negate"
      BY <1>3
    <3> QED
      BY <3>1, <3>2 DEF Entry, EntryRecord, JoanType, ResultType
  <2>7. NextTyping(a, m).ready = t.ready /\ NextTyping(a, m).used = t.used
    BY <1>1, <2>1, <2>6, Push1Typed
  <2> QED
    BY <2>1, <2>2, <2>4, <2>6, <2>7
<1> QED
  BY <1>2, <1>3

\* An operator stops with a fault of its own or leaves a value of its type.
LEMMA OperatorRuns ==
  ASSUME NEW a, NEW m, Ready(a, m), Current(a, m).op \in Operations
  PROVE  LET op == Current(a, m).op
         IN  /\ Answer(m, op) = <<"fault", op>> => RunInstruction(a, m) = Halt(Paid(m), op)
             /\ Answer(m, op) # <<"fault", op>> =>
                  /\ Answered(m, op) \in Seq(JoanValue)
                  /\ RunInstruction(a, m) = Went(m, Onward(Active(m), Answered(m, op)))
                  /\ AtHand(a, Onward(Active(m), Answered(m, op)))
<1> DEFINE op == Current(a, m).op
           t == TypingAt(a, Active(m))
           stack == Active(m).stack
<1>1. /\ t \in TypingRecord /\ t.sound /\ stack \in Seq(JoanValue)
      /\ Len(stack) = Len(t.stack) /\ Matches(stack, t.stack)
  BY ReadyFacts DEF AtHand
<1>2. /\ Depth(t, Arity(op)) /\ Answers(op, Answer(m, op))
      /\ NextTyping(a, m).ready = t.ready
  BY OperatorTypes
<1>3. Arity(op) \in Nat /\ Arity(op) = IF op \in {"negate", "not"} THEN 1 ELSE 2
  BY DEF Arity
<1>4. ~(Len(stack) < Arity(op))
  BY <1>1, <1>2, <1>3 DEF Depth
<1>5. Active(Paid(m)) = Active(m)
  BY ReadyFacts, PaidTyped DEF Ready
<1>6. RunInstruction(a, m) = IF Answer(m, op)[1] = "fault" THEN Halt(Paid(m), Answer(m, op)[2])
                             ELSE Leave(Paid(m), Answered(m, op))
  <2>1. RunInstruction(a, m) = RunOperator(Paid(m), op)
    BY Dispatch
  <2> QED
    BY <2>1, <1>3, <1>4, <1>5 DEF RunOperator, Answer, Answered
<1>7. CASE Answer(m, op) = <<"fault", op>>
  BY <1>6, <1>7
<1>8. CASE Answer(m, op) # <<"fault", op>>
  <2>1. Answer(m, op) \in JoanValue /\ TypeOf(Answer(m, op)) = ResultType(op)
    BY <1>2, <1>8 DEF Answers
  <2>2. Answer(m, op)[1] # "fault"
    BY <2>1, ResultTyped DEF TypeOf
  <2>3. PICK e \in EntryRecord : /\ e.type = ResultType(op)
                                 /\ NextTyping(a, m).stack = Push1(t, Arity(op), e).stack
    BY OperatorTypes
  <2>4. /\ Answered(m, op) \in Seq(JoanValue)
        /\ Len(Answered(m, op)) = Len(NextTyping(a, m).stack)
        /\ Matches(Answered(m, op), NextTyping(a, m).stack)
    BY <1>1, <1>2, <1>3, <2>1, <2>3, PushedMatches DEF Answered
  <2>5. Current(a, m).op # "return"
    BY DEF Operations, Arithmetic, Comparison, Equality, Logic
  <2>6. RunInstruction(a, m) = Went(m, Onward(Active(m), Answered(m, op)))
    BY <1>6, <2>2, LeaveGoes
  <2>7. AtHand(a, Onward(Active(m), Answered(m, op)))
    BY <1>2, <2>4, <2>5, OnwardArrives
  <2> QED
    BY <1>8, <2>4, <2>6, <2>7
<1> QED
  BY <1>7, <1>8

\* A function that is entered with arguments of its types is at hand.
LEMMA FrameAtHand ==
  ASSUME NEW a, Verified(a), NEW k \in DOMAIN a.functions, NEW arguments \in Seq(JoanValue),
         Len(arguments) = Len(a.functions[k].params),
         \A i \in 1..Len(arguments) : TypeOf(arguments[i]) = a.functions[k].params[i]
  PROVE  /\ AtHand(a, Frame(a.functions[k], k, arguments))
         /\ Frame(a.functions[k], k, arguments) \in FrameRecord
         /\ Frame(a.functions[k], k, arguments).function = k
         /\ TypingAt(a, Frame(a.functions[k], k, arguments)) = Typing(a.functions[k])
<1> DEFINE f == a.functions[k]
           fr == Frame(f, k, arguments)
<1>1. /\ k \in Nat /\ f \in BytecodeFunction /\ FrameTable(f)
      /\ Len(CodeOf(a, k)) \in Nat /\ CodeOf(a, k) \in Seq(Instruction)
  BY VerifiedTables
<1>2. /\ fr \in FrameRecord /\ fr.function = k /\ fr.pc = 1 /\ fr.stack = <<>>
      /\ DOMAIN fr.locals = DOMAIN f.locals
      /\ \A s \in DOMAIN f.locals : s <= Len(arguments) => fr.locals[s] = arguments[s]
  BY <1>1, FrameTyped
<1> HIDE DEF fr
<1>3. fr.pc \in 1..Len(CodeOf(a, k))
  BY <1>1, <1>2 DEF FrameTable, CodeOf
<1>4. TypingAt(a, fr) = Typing(f)
  BY <1>2, AfterUnfolds DEF TypingAt
<1>5. TypingAt(a, fr).stack = <<>> /\ TypingAt(a, fr).ready = 1..Len(f.params)
  BY <1>4 DEF Typing
<1>6. ASSUME NEW s \in DOMAIN fr.locals, s \in TypingAt(a, fr).ready
      PROVE  TypeOf(fr.locals[s]) = f.locals[s]
  <2>1. s \in 1..Len(f.params) /\ s \in DOMAIN f.locals
    BY <1>2, <1>5, <1>6
  <2>2. f.params[s] = f.locals[s]
    <3>1. f.params = SubSeq(f.locals, 1, Len(f.params)) /\ Len(f.params) <= Len(f.locals)
      BY <1>1 DEF FrameTable
    <3>2. f.locals \in Seq(JoanType) /\ f.params \in Seq(JoanType)
      BY <1>1 DEF BytecodeFunction
    <3>3. SubSeq(f.locals, 1, Len(f.params))[s] = f.locals[s]
      BY <2>1, <3>1, <3>2
    <3> QED
      BY <3>1, <3>3
  <2>3. s <= Len(arguments) /\ fr.locals[s] = arguments[s]
    BY <1>2, <2>1
  <2> QED
    BY <2>1, <2>2, <2>3
<1>7. AtHand(a, fr)
  BY <1>2, <1>3, <1>5, <1>6 DEF AtHand, Placed, Matches
<1> QED
  BY <1>2, <1>4, <1>7 DEF fr

Opened(a, m) ==
  Frame(a.functions[Current(a, m).callee], Current(a, m).callee,
        Given(Active(m).stack, Current(a, m).count))
Opening(m, fr, opened) == [Went(m, fr) EXCEPT !.frames = Append(@, opened)]
Taking(a, m) == Onward(Active(m), Take(Active(m).stack, Current(a, m).count))

\* What the verifier knows of a call: its callee, and its arguments' types.
LEMMA CallFacts ==
  ASSUME NEW a, NEW m, Ready(a, m), Current(a, m).op = "call"
  PROVE  LET i == Current(a, m)
             t == TypingAt(a, Active(m))
             stack == Active(m).stack
         IN  /\ i.callee \in DOMAIN a.functions /\ i.count \in Nat
             /\ i.count = Len(a.functions[i.callee].params) /\ Depth(t, i.count)
             /\ ~(Len(stack) < i.count)
             /\ ToSet(a.functions[i.callee].effects) \subseteq ToSet(FunctionAt(a, m).effects)
             /\ Result(a, i.callee) \in EntryRecord
             /\ NextTyping(a, m) = Push1(t, i.count, Result(a, i.callee))
             /\ NextTyping(a, m).stack = Append(Below(t, i.count), Result(a, i.callee))
             /\ NextTyping(a, m).ready = t.ready /\ NextTyping(a, m).used = t.used
             /\ Take(stack, i.count) \in Seq(JoanValue)
             /\ Len(Take(stack, i.count)) = Len(Below(t, i.count))
             /\ Matches(Take(stack, i.count), Below(t, i.count))
             /\ Given(stack, i.count) \in Seq(JoanValue) /\ Len(Given(stack, i.count)) = i.count
<1> DEFINE i == Current(a, m)
           t == TypingAt(a, Active(m))
           stack == Active(m).stack
<1>1. /\ t \in TypingRecord /\ t.sound /\ stack \in Seq(JoanValue)
      /\ Len(stack) = Len(t.stack) /\ Matches(stack, t.stack)
  BY ReadyFacts DEF AtHand
<1>2. i.count \in Nat /\ Verified(a)
  BY ReadyFacts, InstructionFields
<1>3. /\ i.callee \in DOMAIN a.functions
      /\ i.count = Len(a.functions[i.callee].params) /\ Depth(t, i.count)
      /\ ToSet(a.functions[i.callee].effects) \subseteq ToSet(FunctionAt(a, m).effects)
      /\ NextTyping(a, m) = Push1(t, i.count, Result(a, i.callee))
  BY <1>1, CallTypes, NextFacts DEF NextTyping, Result
<1>4. Result(a, i.callee) \in EntryRecord
  <2>1. a.functions[i.callee] \in BytecodeFunction
    BY <1>2, <1>3, VerifiedTables
  <2>2. a.functions[i.callee].ret \in JoanType /\ LabelOf(a.functions[i.callee].retLabel) \in JoanLabel
    BY <2>1, LabelOfTyped DEF BytecodeFunction
  <2> QED
    BY <2>2, EntryTyped DEF Result
<1>5. /\ NextTyping(a, m).stack = Append(Below(t, i.count), Result(a, i.callee))
      /\ NextTyping(a, m).ready = t.ready /\ NextTyping(a, m).used = t.used
  BY <1>1, <1>2, <1>3, <1>4, Push1Typed
<1>6. /\ i.count <= Len(stack)
      /\ Take(stack, i.count) \in Seq(JoanValue)
      /\ Len(Take(stack, i.count)) = Len(Below(t, i.count))
      /\ Matches(Take(stack, i.count), Below(t, i.count))
      /\ Given(stack, i.count) \in Seq(JoanValue) /\ Len(Given(stack, i.count)) = i.count
  <2>1. Depth(t, i.count)
    BY <1>3
  <2> QED
    BY <1>1, <1>2, <2>1, TakenMatches
<1>7. ~(Len(stack) < i.count)
  BY <1>1, <1>2, <1>6
<1> QED
  BY <1>2, <1>3, <1>4, <1>5, <1>6, <1>7

\* A call opens a frame of the callee and leaves the caller waiting for it.
LEMMA CallOpens ==
  ASSUME NEW a, NEW m, Ready(a, m), Current(a, m).op = "call"
  PROVE  /\ Opened(a, m) \in FrameRecord
         /\ Opened(a, m).function = Current(a, m).callee
         /\ AtHand(a, Opened(a, m))
         /\ TypingAt(a, Opened(a, m)) = Typing(a.functions[Current(a, m).callee])
<1> DEFINE i == Current(a, m)
           t == TypingAt(a, Active(m))
           stack == Active(m).stack
<1>1. /\ t \in TypingRecord /\ t.sound /\ stack \in Seq(JoanValue)
      /\ Len(stack) = Len(t.stack) /\ Matches(stack, t.stack) /\ Verified(a)
  BY ReadyFacts DEF AtHand
<1>2. /\ i.callee \in DOMAIN a.functions /\ i.count \in Nat /\ Depth(t, i.count)
      /\ i.count = Len(a.functions[i.callee].params)
      /\ Given(stack, i.count) \in Seq(JoanValue) /\ Len(Given(stack, i.count)) = i.count
  BY CallFacts
<1>3. ASSUME NEW k \in 1..i.count
      PROVE  TypeOf(Given(stack, i.count)[k]) = a.functions[i.callee].params[k]
  <2>1. Top(t, i.count)[k].type = a.functions[i.callee].params[k]
    <3>1. TypeInstruction(a, FunctionAt(a, m), t, i).sound
      BY NextFacts DEF NextTyping
    <3>2. t \in TypingRecord /\ t.sound /\ i.op = "call"
      BY <1>1
    <3> DEFINE f == FunctionAt(a, m)
    <3>3. TypeInstruction(a, f, t, i).sound
      BY <3>1
    <3> HIDE DEF i, t, f
    <3>4. \A j \in 1..i.count : Top(t, i.count)[j].type = a.functions[i.callee].params[j]
      BY <3>2, <3>3, CallArgumentTypes, SMTT(30)
    <3> QED
      BY <3>4
  <2>2. TypeOf(Given(stack, i.count)[k]) = Top(t, i.count)[k].type
    BY <1>1, <1>2, TakenMatches
  <2> QED
    BY <2>1, <2>2
<1>4. \A k \in 1..Len(Given(stack, i.count)) :
        TypeOf(Given(stack, i.count)[k]) = a.functions[i.callee].params[k]
  BY <1>2, <1>3
<1>5. Len(Given(stack, i.count)) = Len(a.functions[i.callee].params)
  BY <1>2
<1> QED
  BY <1>1, <1>2, <1>4, <1>5, FrameAtHand, SMTT(20) DEF Opened

LEMMA CallRuns ==
  ASSUME NEW a, NEW m, Ready(a, m), Current(a, m).op = "call", Len(m.frames) < MaxCallDepth
  PROVE  /\ Taking(a, m) \in FrameRecord
         /\ Taking(a, m).function = Active(m).function
         /\ Awaits(a, Taking(a, m), Current(a, m).callee)
         /\ RunInstruction(a, m) = Opening(m, Taking(a, m), Opened(a, m))
<1> DEFINE i == Current(a, m)
           t == TypingAt(a, Active(m))
           stack == Active(m).stack
           fr == Taking(a, m)
<1>1. /\ i.callee \in DOMAIN a.functions /\ i.count \in Nat
      /\ i.count = Len(a.functions[i.callee].params)
      /\ ~(Len(stack) < i.count)
      /\ Result(a, i.callee) \in EntryRecord
      /\ NextTyping(a, m).stack = Append(Below(t, i.count), Result(a, i.callee))
      /\ NextTyping(a, m).ready = t.ready
      /\ Take(stack, i.count) \in Seq(JoanValue)
      /\ Len(Take(stack, i.count)) = Len(Below(t, i.count))
      /\ Matches(Take(stack, i.count), Below(t, i.count))
      /\ Depth(t, i.count)
  BY CallFacts
<1>2. /\ fr \in FrameRecord /\ fr.function = Active(m).function /\ fr.pc = Active(m).pc + 1
      /\ fr.stack = Take(stack, i.count)
  BY <1>1, ReadyFacts, OnwardTyped DEF Taking
<1>3. Placed(a, fr) /\ TypingAt(a, fr).stack = NextTyping(a, m).stack
  BY <1>1, OnwardArrives DEF Taking
<1>4. Below(t, i.count) \in Seq(EntryRecord)
  BY <1>1, ReadyFacts, BelowTyped
<1>5. /\ Len(TypingAt(a, fr).stack) = Len(fr.stack) + 1
      /\ TypingAt(a, fr).stack[Len(fr.stack) + 1] = Result(a, i.callee)
      /\ Matches(fr.stack, TypingAt(a, fr).stack)
  <2> DEFINE rest == Below(t, i.count)
             taken == Take(stack, i.count)
             entry == Result(a, i.callee)
  <2>1. rest \in Seq(EntryRecord) /\ entry \in EntryRecord /\ taken \in Seq(JoanValue)
        /\ Len(taken) = Len(rest) /\ Matches(taken, rest)
    BY <1>1, <1>4
  <2>2. TypingAt(a, fr).stack = Append(rest, entry) /\ fr.stack = taken
    BY <1>1, <1>2, <1>3
  <2> HIDE DEF rest, taken, entry
  <2>3. /\ Len(Append(rest, entry)) = Len(taken) + 1
        /\ Append(rest, entry)[Len(taken) + 1] = entry
        /\ \A k \in 1..Len(taken) : Append(rest, entry)[k] = rest[k]
    BY <2>1
  <2>4. Matches(taken, Append(rest, entry))
    BY <2>1, <2>3 DEF Matches
  <2>5. /\ Len(TypingAt(a, fr).stack) = Len(fr.stack) + 1
        /\ TypingAt(a, fr).stack[Len(fr.stack) + 1] = entry
        /\ Matches(fr.stack, TypingAt(a, fr).stack)
    BY <2>2, <2>3, <2>4
  <2> QED
    BY <2>5 DEF entry
<1>6. /\ fr.pc - 1 \in 1..Len(CodeOf(a, fr.function))
      /\ CodeOf(a, fr.function)[fr.pc - 1] = i
  BY <1>2, ReadyFacts
<1>7. Awaits(a, fr, i.callee)
  BY <1>1, <1>3, <1>5, <1>6 DEF Awaits
<1>8. RunInstruction(a, m) = Opening(m, fr, Opened(a, m))
  <2>1. RunInstruction(a, m) = RunCall(a, Paid(m), i)
    BY Dispatch
  <2>2. Active(Paid(m)) = Active(m) /\ Paid(m).frames = m.frames
    BY ReadyFacts, PaidTyped DEF Ready
  <2>3. ~(Len(m.frames) >= MaxCallDepth)
    BY DepthAssumption, ReadyFacts, ActiveTyped
  <2>4. Leave(Paid(m), Take(stack, i.count)) = Went(m, fr)
    BY LeaveGoes DEF Taking
  <2> QED
    BY <1>1, <2>1, <2>2, <2>3, <2>4 DEF RunCall, Opened, Opening
<1> QED
  BY <1>2, <1>7, <1>8

\* What the verifier knows of a request: its arguments, and the slots it moves.
LEMMA RequestFacts ==
  ASSUME NEW a, NEW m, Ready(a, m), Current(a, m).op = "request"
  PROVE  LET i == Current(a, m)
             t == TypingAt(a, Active(m))
             stack == Active(m).stack
         IN  /\ i.count \in Nat /\ Depth(t, i.count) /\ ~(Len(stack) < i.count)
             /\ i.effect \in Nat /\ i.slot \in Optional(Nat) /\ i.label \in JoanLabel
             /\ i.effect \in ToSet(FunctionAt(a, m).effects)
             /\ SlotGranted(a, FunctionAt(a, m), t, i) /\ ~Unbound(a, i)
             /\ NextTyping(a, m).stack = Below(t, i.count)
             /\ NextTyping(a, m).ready = t.ready
             /\ NextTyping(a, m).used = t.used \union ToSet(i.slot)
             /\ Take(stack, i.count) \in Seq(JoanValue)
             /\ Len(Take(stack, i.count)) = Len(Below(t, i.count))
             /\ Matches(Take(stack, i.count), Below(t, i.count))
             /\ Given(stack, i.count) \in Seq(JoanValue) /\ Len(Given(stack, i.count)) = i.count
<1> DEFINE i == Current(a, m)
           t == TypingAt(a, Active(m))
           stack == Active(m).stack
<1>1. /\ t \in TypingRecord /\ t.sound /\ stack \in Seq(JoanValue)
      /\ Len(stack) = Len(t.stack) /\ Matches(stack, t.stack)
  BY ReadyFacts DEF AtHand
<1>2. i.count \in Nat /\ i.effect \in Nat /\ i.slot \in Optional(Nat) /\ i.label \in JoanLabel
  BY ReadyFacts, InstructionFields
<1>3. /\ Depth(t, i.count)
      /\ i.effect \in ToSet(FunctionAt(a, m).effects)
      /\ SlotGranted(a, FunctionAt(a, m), t, i) /\ LabelPresence(a.ast, i.label)
      /\ NextTyping(a, m) = Requested(t, i.count, i.slot)
  BY <1>1, RequestTypes, NextFacts DEF NextTyping
<1>4. /\ NextTyping(a, m).stack = Below(t, i.count)
      /\ NextTyping(a, m).ready = t.ready
      /\ NextTyping(a, m).used = t.used \union ToSet(i.slot)
  <2>1. Requested(t, i.count, i.slot) =
          [[t EXCEPT !.stack = Below(t, i.count)] EXCEPT !.used = t.used \union ToSet(i.slot)]
    BY <1>1 DEF Requested, TypingRecord
  <2> QED
    BY <1>1, <1>3, <2>1 DEF TypingRecord
<1>5. /\ i.count <= Len(stack)
      /\ Take(stack, i.count) \in Seq(JoanValue)
      /\ Len(Take(stack, i.count)) = Len(Below(t, i.count))
      /\ Matches(Take(stack, i.count), Below(t, i.count))
      /\ Given(stack, i.count) \in Seq(JoanValue) /\ Len(Given(stack, i.count)) = i.count
  <2>1. Depth(t, i.count)
    BY <1>3
  <2> QED
    BY <1>1, <1>2, <2>1, TakenMatches
<1>6. ~(Len(stack) < i.count)
  BY <1>1, <1>2, <1>5
<1>7. ~Unbound(a, i)
  BY <1>3 DEF SlotGranted, LabelPresence, Unbound
<1> QED
  BY <1>2, <1>3, <1>4, <1>5, <1>6, <1>7

LEMMA RequestRuns ==
  ASSUME NEW a, NEW m, Ready(a, m), Current(a, m).op = "request"
  PROVE  /\ Taking(a, m) \in FrameRecord
         /\ Taking(a, m).function = Active(m).function
         /\ AtHand(a, Taking(a, m))
         /\ Recorded(a, m, Current(a, m)) \in RequestRecord
         /\ RunInstruction(a, m) =
              [Went(m, Taking(a, m)) EXCEPT !.requests = Append(@, Recorded(a, m, Current(a, m)))]
<1> DEFINE i == Current(a, m)
           t == TypingAt(a, Active(m))
           stack == Active(m).stack
           fr == Taking(a, m)
<1>1. /\ i.count \in Nat /\ ~(Len(stack) < i.count) /\ ~Unbound(a, i)
      /\ i.effect \in Nat /\ i.slot \in Optional(Nat) /\ i.label \in JoanLabel
      /\ NextTyping(a, m).stack = Below(t, i.count)
      /\ NextTyping(a, m).ready = t.ready
      /\ Take(stack, i.count) \in Seq(JoanValue)
      /\ Len(Take(stack, i.count)) = Len(Below(t, i.count))
      /\ Matches(Take(stack, i.count), Below(t, i.count))
      /\ Given(stack, i.count) \in Seq(JoanValue)
  BY RequestFacts
<1>2. fr \in FrameRecord /\ fr.function = Active(m).function
  BY <1>1, ReadyFacts, OnwardTyped DEF Taking
<1>3. AtHand(a, fr)
  BY <1>1, OnwardArrives DEF Taking
<1>4. Recorded(a, m, i) \in RequestRecord
  <2>1. Len(m.requests) \in Nat
    BY ReadyFacts DEF MachineRecord
  <2>2. a.functions[Active(m).function].name \in Nat
    BY ReadyFacts DEF BytecodeFunction
  <2> QED
    BY <1>1, <2>1, <2>2 DEF Recorded, RequestRecord
<1>5. Recorded(a, Paid(m), i) = Recorded(a, m, i)
  BY ReadyFacts, PaidTyped DEF Recorded, Ready
<1>6. RunInstruction(a, m) = [Went(m, fr) EXCEPT !.requests = Append(@, Recorded(a, m, i))]
  <2>1. RunInstruction(a, m) = RunRequest(a, Paid(m), i)
    BY Dispatch
  <2>2. Active(Paid(m)) = Active(m)
    BY ReadyFacts, PaidTyped DEF Ready
  <2>3. Leave(Paid(m), Take(stack, i.count)) = Went(m, fr)
    BY LeaveGoes DEF Taking
  <2> QED
    BY <1>1, <1>5, <2>1, <2>2, <2>3 DEF RunRequest
<1> QED
  BY <1>2, <1>3, <1>4, <1>6

Callers(m) == SubSeq(m.frames, 1, Len(m.frames) - 1)
Returned(m) == Active(m).stack[1]
Resumed(m) == [m.frames[Len(m.frames) - 1] EXCEPT !.stack = Append(@, Returned(m))]
Remaining(m) == [Callers(m) EXCEPT ![Len(m.frames) - 1] = Resumed(m)]
WentBack(m) == [Paid(m) EXCEPT !.frames = Remaining(m)]

\* A return leaves one value, of the type its caller awaits.
LEMMA ReturnFacts ==
  ASSUME NEW a, NEW m, Ready(a, m), Current(a, m).op = "return"
  PROVE  LET t == TypingAt(a, Active(m))
             f == FunctionAt(a, m)
         IN  /\ Len(Active(m).stack) = 1
             /\ Returned(m) \in JoanValue /\ TypeOf(Returned(m)) = f.ret
             /\ Given(Active(m).stack, 1)[1] = Returned(m)
             /\ CanFlow(t.stack[1].label, LabelOf(f.retLabel))
             /\ Active(m).pc = Len(CodeOf(a, Active(m).function))
             /\ NextTyping(a, m).used = t.used
<1> DEFINE t == TypingAt(a, Active(m))
           stack == Active(m).stack
<1>1. /\ t \in TypingRecord /\ t.sound /\ stack \in Seq(JoanValue)
      /\ Len(stack) = Len(t.stack) /\ Matches(stack, t.stack)
  BY ReadyFacts DEF AtHand
<1>2. /\ Len(t.stack) = 1 /\ t.stack[1].type = FunctionAt(a, m).ret
      /\ CanFlow(t.stack[1].label, LabelOf(FunctionAt(a, m).retLabel))
      /\ NextTyping(a, m) = Emptied(t)
  BY <1>1, ReturnTypes, NextFacts DEF NextTyping
<1>3. Returned(m) \in JoanValue /\ TypeOf(Returned(m)) = FunctionAt(a, m).ret
  BY <1>1, <1>2 DEF Matches, Returned
<1>4. Given(stack, 1)[1] = Returned(m)
  <2>0. stack \in Seq(JoanValue) /\ Len(stack) = 1
    BY <1>1, <1>2
  <2>1. Given(stack, 1)[1] = stack[1]
    BY <2>0 DEF Given
  <2> QED
    BY <2>1 DEF Returned
<1>5. Active(m).pc = Len(CodeOf(a, Active(m).function))
  BY ReadyFacts, ReturnIsLast
<1>6. NextTyping(a, m).used = t.used
  BY <1>1, <1>2 DEF Emptied, TypingRecord
<1> QED
  BY <1>1, <1>2, <1>3, <1>4, <1>5, <1>6

LEMMA ReturnRuns ==
  ASSUME NEW a, NEW m, Ready(a, m), Current(a, m).op = "return"
  PROVE  /\ Len(m.frames) = 1 => RunInstruction(a, m) =
              [Halt(Paid(m), "completed") EXCEPT !.result = Returned(m)]
         /\ Len(m.frames) # 1 => RunInstruction(a, m) = WentBack(m)
<1>1. m.frames \in Seq(FrameRecord) /\ m.frames # <<>> /\ Len(m.frames) \in Nat \ {0}
  BY ReadyFacts DEF MachineRecord
<1>2. /\ Len(Callers(m)) = Len(m.frames) - 1
      /\ Callers(m) \in Seq(FrameRecord)
      /\ \A d \in 1..(Len(m.frames) - 1) : Callers(m)[d] = m.frames[d]
  BY <1>1 DEF Callers
<1>3. RunInstruction(a, m) = RunReturn(Paid(m))
  BY Dispatch
<1>4. Active(Paid(m)) = Active(m) /\ Paid(m).frames = m.frames
  BY ReadyFacts, PaidTyped DEF Ready
<1>5. Active(m).stack # <<>> /\ Given(Active(m).stack, 1)[1] = Returned(m)
  <2>1. Len(Active(m).stack) = 1 /\ Given(Active(m).stack, 1)[1] = Returned(m)
    BY ReturnFacts
  <2>2. Len(<<>>) = 0
    OBVIOUS
  <2>3. Active(m).stack # <<>>
    BY <2>1, <2>2, SMTT(20)
  <2> QED
    BY <2>1, <2>3
<1>6. RunReturn(Paid(m)) =
        IF Callers(m) = <<>> THEN [Halt(Paid(m), "completed") EXCEPT !.result = Returned(m)]
        ELSE [Paid(m) EXCEPT !.frames =
                [Callers(m) EXCEPT ![Len(Callers(m))].stack = Append(@, Returned(m))]]
  BY <1>4, <1>5 DEF RunReturn, Callers
<1>7. CASE Len(m.frames) = 1
  <2>1. Callers(m) = <<>>
    BY <1>2, <1>7
  <2> QED
    BY <1>3, <1>6, <1>7, <2>1
<1>8. CASE Len(m.frames) # 1
  <2>0. Len(m.frames) - 1 \in 1..(Len(m.frames) - 1)
    <3>1. \A n \in Nat \ {0} : n # 1 => n - 1 \in 1..(n - 1)
      OBVIOUS
    <3> QED
      BY <3>1, <1>1, <1>8
  <2>1. Callers(m) # <<>> /\ Len(m.frames) - 1 \in 1..(Len(m.frames) - 1)
    BY <2>0, <1>2
  <2>2. [Callers(m) EXCEPT ![Len(Callers(m))].stack = Append(@, Returned(m))] =
          [Callers(m) EXCEPT ![Len(m.frames) - 1] = Resumed(m)]
    BY <1>2, <2>1 DEF Resumed
  <2> QED
    BY <1>3, <1>6, <1>8, <2>1, <2>2 DEF WentBack, Remaining
<1> QED
  BY <1>7, <1>8

-----------------------------------------------------------------------------
\* A chain of calls enters no function twice, so the machine is never too deep.
IsChain(a, n, p) ==
  p \in [1..n -> DOMAIN a.functions] /\ \A d \in 1..(n - 1) : <<p[d], p[d + 1]>> \in CodeEdges(a)

\* A call is an edge of the graph of calls.
LEMMA CallIsEdge ==
  ASSUME NEW a, NEW k \in DOMAIN a.functions, NEW n \in DOMAIN CodeOf(a, k),
         CodeOf(a, k)[n].op = "call"
  PROVE  <<k, CodeOf(a, k)[n].callee>> \in CodeEdges(a)
<1> DEFINE i == CodeOf(a, k)[n]
           calls == {j \in ToSet(a.functions[k].code) : j.op = "call"}
<1>1. i \in calls
  BY DEF CodeOf, ToSet
<1>2. <<k, i.callee>> \in {<<k, j.callee>> : j \in calls}
  BY <1>1
<1> QED
  BY <1>2 DEF CodeEdges

\* A chain of calls has no function twice, since no call leads back.
LEMMA ChainIsSimple ==
  ASSUME NEW a, Verified(a), NEW n \in Nat, NEW p, IsChain(a, n, p),
         NEW d \in 1..n, NEW e \in 1..n, d < e
  PROVE  p[d] # p[e]
<1> SUFFICES ASSUME p[d] = p[e] PROVE FALSE
  OBVIOUS
<1> DEFINE cycle == {p[x] : x \in d..e}
<1>1. p[d] \in cycle
  OBVIOUS
<1>2. cycle \in (SUBSET DOMAIN a.functions) \ {{}}
  <2>1. cycle \subseteq DOMAIN a.functions
    BY DEF IsChain
  <2>2. cycle # {}
    BY <1>1
  <2> HIDE DEF cycle
  <2> QED
    BY <2>1, <2>2
<1>3. ASSUME NEW v \in cycle
      PROVE  \E w \in cycle : <<v, w>> \in CodeEdges(a)
  <2>1. PICK x \in d..e : v = p[x]
    OBVIOUS
  <2>2. CASE x < e
    <3>1. x \in 1..(n - 1) /\ x + 1 \in d..e
      BY <2>2
    <3>2. p[x + 1] \in cycle /\ <<v, p[x + 1]>> \in CodeEdges(a)
      BY <2>1, <3>1 DEF IsChain
    <3> QED
      BY <3>2
  <2>3. CASE x = e
    <3>1. d \in 1..(n - 1) /\ d + 1 \in d..e /\ v = p[d]
      BY <2>1, <2>3
    <3>2. p[d + 1] \in cycle /\ <<v, p[d + 1]>> \in CodeEdges(a)
      BY <3>1 DEF IsChain
    <3> QED
      BY <3>2
  <2>4. x < e \/ x = e
    OBVIOUS
  <2> HIDE DEF cycle
  <2> QED
    BY <2>2, <2>3, <2>4
<1>4. HasCycle(DOMAIN a.functions, CodeEdges(a))
  <2> HIDE DEF cycle
  <2> QED
    BY <1>2, <1>3 DEF HasCycle
<1> QED
  BY <1>4 DEF Verified, StructureSound

\* So it is not longer than there are functions.
LEMMA ChainIsShort ==
  ASSUME NEW a, Verified(a), NEW n \in Nat, NEW p, IsChain(a, n, p)
  PROVE  n <= Len(a.functions) /\ n <= MaxCallDepth
<1>1. a.functions \in Seq(BytecodeFunction) /\ Len(a.functions) <= MaxFunctions
  BY DEF Verified, IsDecoded, StructureLimits
<1>2. Len(a.functions) \in Nat /\ DOMAIN a.functions = 1..Len(a.functions)
  BY <1>1
<1>3. IsFiniteSet(1..n) /\ Cardinality(1..n) = n
  BY FS_Interval
<1>4. IsFiniteSet(1..Len(a.functions)) /\ Cardinality(1..Len(a.functions)) = Len(a.functions)
  BY <1>2, FS_Interval
<1>5. n <= Len(a.functions)
  <2>1. SUFFICES ASSUME ~(n <= Len(a.functions)) PROVE FALSE
    OBVIOUS
  <2>2. p \in [1..n -> 1..Len(a.functions)]
    BY <1>2 DEF IsChain
  <2>3. Cardinality(1..Len(a.functions)) < Cardinality(1..n)
    BY <1>2, <1>3, <1>4, <2>1
  <2>4. \E x, y \in 1..n : x # y /\ p[x] = p[y]
    BY <1>3, <1>4, <2>2, <2>3, FS_PigeonHole
  <2>5. PICK x \in 1..n, y \in 1..n : x # y /\ p[x] = p[y]
    BY <2>4
  <2>6. CASE x < y
    BY <2>5, <2>6, ChainIsSimple
  <2>7. CASE y < x
    BY <2>5, <2>7, ChainIsSimple
  <2> QED
    BY <2>5, <2>6, <2>7
<1> QED
  BY <1>1, <1>2, <1>5, DepthAssumption

LEMMA FramesAreChain ==
  ASSUME NEW a, Verified(a), NEW frames, FramesFit(a, frames)
  PROVE  /\ Len(frames) \in Nat \ {0}
         /\ \A d \in 1..Len(frames) : Placed(a, frames[d]) /\ frames[d].function \in DOMAIN a.functions
         /\ \A d \in 1..(Len(frames) - 1) :
              <<frames[d].function, frames[d + 1].function>> \in CodeEdges(a)
<1>1. frames \in Seq(FrameRecord) /\ frames # <<>> /\ Len(frames) \in Nat \ {0}
  BY DEF FramesFit
<1>2. ASSUME NEW d \in 1..Len(frames)
      PROVE  Placed(a, frames[d]) /\ frames[d].function \in DOMAIN a.functions
  <2>1. CASE d = Len(frames)
    BY <2>1 DEF FramesFit, AtHand, Placed
  <2>2. CASE d # Len(frames)
    <3>1. d \in 1..(Len(frames) - 1)
      BY <1>1, <2>2
    <3> QED
      BY <3>1 DEF FramesFit, Awaits, Placed
  <2> QED
    BY <2>1, <2>2
<1>3. ASSUME NEW d \in 1..(Len(frames) - 1)
      PROVE  <<frames[d].function, frames[d + 1].function>> \in CodeEdges(a)
  <2> DEFINE fr == frames[d]
             k == frames[d].function
  <2>1. Awaits(a, fr, frames[d + 1].function)
    BY DEF FramesFit
  <2>2. /\ k \in DOMAIN a.functions /\ fr.pc - 1 \in DOMAIN CodeOf(a, k)
        /\ CodeOf(a, k)[fr.pc - 1].op = "call"
        /\ CodeOf(a, k)[fr.pc - 1].callee = frames[d + 1].function
    <3>1. k \in DOMAIN a.functions /\ fr.pc - 1 \in 1..Len(CodeOf(a, k))
      BY <2>1 DEF Awaits, Placed
    <3>2. DOMAIN CodeOf(a, k) = 1..Len(CodeOf(a, k))
      BY <3>1, VerifiedTables
    <3> QED
      BY <2>1, <3>1, <3>2 DEF Awaits
  <2> QED
    BY <2>2, CallIsEdge
<1> QED
  BY <1>1, <1>2, <1>3

\* One more call is within the depth the machine allows.
LEMMA CallFitsDepth ==
  ASSUME NEW a, NEW m, Ready(a, m), Current(a, m).op = "call"
  PROVE  Len(m.frames) < MaxCallDepth
<1> DEFINE n == Len(m.frames)
           callee == Current(a, m).callee
           p == [d \in 1..(n + 1) |-> IF d = n + 1 THEN callee ELSE m.frames[d].function]
<1>1. FramesFit(a, m.frames) /\ Verified(a)
  BY DEF Ready
<1>2. /\ n \in Nat \ {0}
      /\ \A d \in 1..n : m.frames[d].function \in DOMAIN a.functions
      /\ \A d \in 1..(n - 1) : <<m.frames[d].function, m.frames[d + 1].function>> \in CodeEdges(a)
  BY <1>1, FramesAreChain
<1>3. callee \in DOMAIN a.functions
  BY CallFacts
<1>4. <<m.frames[n].function, callee>> \in CodeEdges(a)
  <2>1. /\ Active(m) = m.frames[n] /\ Active(m).function \in DOMAIN a.functions
        /\ Active(m).pc \in 1..Len(CodeOf(a, Active(m).function))
        /\ Current(a, m) = CodeOf(a, Active(m).function)[Active(m).pc]
    BY ReadyFacts, ActiveTyped
  <2>2. Active(m).pc \in DOMAIN CodeOf(a, Active(m).function)
    BY <1>1, <2>1, VerifiedTables
  <2> QED
    BY <2>1, <2>2, CallIsEdge
<1>5. p \in [1..(n + 1) -> DOMAIN a.functions]
  BY <1>2, <1>3
<1>6. ASSUME NEW d \in 1..n
      PROVE  <<p[d], p[d + 1]>> \in CodeEdges(a)
  <2>1. CASE d = n
    BY <2>1, <1>2, <1>4
  <2>2. CASE d # n
    <3>1. d \in 1..(n - 1) /\ d + 1 \in 1..n /\ d # n + 1 /\ d + 1 # n + 1
      BY <2>2, <1>2
    <3> QED
      BY <3>1, <1>2
  <2> QED
    BY <2>1, <2>2
<1> HIDE DEF p
<1>7. IsChain(a, n + 1, p)
  BY <1>2, <1>5, <1>6 DEF IsChain
<1>8. n + 1 <= MaxCallDepth
  BY <1>1, <1>2, <1>7, ChainIsShort
<1> QED
  BY <1>2, <1>8, DepthAssumption

\* The frames after an instruction, a call, and a return.
LEMMA WentFits ==
  ASSUME NEW a, NEW m, Ready(a, m), NEW fr \in FrameRecord, fr.function = Active(m).function
  PROVE  /\ Went(m, fr) \in MachineRecord
         /\ Went(m, fr).frames = [m.frames EXCEPT ![Len(m.frames)] = fr]
         /\ Went(m, fr).requests = m.requests /\ Went(m, fr).status = m.status
         /\ Went(m, fr).executed = m.executed + 1
         /\ Went(m, fr).remaining = m.remaining - 1
         /\ AtHand(a, fr) => FramesFit(a, Went(m, fr).frames)
<1> DEFINE n == Len(m.frames)
           next == [m.frames EXCEPT ![n] = fr]
<1>1. /\ m \in MachineRecord /\ m.frames # <<>> /\ m.remaining # 0
      /\ m.frames \in Seq(FrameRecord) /\ n \in Nat \ {0}
      /\ \A d \in 1..(n - 1) : Awaits(a, m.frames[d], m.frames[d + 1].function)
  BY DEF Ready, FramesFit
<1>2. /\ Went(m, fr) \in MachineRecord /\ Went(m, fr).frames = next
      /\ Went(m, fr).requests = m.requests /\ Went(m, fr).status = m.status
      /\ Went(m, fr).executed = m.executed + 1 /\ Went(m, fr).remaining = m.remaining - 1
  BY <1>1, PaidTyped, ActivateTyped DEF Went
<1>3. ASSUME AtHand(a, fr)
      PROVE  FramesFit(a, next)
  <2>0. next \in Seq(FrameRecord) /\ Len(next) = n /\ n \in DOMAIN m.frames
    BY <1>1
  <2>1. next \in Seq(FrameRecord) /\ Len(next) = n /\ next # <<>> /\ next[n] = fr
    BY <1>1, <2>0
  <2>2. ASSUME NEW d \in 1..(n - 1)
        PROVE  Awaits(a, next[d], next[d + 1].function)
    <3>1. d \in 1..n /\ d # n /\ d + 1 \in 1..n
      BY <1>1
    <3>2. next[d] = m.frames[d] /\ next[d + 1].function = m.frames[d + 1].function
      BY <1>1, <3>1, ActiveTyped
    <3> QED
      BY <1>1, <3>2
  <2> HIDE DEF next
  <2> QED
    BY <1>3, <2>1, <2>2 DEF FramesFit
<1> QED
  BY <1>2, <1>3

LEMMA OpenedFits ==
  ASSUME NEW a, NEW m, Ready(a, m), NEW fr \in FrameRecord, fr.function = Active(m).function,
         NEW opened \in FrameRecord, Awaits(a, fr, opened.function), AtHand(a, opened)
  PROVE  LET next == Opening(m, fr, opened)
         IN  /\ next \in MachineRecord
             /\ next.frames = Append([m.frames EXCEPT ![Len(m.frames)] = fr], opened)
             /\ next.requests = m.requests /\ next.status = m.status
             /\ next.executed = m.executed + 1 /\ next.remaining = m.remaining - 1
             /\ FramesFit(a, next.frames)
<1> DEFINE n == Len(m.frames)
           moved == [m.frames EXCEPT ![n] = fr]
           next == Opening(m, fr, opened)
           frames == Append(moved, opened)
<1>1. /\ m.frames \in Seq(FrameRecord) /\ n \in Nat \ {0} /\ Active(m) = m.frames[n]
      /\ \A d \in 1..(n - 1) : Awaits(a, m.frames[d], m.frames[d + 1].function)
  BY ActiveTyped DEF Ready, FramesFit
<1>2. /\ Went(m, fr) \in MachineRecord /\ Went(m, fr).frames = moved
      /\ Went(m, fr).requests = m.requests /\ Went(m, fr).status = m.status
      /\ Went(m, fr).executed = m.executed + 1 /\ Went(m, fr).remaining = m.remaining - 1
  BY WentFits
<1>3. moved \in Seq(FrameRecord) /\ Len(moved) = n
  BY <1>1
<1>4. frames \in Seq(FrameRecord) /\ Len(frames) = n + 1 /\ frames # <<>> /\ frames[n + 1] = opened
  BY <1>1, <1>3
<1>5. ASSUME NEW d \in 1..n
      PROVE  Awaits(a, frames[d], frames[d + 1].function)
  <2>1. CASE d = n
    <3>1. frames[d] = fr /\ frames[d + 1] = opened
      BY <1>1, <1>3, <1>4, <2>1
    <3> QED
      BY <3>1
  <2>2. CASE d # n
    <3>1. d \in 1..(n - 1) /\ d + 1 \in 1..n /\ d \in 1..n
      BY <1>1, <2>2
    <3>2. frames[d] = moved[d] /\ frames[d + 1] = moved[d + 1]
      BY <1>1, <1>3, <3>1
    <3>3. moved[d] = m.frames[d] /\ moved[d + 1].function = m.frames[d + 1].function
      BY <1>1, <2>2, <3>1
    <3> QED
      BY <1>1, <3>1, <3>2, <3>3
  <2> QED
    BY <2>1, <2>2
<1> HIDE DEF frames
<1>6. FramesFit(a, frames)
  BY <1>1, <1>4, <1>5 DEF FramesFit
<1>7. next = [Went(m, fr) EXCEPT !.frames = frames]
  BY <1>2 DEF frames, Opening
<1> HIDE DEF next
<1>8. /\ next \in MachineRecord /\ next.frames = frames
      /\ next.requests = Went(m, fr).requests /\ next.status = Went(m, fr).status
      /\ next.executed = Went(m, fr).executed /\ next.remaining = Went(m, fr).remaining
  BY <1>2, <1>4, <1>7, FramesTyped
<1> QED
  BY <1>2, <1>6, <1>8 DEF frames, next

\* The caller has what it awaited.
LEMMA ResumedFits ==
  ASSUME NEW a, NEW m, Ready(a, m), Current(a, m).op = "return", Len(m.frames) # 1
  PROVE  LET below == m.frames[Len(m.frames) - 1]
         IN  /\ Len(m.frames) - 1 \in Nat \ {0}
             /\ below \in FrameRecord
             /\ Awaits(a, below, Active(m).function)
             /\ Resumed(m) \in FrameRecord
             /\ Resumed(m).function = below.function /\ Resumed(m).pc = below.pc
             /\ Resumed(m).locals = below.locals
             /\ Resumed(m).stack = Append(below.stack, Returned(m))
             /\ TypingAt(a, Resumed(m)) = TypingAt(a, below)
             /\ AtHand(a, Resumed(m))
<1> DEFINE n == Len(m.frames)
           below == m.frames[n - 1]
           k == Active(m).function
           fr == Resumed(m)
           t == TypingAt(a, below)
<1>1. /\ m.frames \in Seq(FrameRecord) /\ n \in Nat \ {0} /\ Active(m) = m.frames[n]
      /\ \A d \in 1..(n - 1) : Awaits(a, m.frames[d], m.frames[d + 1].function)
  BY ActiveTyped DEF Ready, FramesFit
<1>2. n - 1 \in Nat \ {0} /\ n - 1 \in 1..(n - 1) /\ n - 1 \in 1..n /\ (n - 1) + 1 = n
  <2>1. \A x \in Nat \ {0} : x # 1 => x - 1 \in Nat \ {0} /\ x - 1 \in 1..(x - 1)
                                      /\ x - 1 \in 1..x /\ (x - 1) + 1 = x
    OBVIOUS
  <2>2. n \in Nat \ {0} /\ n # 1
    BY <1>1
  <2> QED
    BY <2>1, <2>2
<1>3. below \in FrameRecord /\ Awaits(a, below, k)
  BY <1>1, <1>2
<1>4. below.stack \in Seq(JoanValue)
  BY <1>3 DEF FrameRecord
<1>5. Returned(m) \in JoanValue /\ TypeOf(Returned(m)) = a.functions[k].ret
  BY ReturnFacts, ReadyFacts
<1>6. Append(below.stack, Returned(m)) \in Seq(JoanValue)
  BY <1>4, <1>5
<1> HIDE DEF below
<1>7. fr = [below EXCEPT !.stack = Append(below.stack, Returned(m))]
  BY DEF Resumed, below
<1>8. /\ fr \in FrameRecord /\ fr.function = below.function /\ fr.pc = below.pc
      /\ fr.locals = below.locals /\ fr.stack = Append(below.stack, Returned(m))
  BY <1>3, <1>6, <1>7 DEF FrameRecord
<1> HIDE DEF fr
<1>9. TypingAt(a, fr) = t
  BY <1>8 DEF TypingAt
<1>10. Placed(a, fr)
  BY <1>3, <1>8, <1>9 DEF Awaits, Placed
<1>11. /\ Len(t.stack) = Len(below.stack) + 1
       /\ t.stack[Len(below.stack) + 1].type = a.functions[k].ret
       /\ Matches(below.stack, t.stack)
  BY <1>3 DEF Awaits, Result, Entry
<1>12. Len(fr.stack) = Len(t.stack)
  BY <1>4, <1>5, <1>8, <1>11
<1>13. ASSUME NEW j \in 1..Len(fr.stack)
       PROVE  TypeOf(fr.stack[j]) = t.stack[j].type
  <2>1. CASE j = Len(below.stack) + 1
    <3>1. fr.stack[j] = Returned(m)
      BY <1>4, <1>8, <2>1
    <3> QED
      BY <3>1, <2>1, <1>5, <1>11
  <2>2. CASE j # Len(below.stack) + 1
    <3>1. j \in 1..Len(below.stack)
      BY <1>4, <1>11, <1>12, <2>2
    <3>2. fr.stack[j] = below.stack[j]
      BY <1>4, <1>8, <3>1
    <3> QED
      BY <3>1, <3>2, <1>11 DEF Matches
  <2> QED
    BY <2>1, <2>2
<1>14. AtHand(a, fr)
  BY <1>9, <1>10, <1>12, <1>13 DEF AtHand, Matches
<1> QED
  BY <1>2, <1>3, <1>8, <1>9, <1>14, <1>1 DEF below, fr

LEMMA ReturnedFits ==
  ASSUME NEW a, NEW m, Ready(a, m), Current(a, m).op = "return", Len(m.frames) # 1
  PROVE  LET n == Len(m.frames) - 1
             frames == Remaining(m)
             next == WentBack(m)
         IN  /\ n \in Nat \ {0} /\ Len(frames) = n
             /\ \A d \in 1..(n - 1) : frames[d] = m.frames[d]
             /\ frames[n] = Resumed(m)
             /\ next \in MachineRecord /\ next.frames = frames
             /\ next.requests = m.requests /\ next.status = m.status
             /\ next.executed = m.executed + 1 /\ next.remaining = m.remaining - 1
             /\ FramesFit(a, next.frames)
<1> DEFINE n == Len(m.frames) - 1
           frames == [Callers(m) EXCEPT ![n] = Resumed(m)]
           next == [Paid(m) EXCEPT !.frames = frames]
<1>1. /\ m.frames \in Seq(FrameRecord) /\ Len(m.frames) \in Nat \ {0}
      /\ \A d \in 1..n : Awaits(a, m.frames[d], m.frames[d + 1].function)
      /\ m \in MachineRecord /\ m.remaining # 0
  BY ActiveTyped DEF Ready, FramesFit
<1>2. /\ n \in Nat \ {0} /\ Resumed(m) \in FrameRecord /\ AtHand(a, Resumed(m))
      /\ Resumed(m).function = m.frames[n].function
  BY ResumedFits
<1>3. /\ Callers(m) \in Seq(FrameRecord) /\ Len(Callers(m)) = n
      /\ \A d \in 1..n : Callers(m)[d] = m.frames[d]
  BY <1>1, <1>2 DEF Callers
<1> HIDE DEF n
<1>4. frames \in Seq(FrameRecord) /\ Len(frames) = n
  BY <1>2, <1>3
<1>5. /\ \A d \in 1..(n - 1) : frames[d] = m.frames[d]
      /\ frames[n] = Resumed(m) /\ frames # <<>>
  BY <1>2, <1>3
<1> HIDE DEF frames
<1>6. ASSUME NEW d \in 1..(n - 1)
      PROVE  Awaits(a, frames[d], frames[d + 1].function)
  <2>1. d \in 1..n /\ d + 1 \in 1..n
    BY <1>2
  <2>2. Awaits(a, frames[d], m.frames[d + 1].function)
    BY <1>1, <1>5, <2>1
  <2>3. CASE d + 1 = n
    BY <1>2, <1>5, <2>2, <2>3
  <2>4. CASE d + 1 # n
    <3>1. d + 1 \in 1..(n - 1)
      BY <1>2, <2>4
    <3> QED
      BY <1>5, <2>2, <3>1
  <2> QED
    BY <2>3, <2>4
<1>7. FramesFit(a, frames)
  BY <1>2, <1>4, <1>5, <1>6 DEF FramesFit
<1>8. /\ Paid(m) \in MachineRecord /\ Paid(m).requests = m.requests /\ Paid(m).status = m.status
      /\ Paid(m).executed = m.executed + 1 /\ Paid(m).remaining = m.remaining - 1
  BY <1>1, PaidTyped
<1>9. /\ next \in MachineRecord /\ next.frames = frames
      /\ next.requests = m.requests /\ next.status = m.status
      /\ next.executed = m.executed + 1 /\ next.remaining = m.remaining - 1
  BY <1>4, <1>8, FramesTyped
<1> QED
  BY <1>2, <1>4, <1>5, <1>7, <1>9 DEF n, frames, Remaining, WentBack

-----------------------------------------------------------------------------
\* Verified code never gets stuck.
MachineFits(a, m) ==
  /\ m \in MachineRecord
  /\ Running(m) => FramesFit(a, m.frames)
  /\ ~Running(m) => m.frames = <<>>

\* A machine that stops fits whatever it was at.
LEMMA HaltFits ==
  ASSUME NEW a, NEW m \in MachineRecord, NEW status \in Statuses, status # "running"
  PROVE  MachineFits(a, Halt(m, status))
BY HaltTyped DEF MachineFits, Running

LEMMA StatusKinds ==
  ASSUME NEW status \in Statuses
  PROVE  status \notin Excluded
<1>1. status \in Operations => status \notin Excluded
  BY DEF Operations, Arithmetic, Comparison, Equality, Logic, Excluded
<1>2. status \in {"running", "completed", "budget"} => status \notin Excluded
  BY DEF Excluded
<1> QED
  BY <1>1, <1>2 DEF Statuses

LEMMA OperationKinds ==
  ASSUME NEW op \in Operations
  PROVE  op \in Statuses /\ op # "running" /\ op # "completed"
<1>1. op # "running" /\ op # "completed"
  BY DEF Operations, Arithmetic, Comparison, Equality, Logic
<1> QED
  BY <1>1 DEF Statuses

LEMMA HaltKinds ==
  /\ "budget" \in Statuses /\ "budget" # "running"
  /\ "completed" \in Statuses /\ "completed" # "running"
BY DEF Statuses

\* A machine whose budget is spent stops before the next instruction.
LEMMA BudgetStops ==
  ASSUME NEW a, Verified(a), NEW m \in MachineRecord, FramesFit(a, m.frames), m.remaining = 0
  PROVE  RunInstruction(a, m) = Halt(m, "budget")
<1>1. m.frames # <<>> /\ AtHand(a, Active(m))
  BY ActiveTyped DEF FramesFit
<1>2. /\ Active(m).function \in DOMAIN a.functions
      /\ Active(m).pc \in 1..Len(CodeOf(a, Active(m).function))
  BY <1>1 DEF AtHand, Placed
<1>3. ~(Active(m).pc > Len(a.functions[Active(m).function].code))
  BY <1>2, VerifiedTables DEF CodeOf
<1> QED
  BY <1>3 DEF RunInstruction

\* One instruction of a machine that fits: it fits again, and met no excluded fault.
LEMMA RunFits ==
  ASSUME NEW a, Verified(a), NEW m, MachineFits(a, m), Running(m)
  PROVE  MachineFits(a, RunInstruction(a, m))
<1> DEFINE next == RunInstruction(a, m)
           i == Current(a, m)
<1>1. m \in MachineRecord /\ FramesFit(a, m.frames) /\ m.status = "running"
  BY DEF MachineFits, Running
<1>2. CASE m.remaining = 0
  <2>1. next = Halt(m, "budget")
    BY <1>1, <1>2, BudgetStops
  <2> QED
    BY <1>1, <2>1, HaltKinds, HaltFits
<1>3. CASE m.remaining # 0
  <2>1. Ready(a, m)
    BY <1>1, <1>3 DEF Ready
  <2>2. Paid(m) \in MachineRecord
    BY <1>1, <1>3, PaidTyped
  <2>3. ASSUME NEW fr \in FrameRecord, fr.function = Active(m).function, AtHand(a, fr),
               next = Went(m, fr)
        PROVE  MachineFits(a, next)
    <3>1. /\ Went(m, fr) \in MachineRecord /\ Went(m, fr).status = m.status
          /\ FramesFit(a, Went(m, fr).frames)
      BY <2>1, <2>3, WentFits
    <3>2. next \in MachineRecord /\ next.status = "running" /\ FramesFit(a, next.frames)
      BY <1>1, <2>3, <3>1
    <3> HIDE DEF next
    <3> QED
      BY <3>2, HaltKinds DEF MachineFits, Running
  <2>4. ASSUME NEW stack \in Seq(JoanValue), AtHand(a, Onward(Active(m), stack)),
               next = Went(m, Onward(Active(m), stack))
        PROVE  MachineFits(a, next)
    BY <2>1, <2>3, <2>4, OnwardTyped, ReadyFacts
  <2>5. CASE i.op = "push"
    BY <2>1, <2>4, <2>5, PushRuns
  <2>6. CASE i.op = "load"
    BY <2>1, <2>4, <2>6, LoadRuns
  <2>7. CASE i.op = "store"
    BY <2>1, <2>3, <2>7, StoreRuns
  <2>8. CASE i.op = "pop"
    BY <2>1, <2>4, <2>8, PopRuns
  <2>9. CASE i.op = "call"
    <3>1. /\ Taking(a, m) \in FrameRecord /\ Taking(a, m).function = Active(m).function
          /\ Awaits(a, Taking(a, m), i.callee)
          /\ next = Opening(m, Taking(a, m), Opened(a, m))
      BY <2>1, <2>9, CallFitsDepth, CallRuns
    <3>2. /\ Opened(a, m) \in FrameRecord /\ Opened(a, m).function = i.callee
          /\ AtHand(a, Opened(a, m))
      BY <2>1, <2>9, CallOpens
    <3>3. /\ next \in MachineRecord /\ next.status = m.status /\ FramesFit(a, next.frames)
      BY <2>1, <3>1, <3>2, OpenedFits
    <3> QED
      BY <1>1, <3>3 DEF MachineFits, Running
  <2>10. CASE i.op = "request"
    <3> DEFINE went == Went(m, Taking(a, m))
    <3>1. /\ Taking(a, m) \in FrameRecord /\ Taking(a, m).function = Active(m).function
          /\ AtHand(a, Taking(a, m)) /\ Recorded(a, m, i) \in RequestRecord
          /\ next = [went EXCEPT !.requests = Append(@, Recorded(a, m, i))]
      BY <2>1, <2>10, RequestRuns
    <3>2. went \in MachineRecord /\ went.status = m.status /\ FramesFit(a, went.frames)
      BY <2>1, <3>1, WentFits
    <3>3. Append(went.requests, Recorded(a, m, i)) \in Seq(RequestRecord)
      BY <3>1, <3>2 DEF MachineRecord
    <3>4. next \in MachineRecord /\ next.status = went.status /\ next.frames = went.frames
      <4> HIDE DEF went, next
      <4> QED
        BY <3>1, <3>2, <3>3 DEF MachineRecord
    <3> QED
      BY <1>1, <3>2, <3>4 DEF MachineFits, Running
  <2>11. CASE i.op = "return" /\ Len(m.frames) = 1
    <3> DEFINE halted == Halt(Paid(m), "completed")
    <3>1. next = [halted EXCEPT !.result = Returned(m)] /\ Returned(m) \in JoanValue
      BY <2>1, <2>11, ReturnRuns, ReturnFacts
    <3>2. halted \in MachineRecord /\ halted.status = "completed" /\ halted.frames = <<>>
      BY <2>2, HaltTyped, HaltKinds
    <3> HIDE DEF halted, next
    <3>3. next \in MachineRecord /\ next.status = "completed" /\ next.frames = <<>>
      BY <3>1, <3>2 DEF MachineRecord
    <3>4. MachineFits(a, next)
      BY <3>3, HaltKinds DEF MachineFits, Running
    <3> QED
      BY <3>4 DEF next
  <2>12. CASE i.op = "return" /\ Len(m.frames) # 1
    <3>1. next = WentBack(m)
      BY <2>1, <2>12, ReturnRuns
    <3>2. next \in MachineRecord /\ next.status = m.status /\ FramesFit(a, next.frames)
      BY <2>1, <2>12, <3>1, ReturnedFits
    <3> QED
      BY <1>1, <3>2 DEF MachineFits, Running
  <2>13. CASE i.op \in Operations
    <3>1. CASE Answer(m, i.op) = <<"fault", i.op>>
      <4>1. next = Halt(Paid(m), i.op)
        BY <2>1, <2>13, <3>1, OperatorRuns
      <4>2. i.op \in Statuses /\ i.op # "running"
        BY <2>13, OperationKinds
      <4> QED
        BY <2>2, <4>1, <4>2, HaltFits
    <3>2. CASE Answer(m, i.op) # <<"fault", i.op>>
      BY <2>1, <2>4, <2>13, <3>2, OperatorRuns
    <3> QED
      BY <3>1, <3>2
  <2> QED
    BY <2>1, <2>5, <2>6, <2>7, <2>8, <2>9, <2>10, <2>11, <2>12, <2>13, ReadyFacts, InstructionFields
<1> QED
  BY <1>2, <1>3

\* The arguments a function may be executed with are values of its types.
LEMMA ArgumentsTyped ==
  ASSUME NEW a, Verified(a), NEW k \in DOMAIN a.functions,
         NEW given \in ArgumentsOf(a.functions[k])
  PROVE  /\ given \in Seq(JoanValue) /\ Len(given) = Len(a.functions[k].params)
         /\ \A i \in 1..Len(given) : TypeOf(given[i]) = a.functions[k].params[i]
<1>1. a.functions[k].params \in Seq(JoanType)
  BY VerifiedTables DEF BytecodeFunction
<1>2. ArgumentValues \subseteq JoanValue
  <2>1. TestIntegers \subseteq Int
    BY ArgumentsAssumption, IntegerAssumption
  <2>2. {"string"} \X TestStrings \subseteq {"string"} \X STRING
    BY ArgumentsAssumption
  <2>3. {"i64"} \X TestIntegers \subseteq {"i64"} \X Int
    BY <2>1
  <2> QED
    BY <2>2, <2>3 DEF ArgumentValues, JoanValue
<1>3. /\ given \in Seq(JoanValue) /\ DOMAIN given = 1..Len(a.functions[k].params)
      /\ ArgumentsFit(a.functions[k], given)
  BY <1>1, <1>2 DEF ArgumentsOf
<1> QED
  BY <1>3 DEF ArgumentsFit

\* The machine of an execution that begins fits its artifact.
LEMMA MachineStarts ==
  ASSUME NEW a, Verified(a), NEW k \in DOMAIN a.functions, NEW budget \in Nat,
         NEW given \in ArgumentsOf(a.functions[k])
  PROVE  LET m == Machine(a, k, given, budget)
         IN  /\ MachineFits(a, m) /\ Running(m)
             /\ m.frames = <<Frame(a.functions[k], k, given)>>
             /\ m.requests = <<>> /\ m.executed = 0 /\ m.remaining = budget
<1> DEFINE fr == Frame(a.functions[k], k, given)
           m == Machine(a, k, given, budget)
<1>1. AtHand(a, fr) /\ fr \in FrameRecord
  BY ArgumentsTyped, FrameAtHand
<1> HIDE DEF fr
<1>2. /\ <<fr>> \in Seq(FrameRecord) /\ <<fr>> # <<>> /\ Len(<<fr>>) = 1 /\ <<fr>>[1] = fr
      /\ <<>> \in Seq(RequestRecord) /\ UnitValue \in JoanValue
  BY <1>1 DEF JoanValue
<1>3. m = [frames |-> <<fr>>, remaining |-> budget, executed |-> 0, requests |-> <<>>,
           status |-> "running", result |-> UnitValue]
  BY DEF Machine, fr
<1>4. m \in MachineRecord
  BY <1>2, <1>3 DEF MachineRecord, Statuses
<1>5. FramesFit(a, <<fr>>)
  BY <1>1, <1>2 DEF FramesFit
<1> HIDE DEF m
<1>6. /\ m.frames = <<fr>> /\ m.requests = <<>> /\ m.executed = 0 /\ m.remaining = budget
      /\ m.status = "running"
  BY <1>3
<1>7. MachineFits(a, m) /\ Running(m)
  BY <1>4, <1>5, <1>6 DEF MachineFits, Running
<1> QED
  BY <1>6, <1>7 DEF m, fr

\* Only an accepted artifact is executed, and its executions fit it.
MachineInv ==
  /\ artifact # Nothing => Verified(artifact)
  /\ Started => /\ artifact # Nothing
                /\ \A r \in Runs : MachineFits(artifact, machine[r])

LEMMA MachineInvInit ==
  MachineInit => MachineInv
BY DEF MachineInit, MachineInv, Started

\* Each of the three steps keeps the invariant.
LEMMA MachineInvNext ==
  MachineInv /\ [MachineNext]_machineVars => MachineInv'
<1> SUFFICES ASSUME MachineInv, [MachineNext]_machineVars
             PROVE  MachineInv'
  OBVIOUS
<1>1. CASE Accept
  BY <1>1 DEF Accept, MachineInv, Verified, Started
<1>2. CASE Execute
  <2>1. artifact # Nothing /\ artifact' = artifact /\ Verified(artifact)
    BY <1>2 DEF Execute, MachineInv
  <2>2. PICK k \in DOMAIN artifact.functions, observer \in Observers, budget \in Budgets \ {0} :
          \E first, second \in ArgumentsOf(artifact.functions[k]) : Begin(k, observer, budget, first, second)
    BY <1>2 DEF Execute
  <2>3. PICK first \in ArgumentsOf(artifact.functions[k]), second \in ArgumentsOf(artifact.functions[k]) :
          machine' = [r \in Runs |-> Machine(artifact, k, <<first, second>>[r], budget)]
    BY <2>2 DEF Begin
  <2>4. budget \in Nat
    BY ArgumentsAssumption
  <2>5. MachineFits(artifact, Machine(artifact, k, first, budget))
    BY <2>1, <2>4, MachineStarts
  <2>6. MachineFits(artifact, Machine(artifact, k, second, budget))
    BY <2>1, <2>4, MachineStarts
  <2>7. \A r \in Runs : MachineFits(artifact, machine'[r])
    BY <2>3, <2>5, <2>6 DEF Runs
  <2> QED
    BY <2>1, <2>7 DEF MachineInv
<1>3. CASE Instruct
  <2>1. artifact' = artifact /\ chosen' = chosen /\ Started /\ artifact # Nothing /\ Verified(artifact)
    BY <1>3 DEF Instruct, MachineInv, Started
  <2>2. ASSUME NEW r \in Runs
        PROVE  MachineFits(artifact, machine'[r])
    <3>1. machine'[r] = Advanced(artifact, machine[r])
      BY <1>3 DEF Instruct
    <3>2. MachineFits(artifact, machine[r])
      BY <2>1 DEF MachineInv
    <3>3. CASE Running(machine[r])
      BY <2>1, <3>1, <3>2, <3>3, RunFits DEF Advanced
    <3>4. CASE ~Running(machine[r])
      BY <3>1, <3>2, <3>4 DEF Advanced
    <3> QED
      BY <3>3, <3>4
  <2> QED
    BY <2>1, <2>2 DEF MachineInv, Started
<1>4. CASE UNCHANGED machineVars
  BY <1>4 DEF machineVars, MachineInv, Started
<1> QED
  BY <1>1, <1>2, <1>3, <1>4 DEF MachineNext

LEMMA MachineInvAlways ==
  MachineSpec => []MachineInv
BY MachineInvInit, MachineInvNext, PTL DEF MachineSpec

\* Code the verifier accepts never meets a fault it is there to exclude, whatever
\* the artifact: the typings of the abstract interpreter describe every frame of
\* the machine, and no chain of calls enters a function twice (joan-bytecode
\* verify_type_stack and the call graph; joan-compiler execute).
THEOREM VerifiedNeverStuckTheorem == MachineSpec => []VerifiedNeverStuck
<1>1. MachineInv => VerifiedNeverStuck
  <2> SUFFICES ASSUME MachineInv, Started, NEW r \in Runs
               PROVE  machine[r].status \notin Excluded
    BY DEF VerifiedNeverStuck
  <2>1. machine[r].status \in Statuses
    BY DEF MachineInv, MachineFits, MachineRecord
  <2> QED
    BY <2>1, StatusKinds
<1> QED
  BY <1>1, MachineInvAlways, PTL

-----------------------------------------------------------------------------
\* Authority slots are linear.
LEMMA NextAt ==
  ASSUME NEW a, NEW m, Ready(a, m), NEW fr, fr.function = Active(m).function,
         fr.pc = Active(m).pc + 1
  PROVE  /\ TypingAt(a, fr).used = NextTyping(a, m).used
         /\ TypingAt(a, fr).ready = NextTyping(a, m).ready
         /\ TypingAt(a, fr).stack = NextTyping(a, m).stack
<1>1. Active(m).pc + 1 - 1 = Active(m).pc
  BY ReadyFacts
<1>2. TypingAt(a, fr) = After(a, Active(m).function, Active(m).pc)
  BY <1>1, ReadyFacts DEF TypingAt
<1> QED
  BY <1>2, NextFacts

\* An instruction that neither calls, asks nor returns moves its frame on, or is an
\* operator that stops the machine.
LEMMA PlainRuns ==
  ASSUME NEW a, NEW m, Ready(a, m), Current(a, m).op \notin {"call", "request", "return"}
  PROVE  \/ \E fr \in FrameRecord : /\ fr.function = Active(m).function /\ fr.pc = Active(m).pc + 1
                                    /\ RunInstruction(a, m) = Went(m, fr)
         \/ \E op \in Operations : RunInstruction(a, m) = Halt(Paid(m), op)
<1> DEFINE i == Current(a, m)
<1>1. ASSUME NEW stack \in Seq(JoanValue), RunInstruction(a, m) = Went(m, Onward(Active(m), stack))
      PROVE  \E fr \in FrameRecord : /\ fr.function = Active(m).function /\ fr.pc = Active(m).pc + 1
                                     /\ RunInstruction(a, m) = Went(m, fr)
  BY <1>1, ReadyFacts, OnwardTyped
<1>2. CASE i.op = "push"
  BY <1>1, <1>2, PushRuns
<1>3. CASE i.op = "load"
  BY <1>1, <1>3, LoadRuns
<1>4. CASE i.op = "store"
  <2> DEFINE v == Given(Active(m).stack, 1)[1]
             fr == Onward(StoredFrame(Active(m), i.slot, v), Take(Active(m).stack, 1))
  <2>1. fr \in FrameRecord /\ RunInstruction(a, m) = Went(m, fr)
        /\ fr.function = Active(m).function /\ fr.pc = Active(m).pc + 1
    BY <1>4, StoreRuns
  <2> QED
    BY <2>1
<1>5. CASE i.op = "pop"
  BY <1>1, <1>5, PopRuns
<1>6. CASE i.op \in Operations
  BY <1>1, <1>6, OperatorRuns
<1> QED
  BY <1>2, <1>3, <1>4, <1>5, <1>6, ReadyFacts, InstructionFields

\* It moves no slot.
LEMMA PlainUses ==
  ASSUME NEW a, NEW m, Ready(a, m), Current(a, m).op \notin {"request", "return"}
  PROVE  NextTyping(a, m).used = TypingAt(a, Active(m)).used
<1> DEFINE i == Current(a, m)
           t == TypingAt(a, Active(m))
           f == FunctionAt(a, m)
<1>1. t \in TypingRecord /\ t.sound /\ f \in BytecodeFunction /\ InformationTable(a, f)
  BY ReadyFacts
<1>2. CASE i.op = "push"
  <2>1. i.value \in JoanValue
    BY <1>2, ReadyFacts, InstructionFields
  <2>2. Entry(TypeOf(i.value), Public) \in EntryRecord
    BY <2>1, TypeOfTyped DEF Entry, EntryRecord, JoanLabel
  <2> QED
    BY <1>1, <1>2, <2>2, PushTypes, DepthZero, Push1Typed DEF NextTyping
<1>3. CASE i.op = "load"
  <2>1. /\ i.slot \in DOMAIN f.locals
        /\ NextTyping(a, m) = Push1(t, 0, Entry(f.locals[i.slot], LabelAt(f, i.slot)))
    BY <1>1, <1>3, LoadTypes, NextFacts DEF NextTyping
  <2>2. f.locals[i.slot] \in JoanType /\ LabelAt(f, i.slot) \in JoanLabel
    BY <1>1, <2>1, TableLabels DEF BytecodeFunction
  <2> QED
    BY <1>1, <2>1, <2>2, EntryTyped, DepthZero, Push1Typed
<1>4. CASE i.op = "store"
  <2>1. NextTyping(a, m) = Stored(t, i.slot)
    BY <1>1, <1>4, StoreTypes, NextFacts DEF NextTyping
  <2>2. Stored(t, i.slot) = [[t EXCEPT !.stack = Below(t, 1)] EXCEPT !.ready = t.ready \union {i.slot}]
    BY <1>1 DEF Stored, TypingRecord
  <2> QED
    BY <1>1, <2>1, <2>2 DEF TypingRecord
<1>5. CASE i.op = "pop"
  <2>1. NextTyping(a, m) = Kept(t, 1)
    BY <1>1, <1>5, PopTypes, NextFacts DEF NextTyping
  <2> QED
    BY <1>1, <2>1 DEF Kept, TypingRecord
<1>6. CASE i.op = "call"
  BY <1>6, CallFacts
<1>7. CASE i.op \in Operations
  BY <1>7, OperatorTypes
<1> QED
  BY <1>2, <1>3, <1>4, <1>5, <1>6, <1>7, ReadyFacts, InstructionFields

\* The frames of a function that have not moved one of its slots yet.
Owes(a, fr, k, s) == fr.function = k /\ s \notin TypingAt(a, fr).used
PendingIn(a, frames, k, s) ==
  {d \in 1..Len(frames) : Owes(a, frames[d], k, s)}
Pending(a, m, k, s) == Cardinality(PendingIn(a, m.frames, k, s))

LEMMA PendingFinite ==
  ASSUME NEW a, NEW frames, Len(frames) \in Nat, NEW k, NEW s
  PROVE  /\ IsFiniteSet(PendingIn(a, frames, k, s))
         /\ Cardinality(PendingIn(a, frames, k, s)) \in Nat
<1>1. PendingIn(a, frames, k, s) \in SUBSET (1..Len(frames)) /\ IsFiniteSet(1..Len(frames))
  BY FS_Interval DEF PendingIn
<1> QED
  BY <1>1, FS_Subset, FS_CardinalityType

\* The active frame moves on, and is pending as before.
LEMMA PendingKept ==
  ASSUME NEW a, NEW m \in MachineRecord, m.frames # <<>>, NEW fr \in FrameRecord,
         fr.function = Active(m).function, NEW k, NEW s,
         Owes(a, fr, k, s) <=> Owes(a, Active(m), k, s)
  PROVE  PendingIn(a, [m.frames EXCEPT ![Len(m.frames)] = fr], k, s) = PendingIn(a, m.frames, k, s)
<1> DEFINE n == Len(m.frames)
           frames == [m.frames EXCEPT ![n] = fr]
<1>1. n \in Nat \ {0} /\ Active(m) = m.frames[n] /\ m.frames \in Seq(FrameRecord)
  BY ActiveTyped DEF MachineRecord
<1>2. /\ Len(frames) = n /\ frames[n] = fr
      /\ \A d \in 1..n : d # n => frames[d] = m.frames[d]
  BY <1>1
<1> HIDE DEF frames
<1>3. ASSUME NEW d \in 1..n
      PROVE  Owes(a, frames[d], k, s) <=> Owes(a, m.frames[d], k, s)
  <2>1. CASE d = n
    BY <2>1, <1>1, <1>2
  <2>2. CASE d # n
    BY <2>2, <1>2
  <2> QED
    BY <2>1, <2>2
<1> QED
  BY <1>2, <1>3 DEF PendingIn, frames

\* The active frame moves the slot.
LEMMA PendingMoved ==
  ASSUME NEW a, NEW m \in MachineRecord, m.frames # <<>>, NEW fr \in FrameRecord,
         fr.function = Active(m).function, NEW s,
         s \in TypingAt(a, fr).used, s \notin TypingAt(a, Active(m)).used
  PROVE  Cardinality(PendingIn(a, [m.frames EXCEPT ![Len(m.frames)] = fr], fr.function, s)) + 1 =
           Pending(a, m, fr.function, s)
<1> DEFINE n == Len(m.frames)
           k == fr.function
           frames == [m.frames EXCEPT ![n] = fr]
           before == PendingIn(a, m.frames, k, s)
           after == PendingIn(a, frames, k, s)
<1>1. n \in Nat \ {0} /\ Active(m) = m.frames[n] /\ m.frames \in Seq(FrameRecord)
  BY ActiveTyped DEF MachineRecord
<1>2. /\ Len(frames) = n /\ frames[n] = fr
      /\ \A d \in 1..n : d # n => frames[d] = m.frames[d]
  BY <1>1
<1> HIDE DEF frames
<1>3. n \in before /\ n \notin after
  BY <1>1, <1>2 DEF PendingIn, Owes
<1>4. after = before \ {n}
  BY <1>1, <1>2, <1>3 DEF PendingIn, Owes
<1>5. IsFiniteSet(before) /\ Cardinality(before) \in Nat
  BY <1>1, PendingFinite
<1> HIDE DEF before, after
<1>6. Cardinality(after) = Cardinality(before) - 1
  BY <1>3, <1>4, <1>5, FS_RemoveElement
<1> QED
  BY <1>5, <1>6 DEF Pending, frames, before, after

\* A frame is opened; one that is done is closed.
LEMMA PendingOpened ==
  ASSUME NEW a, NEW frames \in Seq(FrameRecord), NEW opened \in FrameRecord, NEW k, NEW s,
         s \notin TypingAt(a, opened).used
  PROVE  Cardinality(PendingIn(a, Append(frames, opened), k, s)) =
           Cardinality(PendingIn(a, frames, k, s)) + IF opened.function = k THEN 1 ELSE 0
<1> DEFINE n == Len(frames)
           next == Append(frames, opened)
           before == PendingIn(a, frames, k, s)
           after == PendingIn(a, next, k, s)
<1>1. /\ n \in Nat /\ Len(next) = n + 1 /\ next[n + 1] = opened
      /\ \A d \in 1..n : next[d] = frames[d]
  OBVIOUS
<1> HIDE DEF next
<1>2. \A d : d \in 1..(n + 1) <=> d \in 1..n \/ d = n + 1
  BY <1>1
<1>3. IsFiniteSet(before) /\ Cardinality(before) \in Nat /\ n + 1 \notin before
  <2>1. n + 1 \notin before
    BY <1>1 DEF PendingIn, Owes
  <2>2. IsFiniteSet(before) /\ Cardinality(before) \in Nat
    BY <1>1, PendingFinite
  <2> QED
    BY <2>1, <2>2
<1>4. CASE opened.function = k
  <2>1. after = before \union {n + 1}
    BY <1>1, <1>2, <1>4 DEF PendingIn, Owes
  <2> QED
    BY <1>3, <1>4, <2>1, FS_AddElement DEF next
<1>5. CASE opened.function # k
  <2>1. after = before
    BY <1>1, <1>2, <1>5 DEF PendingIn, Owes
  <2> QED
    BY <1>3, <1>5, <2>1 DEF next
<1> QED
  BY <1>4, <1>5

LEMMA PendingClosed ==
  ASSUME NEW a, NEW m, Ready(a, m), Current(a, m).op = "return", Len(m.frames) # 1,
         NEW k, NEW s, Active(m).function = k => s \in TypingAt(a, Active(m)).used
  PROVE  PendingIn(a, Remaining(m), k, s) = PendingIn(a, m.frames, k, s)
<1> DEFINE n == Len(m.frames) - 1
           frames == Remaining(m)
<1>1. /\ n \in Nat \ {0} /\ Len(frames) = n /\ frames[n] = Resumed(m)
      /\ \A d \in 1..(n - 1) : frames[d] = m.frames[d]
  BY ReturnedFits
<1>2. /\ Resumed(m).function = m.frames[n].function
      /\ TypingAt(a, Resumed(m)) = TypingAt(a, m.frames[n])
  BY ResumedFits
<1>3. Active(m) = m.frames[n + 1] /\ Len(m.frames) = n + 1
  BY ReadyFacts, ActiveTyped
<1> HIDE DEF n, frames
<1>4. \A d : d \in 1..(n + 1) <=> d \in 1..(n - 1) \/ d = n \/ d = n + 1
  BY <1>1
<1>5. \A d : d \in 1..n <=> d \in 1..(n - 1) \/ d = n
  BY <1>1
<1>6. n + 1 \notin PendingIn(a, m.frames, k, s)
  BY <1>3 DEF PendingIn, Owes
<1>7. PendingIn(a, frames, k, s) \subseteq PendingIn(a, m.frames, k, s)
  BY <1>1, <1>2, <1>3, <1>4, <1>5 DEF PendingIn, Owes
<1>8. PendingIn(a, m.frames, k, s) \subseteq PendingIn(a, frames, k, s)
  BY <1>1, <1>2, <1>3, <1>4, <1>5, <1>6 DEF PendingIn, Owes
<1> QED
  BY <1>7, <1>8 DEF frames

\* What has moved is finitely many requests; one more adds one to its own slot only.
LEMMA MovedFinite ==
  ASSUME NEW m, m.requests \in Seq(RequestRecord), NEW name, NEW s
  PROVE  Moved(m, name, s) \in Nat
<1> DEFINE S == {i \in DOMAIN m.requests : m.requests[i].function = name /\ m.requests[i].slot = <<s>>}
<1>1. S \in SUBSET (1..Len(m.requests)) /\ IsFiniteSet(1..Len(m.requests))
  BY FS_Interval
<1>2. Cardinality(S) \in Nat
  <2> HIDE DEF S
  <2> QED
    BY <1>1, FS_Subset, FS_CardinalityType
<1> QED
  BY <1>2 DEF Moved

LEMMA MovedAppend ==
  ASSUME NEW m, m.requests \in Seq(RequestRecord), NEW q \in RequestRecord,
         NEW next, next.requests = Append(m.requests, q), NEW name, NEW s
  PROVE  Moved(next, name, s) =
           Moved(m, name, s) + IF q.function = name /\ q.slot = <<s>> THEN 1 ELSE 0
<1> DEFINE n == Len(m.requests)
           before == {i \in DOMAIN m.requests : m.requests[i].function = name /\ m.requests[i].slot = <<s>>}
           after == {i \in DOMAIN next.requests :
                       next.requests[i].function = name /\ next.requests[i].slot = <<s>>}
<1>1. /\ n \in Nat /\ DOMAIN m.requests = 1..n /\ DOMAIN next.requests = 1..(n + 1)
      /\ next.requests[n + 1] = q
      /\ \A i \in 1..n : next.requests[i] = m.requests[i]
  OBVIOUS
<1>2. \A i : i \in 1..(n + 1) <=> i \in 1..n \/ i = n + 1
  BY <1>1
<1>3. n + 1 \notin before
  BY <1>1
<1>4. IsFiniteSet(before)
  <2>1. before \in SUBSET (1..n) /\ IsFiniteSet(1..n)
    BY <1>1, FS_Interval
  <2> HIDE DEF before
  <2> QED
    BY <2>1, FS_Subset
<1>5. Cardinality(before) \in Nat
  <2> HIDE DEF before
  <2> QED
    BY <1>4, FS_CardinalityType
<1>6. Moved(m, name, s) = Cardinality(before) /\ Moved(next, name, s) = Cardinality(after)
  BY DEF Moved
<1>7. CASE q.function = name /\ q.slot = <<s>>
  <2>1. after = before \union {n + 1}
    BY <1>1, <1>2, <1>7
  <2>2. Cardinality(after) = Cardinality(before) + 1
    <3> HIDE DEF before, after
    <3> QED
      BY <1>3, <1>4, <2>1, FS_AddElement
  <2> HIDE DEF before, after
  <2> QED
    BY <1>7, <1>6, <2>2
<1>8. CASE ~(q.function = name /\ q.slot = <<s>>)
  <2>1. after = before
    BY <1>1, <1>2, <1>8
  <2> HIDE DEF before, after
  <2> QED
    BY <1>5, <1>8, <1>6, <2>1
<1> QED
  BY <1>7, <1>8

LEMMA MovedKept ==
  ASSUME NEW m, NEW next, next.requests = m.requests, NEW name, NEW s
  PROVE  Moved(next, name, s) = Moved(m, name, s)
BY DEF Moved

\* Each entry of a function has moved the slot or is still to move it.
SlotBalance(a, m, entered, k, s) ==
  LET moved == Moved(m, a.functions[k].name, s)
  IN  /\ Running(m) => moved + Pending(a, m, k, s) = entered[k]
      /\ moved <= entered[k]
      /\ m.status = "completed" => moved = entered[k]

\* A request of a linear module moves one slot, that has not been moved before.
LEMMA SlotRequested ==
  ASSUME NEW a, NEW m, Ready(a, m), Current(a, m).op = "request", IsLinear(a.ast)
  PROVE  \E x : /\ Current(a, m).slot = <<x>> /\ x \notin TypingAt(a, Active(m)).used
                /\ NextTyping(a, m).used = TypingAt(a, Active(m)).used \union {x}
<1> DEFINE i == Current(a, m)
           x == i.slot[1]
<1>1. /\ i.slot \in Optional(Nat) /\ SlotGranted(a, FunctionAt(a, m), TypingAt(a, Active(m)), i)
      /\ NextTyping(a, m).used = TypingAt(a, Active(m)).used \union ToSet(i.slot)
  BY RequestFacts
<1>2. i.slot # Absent /\ x \notin TypingAt(a, Active(m)).used
  BY <1>1 DEF SlotGranted
<1>3. i.slot = <<x>>
  <2>1. i.slot \in Seq(Nat) /\ Len(i.slot) <= 1
    BY <1>1 DEF Optional
  <2>2. i.slot # <<>>
    BY <1>2 DEF Absent
  <2>3. Len(i.slot) # 0
    BY <2>1, <2>2, EmptySeq
  <2>4. Len(i.slot) = 1
    <3>1. Len(i.slot) \in Nat /\ Len(i.slot) <= 1
      BY <2>1, LenProperties
    <3>2. \A n \in Nat : n <= 1 /\ n # 0 => n = 1
      OBVIOUS
    <3> HIDE DEF i
    <3> QED
      BY <2>3, <3>1, <3>2
  <2> QED
    BY <2>1, <2>4
<1>4. ToSet(i.slot) = {x}
  BY <1>3 DEF ToSet
<1> QED
  BY <1>1, <1>2, <1>3, <1>4

\* A function returns only when it has moved each of its slots.
LEMMA SlotsUsedAtReturn ==
  ASSUME NEW a, NEW m, Ready(a, m), Current(a, m).op = "return", IsLinear(a.ast),
         NEW slot \in ToSet(SlotsOf(FunctionAt(a, m)))
  PROVE  slot.name \in TypingAt(a, Active(m)).used
<1> DEFINE k == Active(m).function
<1>1. FunctionSound(a, a.functions[k]) /\ FunctionAt(a, m) = a.functions[k]
  BY ReadyFacts, VerifiedTables
<1>2. TypeCode(a, a.functions[k]).used = {x.name : x \in ToSet(SlotsOf(a.functions[k]))}
  BY <1>1 DEF FunctionSound
<1>3. TypeCode(a, a.functions[k]) = After(a, k, Active(m).pc)
  BY ReturnFacts DEF TypeCode, After, CodeOf
<1>4. After(a, k, Active(m).pc).used = TypingAt(a, Active(m)).used
  BY NextFacts, ReturnFacts
<1> QED
  BY <1>1, <1>2, <1>3, <1>4

\* A request names the one function of that name.
LEMMA NamesAreDistinct ==
  ASSUME NEW a, Verified(a), NEW i \in DOMAIN a.functions, NEW k \in DOMAIN a.functions,
         a.functions[i].name = a.functions[k].name
  PROVE  i = k
BY DEF Verified, StructureSound

LEMMA NotEntered ==
  ASSUME NEW entered, NEW m, NEW next, ~(Len(next.frames) > Len(m.frames))
  PROVE  Entries(entered, m, next) = entered
BY DEF Entries

\* The balance survives a step that stops the machine with a fault,
LEMMA BalanceStops ==
  ASSUME NEW a, NEW m, NEW next, NEW entered, NEW k, NEW s, SlotBalance(a, m, entered, k, s),
         next.requests = m.requests, next.status \notin {"running", "completed"}
  PROVE  SlotBalance(a, next, entered, k, s)
<1>1. Moved(next, a.functions[k].name, s) = Moved(m, a.functions[k].name, s)
  BY MovedKept
<1> QED
  BY <1>1 DEF SlotBalance, Running

\* and one that moves no slot and leaves as many entries pending.
LEMMA BalanceStands ==
  ASSUME NEW a, NEW m, Running(m), NEW next, Running(next), NEW entered, NEW k, NEW s,
         SlotBalance(a, m, entered, k, s),
         next.requests = m.requests, Pending(a, next, k, s) = Pending(a, m, k, s)
  PROVE  SlotBalance(a, next, entered, k, s)
<1>1. Moved(next, a.functions[k].name, s) = Moved(m, a.functions[k].name, s)
  BY MovedKept
<1> QED
  BY <1>1 DEF SlotBalance, Running

\* One lemma per kind of instruction.
LEMMA BalancePlain ==
  ASSUME NEW a, NEW m, Ready(a, m), Running(m),
         Current(a, m).op \notin {"call", "request", "return"},
         NEW entered, NEW k, NEW s, SlotBalance(a, m, entered, k, s)
  PROVE  SlotBalance(a, RunInstruction(a, m), Entries(entered, m, RunInstruction(a, m)), k, s)
<1> DEFINE next == RunInstruction(a, m)
<1>1. m \in MachineRecord /\ m.frames # <<>> /\ m.remaining # 0 /\ Len(m.frames) \in Nat \ {0}
  BY ReadyFacts, ActiveTyped DEF Ready
<1>2. CASE \E fr \in FrameRecord : /\ fr.function = Active(m).function /\ fr.pc = Active(m).pc + 1
                                   /\ next = Went(m, fr)
  <2>1. PICK fr \in FrameRecord : /\ fr.function = Active(m).function /\ fr.pc = Active(m).pc + 1
                                  /\ next = Went(m, fr)
    BY <1>2
  <2>2. TypingAt(a, fr).used = TypingAt(a, Active(m)).used
    BY <2>1, NextAt, PlainUses
  <2>3. /\ next.frames = [m.frames EXCEPT ![Len(m.frames)] = fr]
        /\ next.requests = m.requests /\ next.status = m.status
    BY <2>1, WentFits
  <2>4. PendingIn(a, [m.frames EXCEPT ![Len(m.frames)] = fr], k, s) = PendingIn(a, m.frames, k, s)
    BY <1>1, <2>1, <2>2, PendingKept DEF Owes
  <2>5. Pending(a, next, k, s) = Pending(a, m, k, s)
    BY <2>3, <2>4 DEF Pending
  <2>6. Len(next.frames) = Len(m.frames)
    BY <1>1, <2>3 DEF MachineRecord
  <2>7. Entries(entered, m, next) = entered
    BY <1>1, <2>6, NotEntered
  <2>8. Running(next)
    BY <2>3 DEF Running
  <2>9. SlotBalance(a, next, entered, k, s)
    BY <2>3, <2>5, <2>8, BalanceStands
  <2> QED
    BY <2>7, <2>9
<1>3. CASE \E op \in Operations : next = Halt(Paid(m), op)
  <2>1. PICK op \in Operations : next = Halt(Paid(m), op)
    BY <1>3
  <2>2. /\ next.frames = <<>> /\ next.status = op /\ next.requests = m.requests
        /\ op \notin {"running", "completed"}
    BY <1>1, <2>1, PaidTyped, HaltTyped, OperationKinds
  <2>3. Entries(entered, m, next) = entered
    BY <1>1, <2>2, NotEntered
  <2>4. SlotBalance(a, next, entered, k, s)
    BY <2>2, BalanceStops
  <2> QED
    BY <2>3, <2>4
<1> QED
  BY <1>2, <1>3, PlainRuns

LEMMA CallStep ==
  ASSUME NEW a, NEW m, Ready(a, m), Current(a, m).op = "call"
  PROVE  /\ RunInstruction(a, m).frames =
              Append([m.frames EXCEPT ![Len(m.frames)] = Taking(a, m)], Opened(a, m))
         /\ RunInstruction(a, m).requests = m.requests
         /\ RunInstruction(a, m).status = m.status
         /\ RunInstruction(a, m).executed = m.executed + 1
         /\ RunInstruction(a, m).remaining = m.remaining - 1
<1>1. /\ Taking(a, m) \in FrameRecord /\ Taking(a, m).function = Active(m).function
      /\ Awaits(a, Taking(a, m), Current(a, m).callee)
      /\ RunInstruction(a, m) = Opening(m, Taking(a, m), Opened(a, m))
  BY CallFitsDepth, CallRuns
<1>2. /\ Opened(a, m) \in FrameRecord /\ Opened(a, m).function = Current(a, m).callee
      /\ AtHand(a, Opened(a, m))
  BY CallOpens
<1> QED
  BY <1>1, <1>2, OpenedFits

LEMMA BalanceCall ==
  ASSUME NEW a, NEW m, Ready(a, m), Running(m), Current(a, m).op = "call",
         NEW entered \in [DOMAIN a.functions -> Nat], NEW k \in DOMAIN a.functions, NEW s,
         SlotBalance(a, m, entered, k, s)
  PROVE  SlotBalance(a, RunInstruction(a, m), Entries(entered, m, RunInstruction(a, m)), k, s)
<1> DEFINE next == RunInstruction(a, m)
           fr == Taking(a, m)
           callers == [m.frames EXCEPT ![Len(m.frames)] = fr]
           callee == Current(a, m).callee
           moved == Moved(m, a.functions[k].name, s)
           more == IF callee = k THEN 1 ELSE 0
<1>1. m \in MachineRecord /\ m.frames # <<>> /\ Len(m.frames) \in Nat \ {0}
      /\ m.frames \in Seq(FrameRecord) /\ m.requests \in Seq(RequestRecord)
  BY ReadyFacts, ActiveTyped DEF MachineRecord
<1>2. /\ fr \in FrameRecord /\ fr.function = Active(m).function
  BY CallFitsDepth, CallRuns
<1>3. /\ Opened(a, m) \in FrameRecord /\ Opened(a, m).function = callee
      /\ AtHand(a, Opened(a, m)) /\ TypingAt(a, Opened(a, m)) = Typing(a.functions[callee])
      /\ callee \in DOMAIN a.functions
  BY CallOpens, CallFacts
<1>4. /\ next.frames = Append(callers, Opened(a, m))
      /\ next.requests = m.requests /\ next.status = m.status
  BY CallStep
<1>5. callers \in Seq(FrameRecord) /\ Len(callers) = Len(m.frames)
  BY <1>1, <1>2
<1>6. PendingIn(a, callers, k, s) = PendingIn(a, m.frames, k, s)
  <2>1. fr.pc = Active(m).pc + 1
    BY ReadyFacts, CallFacts, OnwardTyped DEF Taking
  <2>2. TypingAt(a, fr).used = TypingAt(a, Active(m)).used
    BY <1>2, <2>1, NextAt, CallFacts
  <2> QED
    BY <1>1, <1>2, <2>2, PendingKept, SMTT(20) DEF Owes
<1>7. s \notin TypingAt(a, Opened(a, m)).used
  BY <1>3 DEF Typing
<1>8. Pending(a, next, k, s) = Pending(a, m, k, s) + more
  <2> HIDE DEF callers, callee
  <2>1. Cardinality(PendingIn(a, Append(callers, Opened(a, m)), k, s)) =
          Cardinality(PendingIn(a, callers, k, s)) + IF Opened(a, m).function = k THEN 1 ELSE 0
    BY <1>3, <1>5, <1>7, PendingOpened
  <2> QED
    BY <1>3, <1>4, <1>6, <2>1 DEF Pending
<1>9. Entries(entered, m, next) = [entered EXCEPT ![callee] = @ + 1]
  <2> HIDE DEF callers
  <2>1. Len(next.frames) = Len(m.frames) + 1 /\ next.frames[Len(m.frames) + 1] = Opened(a, m)
    BY <1>3, <1>4, <1>5
  <2>2. Len(next.frames) > Len(m.frames) /\ Active(next).function = callee
    BY <1>1, <1>3, <2>1 DEF Active
  <2> HIDE DEF next, callee
  <2> QED
    BY <2>2 DEF Entries
<1>10. Entries(entered, m, next)[k] = entered[k] + more
  <2> HIDE DEF next, callee
  <2> QED
    BY <1>9
<1>11. Moved(next, a.functions[k].name, s) = moved /\ moved \in Nat
  BY <1>1, <1>4, MovedKept, MovedFinite
<1>12. Pending(a, m, k, s) \in Nat /\ entered[k] \in Nat /\ more \in {0, 1}
  BY <1>1, PendingFinite DEF Pending
<1>13. moved + Pending(a, m, k, s) = entered[k] /\ moved <= entered[k]
  BY DEF SlotBalance
<1>14. moved + (Pending(a, m, k, s) + more) = entered[k] + more /\ moved <= entered[k] + more
  <2> HIDE DEF moved, more
  <2> QED
    BY <1>11, <1>12, <1>13
<1>15. Running(next) /\ next.status # "completed"
  BY <1>4 DEF Running
<1> HIDE DEF next, moved, more
<1> QED
  BY <1>8, <1>10, <1>11, <1>14, <1>15 DEF SlotBalance, next, moved

LEMMA RecordedFields ==
  ASSUME NEW a, NEW m, Ready(a, m), Current(a, m).op = "request"
  PROVE  LET q == Recorded(a, m, Current(a, m))
         IN  /\ q \in RequestRecord /\ q.function = FunctionAt(a, m).name
             /\ q.slot = Current(a, m).slot /\ q.effect = Current(a, m).effect
             /\ q.label = Current(a, m).label /\ q.index = Len(m.requests)
             /\ q.arguments = Given(Active(m).stack, Current(a, m).count)
BY RequestRuns DEF Recorded, FunctionAt

LEMMA RequestStep ==
  ASSUME NEW a, NEW m, Ready(a, m), Current(a, m).op = "request"
  PROVE  /\ RunInstruction(a, m).frames = [m.frames EXCEPT ![Len(m.frames)] = Taking(a, m)]
         /\ RunInstruction(a, m).requests = Append(m.requests, Recorded(a, m, Current(a, m)))
         /\ RunInstruction(a, m).status = m.status
         /\ RunInstruction(a, m).executed = m.executed + 1
         /\ RunInstruction(a, m).remaining = m.remaining - 1
<1> DEFINE q == Recorded(a, m, Current(a, m))
<1>1. /\ Taking(a, m) \in FrameRecord /\ Taking(a, m).function = Active(m).function
      /\ q \in RequestRecord
      /\ RunInstruction(a, m) = [Went(m, Taking(a, m)) EXCEPT !.requests = Append(@, q)]
  BY RequestRuns
<1>2. /\ Went(m, Taking(a, m)) \in MachineRecord
      /\ Went(m, Taking(a, m)).frames = [m.frames EXCEPT ![Len(m.frames)] = Taking(a, m)]
      /\ Went(m, Taking(a, m)).requests = m.requests /\ Went(m, Taking(a, m)).status = m.status
      /\ Went(m, Taking(a, m)).executed = m.executed + 1
      /\ Went(m, Taking(a, m)).remaining = m.remaining - 1
  BY <1>1, WentFits
<1> HIDE DEF q
<1>3. /\ RunInstruction(a, m).frames = Went(m, Taking(a, m)).frames
      /\ RunInstruction(a, m).requests = Append(m.requests, q)
      /\ RunInstruction(a, m).status = Went(m, Taking(a, m)).status
      /\ RunInstruction(a, m).executed = Went(m, Taking(a, m)).executed
      /\ RunInstruction(a, m).remaining = Went(m, Taking(a, m)).remaining
  BY <1>1, <1>2 DEF MachineRecord
<1> QED
  BY <1>2, <1>3 DEF q

LEMMA BalanceRequest ==
  ASSUME NEW a, NEW m, Ready(a, m), Running(m), Current(a, m).op = "request", IsLinear(a.ast),
         NEW entered \in [DOMAIN a.functions -> Nat], NEW k \in DOMAIN a.functions, NEW s,
         SlotBalance(a, m, entered, k, s)
  PROVE  SlotBalance(a, RunInstruction(a, m), Entries(entered, m, RunInstruction(a, m)), k, s)
<1> DEFINE next == RunInstruction(a, m)
           q == Recorded(a, m, Current(a, m))
           fr == Taking(a, m)
           here == Active(m).function
           name == a.functions[k].name
           moved == Moved(m, name, s)
           one == q.function = name /\ q.slot = <<s>>
<1>1. m \in MachineRecord /\ m.frames # <<>> /\ Len(m.frames) \in Nat \ {0}
      /\ m.frames \in Seq(FrameRecord) /\ m.requests \in Seq(RequestRecord)
      /\ here \in DOMAIN a.functions /\ FunctionAt(a, m) = a.functions[here] /\ Verified(a)
  BY ReadyFacts, ActiveTyped DEF MachineRecord
<1>2. /\ next.frames = [m.frames EXCEPT ![Len(m.frames)] = fr]
      /\ next.requests = Append(m.requests, q) /\ next.status = m.status
      /\ q \in RequestRecord /\ q.function = FunctionAt(a, m).name
      /\ q.slot = Current(a, m).slot
  BY RequestStep, RecordedFields, ZenonT(40)
<1>3. fr \in FrameRecord /\ fr.function = here
  BY RequestRuns
<1>4. PICK x : /\ Current(a, m).slot = <<x>> /\ x \notin TypingAt(a, Active(m)).used
               /\ NextTyping(a, m).used = TypingAt(a, Active(m)).used \union {x}
  BY SlotRequested
<1>5. TypingAt(a, fr).used = TypingAt(a, Active(m)).used \union {x}
  <2>1. fr.pc = Active(m).pc + 1
    BY ReadyFacts, RequestFacts, OnwardTyped DEF Taking
  <2> QED
    BY <1>3, <1>4, <2>1, NextAt
<1>6. one <=> here = k /\ x = s
  <2>1. q.function = name <=> here = k
    BY <1>1, <1>2, NamesAreDistinct
  <2>2. q.slot = <<s>> <=> x = s
    BY <1>2, <1>4
  <2> QED
    BY <2>1, <2>2
<1>7. Moved(next, name, s) = moved + IF one THEN 1 ELSE 0
  <2> HIDE DEF next, q, name
  <2>1. Moved(next, name, s) = Moved(m, name, s) + IF q.function = name /\ q.slot = <<s>> THEN 1 ELSE 0
    BY <1>1, <1>2, MovedAppend
  <2> QED
    BY <2>1
<1>8. Pending(a, next, k, s) = Pending(a, m, k, s) - (IF one THEN 1 ELSE 0)
  <2>1. Pending(a, next, k, s) \in Nat /\ Pending(a, m, k, s) \in Nat
    BY <1>1, <1>2, <1>3, PendingFinite DEF Pending
  <2>2. CASE one
    <3>1. Cardinality(PendingIn(a, [m.frames EXCEPT ![Len(m.frames)] = fr], fr.function, s)) + 1 =
            Pending(a, m, fr.function, s)
      BY <1>1, <1>3, <1>4, <1>5, <1>6, <2>2, PendingMoved
    <3>2. Pending(a, next, k, s) + 1 = Pending(a, m, k, s)
      BY <1>2, <1>3, <1>6, <2>2, <3>1 DEF Pending
    <3> HIDE DEF one
    <3> QED
      BY <2>1, <2>2, <3>2
  <2>3. CASE ~one
    <3>1. Owes(a, fr, k, s) <=> Owes(a, Active(m), k, s)
      BY <1>3, <1>5, <1>6, <2>3 DEF Owes
    <3>2. PendingIn(a, [m.frames EXCEPT ![Len(m.frames)] = fr], k, s) = PendingIn(a, m.frames, k, s)
      <4>1. m \in MachineRecord /\ m.frames # <<>>
        BY <1>1
      <4>2. fr \in FrameRecord /\ fr.function = Active(m).function
        BY <1>3
      <4> HIDE DEF fr
      <4> QED
        BY <3>1, <4>1, <4>2, PendingKept
    <3>3. Pending(a, next, k, s) = Pending(a, m, k, s)
      BY <1>2, <3>2 DEF Pending
    <3> HIDE DEF one
    <3> QED
      BY <2>1, <2>3, <3>3
  <2> QED
    BY <2>2, <2>3
<1>9. moved \in Nat /\ entered[k] \in Nat /\ Pending(a, m, k, s) \in Nat /\ Pending(a, next, k, s) \in Nat
  <2>1. Len(next.frames) \in Nat
    BY <1>1, <1>2, <1>3
  <2> QED
    BY <1>1, <2>1, MovedFinite, PendingFinite DEF Pending
<1>10. moved + Pending(a, m, k, s) = entered[k]
  BY DEF SlotBalance
<1>11. /\ Moved(next, name, s) + Pending(a, next, k, s) = entered[k]
       /\ Moved(next, name, s) <= entered[k]
  <2> HIDE DEF moved, one, next
  <2>1. CASE one
    BY <1>7, <1>8, <1>9, <1>10, <2>1
  <2>2. CASE ~one
    BY <1>7, <1>8, <1>9, <1>10, <2>2
  <2> QED
    BY <2>1, <2>2
<1>12. Entries(entered, m, next) = entered
  <2>1. Len(next.frames) = Len(m.frames)
    BY <1>1, <1>2
  <2> QED
    BY <1>1, <2>1, NotEntered
<1>13. Running(next) /\ next.status # "completed"
  BY <1>2 DEF Running
<1> HIDE DEF next
<1> QED
  BY <1>11, <1>12, <1>13 DEF SlotBalance, next

\* The frame that is left owes nothing.
LEMMA BalanceReturn ==
  ASSUME NEW a, NEW m, Ready(a, m), Running(m), Current(a, m).op = "return", IsLinear(a.ast),
         NEW entered, NEW k \in DOMAIN a.functions,
         NEW slot \in ToSet(SlotsOf(a.functions[k])), SlotBalance(a, m, entered, k, slot.name),
         entered[k] \in Nat
  PROVE  SlotBalance(a, RunInstruction(a, m), Entries(entered, m, RunInstruction(a, m)), k, slot.name)
<1> DEFINE next == RunInstruction(a, m)
           s == slot.name
           moved == Moved(m, a.functions[k].name, s)
<1>1. /\ m \in MachineRecord /\ m.frames # <<>> /\ Len(m.frames) \in Nat \ {0} /\ m.remaining # 0
      /\ Active(m) = m.frames[Len(m.frames)] /\ m.requests \in Seq(RequestRecord)
  BY ReadyFacts, ActiveTyped DEF MachineRecord, Ready
<1>2. Active(m).function = k => s \in TypingAt(a, Active(m)).used
  BY SlotsUsedAtReturn DEF FunctionAt
<1>3. CASE Len(m.frames) # 1
  <2>1. next = WentBack(m)
    BY <1>3, ReturnRuns
  <2>2. /\ Len(Remaining(m)) = Len(m.frames) - 1 /\ WentBack(m).frames = Remaining(m)
        /\ WentBack(m).requests = m.requests /\ WentBack(m).status = m.status
    BY <1>3, ReturnedFits
  <2>3. Pending(a, next, k, s) = Pending(a, m, k, s)
    BY <1>2, <1>3, <2>1, <2>2, PendingClosed DEF Pending
  <2>4. Entries(entered, m, next) = entered
    BY <1>1, <2>1, <2>2, NotEntered
  <2>5. SlotBalance(a, next, entered, k, s)
    BY <2>1, <2>2, <2>3, BalanceStands DEF Running
  <2> QED
    BY <2>4, <2>5
<1>4. CASE Len(m.frames) = 1
  <2>1. next = [Halt(Paid(m), "completed") EXCEPT !.result = Returned(m)]
    BY <1>4, ReturnRuns
  <2>2. /\ Halt(Paid(m), "completed") \in MachineRecord
        /\ Halt(Paid(m), "completed").frames = <<>>
        /\ Halt(Paid(m), "completed").status = "completed"
        /\ Halt(Paid(m), "completed").requests = m.requests
    BY <1>1, PaidTyped, HaltTyped, HaltKinds
  <2>3. next.frames = <<>> /\ next.status = "completed" /\ next.requests = m.requests
    BY <2>1, <2>2 DEF MachineRecord
  <2>4. Entries(entered, m, next) = entered
    BY <1>1, <2>3, NotEntered
  <2>5. PendingIn(a, m.frames, k, s) = {}
    BY <1>1, <1>2, <1>4 DEF PendingIn, Owes
  <2>6. Pending(a, m, k, s) = 0
    BY <2>5, FS_EmptySet DEF Pending
  <2>7. moved = entered[k] /\ moved \in Nat
    BY <1>1, <2>6, MovedFinite DEF SlotBalance
  <2>8. Moved(next, a.functions[k].name, s) = moved
    BY <2>3, MovedKept
  <2>9. SlotBalance(a, next, entered, k, s)
    <3> HIDE DEF moved, next
    <3> QED
      BY <2>3, <2>7, <2>8 DEF SlotBalance, Running
  <2> QED
    BY <2>4, <2>9
<1> QED
  BY <1>3, <1>4

\* No instruction disturbs the balance.
LEMMA BalanceStep ==
  ASSUME NEW a, Verified(a), IsLinear(a.ast), NEW m, MachineFits(a, m), Running(m),
         NEW entered \in [DOMAIN a.functions -> Nat], NEW k \in DOMAIN a.functions,
         NEW slot \in ToSet(SlotsOf(a.functions[k])), SlotBalance(a, m, entered, k, slot.name)
  PROVE  SlotBalance(a, RunInstruction(a, m), Entries(entered, m, RunInstruction(a, m)), k, slot.name)
<1> DEFINE next == RunInstruction(a, m)
<1>1. m \in MachineRecord /\ FramesFit(a, m.frames)
  BY DEF MachineFits
<1>2. entered[k] \in Nat
  OBVIOUS
<1>3. CASE m.remaining = 0
  <2>1. next = Halt(m, "budget")
    BY <1>1, <1>3, BudgetStops
  <2>2. next.frames = <<>> /\ next.status = "budget" /\ next.requests = m.requests
    BY <1>1, <2>1, HaltTyped, HaltKinds
  <2>3. ~(Len(next.frames) > Len(m.frames))
    BY <1>1, <2>2 DEF MachineRecord
  <2>4. Entries(entered, m, next) = entered /\ SlotBalance(a, next, entered, k, slot.name)
    BY <2>2, <2>3, NotEntered, BalanceStops
  <2> QED
    BY <2>4
<1>4. CASE m.remaining # 0
  <2>1. Ready(a, m)
    BY <1>1, <1>4 DEF Ready
  <2> QED
    BY <1>2, <2>1, BalancePlain, BalanceCall, BalanceRequest, BalanceReturn
<1> QED
  BY <1>3, <1>4

\* Every frame and every request stays within the effects of the function that
\* was executed, for a caller declares the effects of its callee.
EffectsFit(a, m, k) ==
  /\ \A d \in 1..Len(m.frames) :
       ToSet(a.functions[m.frames[d].function].effects) \subseteq ToSet(a.functions[k].effects)
  /\ \A i \in 1..Len(m.requests) : m.requests[i].effect \in ToSet(a.functions[k].effects)

\* One lemma per kind of instruction.
LEMMA EffectsStop ==
  ASSUME NEW a, NEW m, NEW k, EffectsFit(a, m, k), NEW next, next.frames = <<>>,
         next.requests = m.requests
  PROVE  EffectsFit(a, next, k)
BY DEF EffectsFit

LEMMA EffectsMove ==
  ASSUME NEW a, NEW m, Ready(a, m), NEW k, EffectsFit(a, m, k), NEW next, NEW fr \in FrameRecord,
         fr.function = Active(m).function,
         next.frames = [m.frames EXCEPT ![Len(m.frames)] = fr], next.requests = m.requests
  PROVE  EffectsFit(a, next, k)
<1>1. /\ m.frames \in Seq(FrameRecord) /\ Len(m.frames) \in Nat \ {0}
      /\ Active(m) = m.frames[Len(m.frames)]
  BY ReadyFacts, ActiveTyped DEF MachineRecord
<1>2. /\ Len(next.frames) = Len(m.frames)
      /\ \A d \in 1..Len(m.frames) : next.frames[d].function = m.frames[d].function
  BY <1>1
<1> QED
  BY <1>2 DEF EffectsFit

LEMMA EffectsCall ==
  ASSUME NEW a, NEW m, Ready(a, m), Current(a, m).op = "call", NEW k, EffectsFit(a, m, k)
  PROVE  EffectsFit(a, RunInstruction(a, m), k)
<1> DEFINE next == RunInstruction(a, m)
           n == Len(m.frames)
           callers == [m.frames EXCEPT ![n] = Taking(a, m)]
           granted == ToSet(a.functions[k].effects)
<1>1. /\ m.frames \in Seq(FrameRecord) /\ n \in Nat \ {0} /\ Active(m) = m.frames[n]
  BY ReadyFacts, ActiveTyped DEF MachineRecord
<1>2. Taking(a, m) \in FrameRecord /\ Taking(a, m).function = Active(m).function
  BY CallFitsDepth, CallRuns
<1>3. next.frames = Append(callers, Opened(a, m)) /\ next.requests = m.requests
  BY CallStep
<1>4. /\ Opened(a, m).function = Current(a, m).callee /\ Opened(a, m) \in FrameRecord
      /\ ToSet(a.functions[Current(a, m).callee].effects) \subseteq
           ToSet(a.functions[Active(m).function].effects)
  BY CallOpens, CallFacts DEF FunctionAt
<1>5. /\ Len(callers) = n /\ callers \in Seq(FrameRecord)
      /\ \A d \in 1..n : callers[d].function = m.frames[d].function
  BY <1>1, <1>2
<1> HIDE DEF callers
<1>6. /\ Len(next.frames) = n + 1 /\ next.frames[n + 1] = Opened(a, m)
      /\ \A d \in 1..n : next.frames[d] = callers[d]
  BY <1>1, <1>3, <1>4, <1>5
<1>7. \A d \in 1..(n + 1) : d \in 1..n \/ d = n + 1
  BY <1>1
<1>8. ToSet(a.functions[Active(m).function].effects) \subseteq granted
  BY <1>1 DEF EffectsFit
<1>9. ASSUME NEW d \in 1..(n + 1)
      PROVE  ToSet(a.functions[next.frames[d].function].effects) \subseteq granted
  <2> HIDE DEF next
  <2>1. CASE d \in 1..n
    BY <1>5, <1>6, <2>1 DEF EffectsFit
  <2>2. CASE d = n + 1
    BY <1>4, <1>6, <1>8, <2>2
  <2> QED
    BY <1>7, <2>1, <2>2
<1> HIDE DEF next
<1> QED
  BY <1>3, <1>6, <1>9 DEF EffectsFit, next

LEMMA EffectsRequest ==
  ASSUME NEW a, NEW m, Ready(a, m), Current(a, m).op = "request", NEW k, EffectsFit(a, m, k)
  PROVE  EffectsFit(a, RunInstruction(a, m), k)
<1> DEFINE next == RunInstruction(a, m)
           q == Recorded(a, m, Current(a, m))
           n == Len(m.requests)
           granted == ToSet(a.functions[k].effects)
<1>1. /\ m.frames \in Seq(FrameRecord) /\ Len(m.frames) \in Nat \ {0}
      /\ Active(m) = m.frames[Len(m.frames)]
      /\ m.requests \in Seq(RequestRecord) /\ n \in Nat
  BY ReadyFacts, ActiveTyped DEF MachineRecord
<1>2. /\ next.frames = [m.frames EXCEPT ![Len(m.frames)] = Taking(a, m)]
      /\ next.requests = Append(m.requests, q)
  BY RequestStep
<1>3. Taking(a, m) \in FrameRecord /\ Taking(a, m).function = Active(m).function
  BY RequestRuns
<1>4. q.effect \in granted
  <2>1. q.effect \in ToSet(a.functions[Active(m).function].effects)
    BY RecordedFields, RequestFacts DEF FunctionAt
  <2> QED
    BY <1>1, <2>1 DEF EffectsFit
<1>5. /\ Len(next.frames) = Len(m.frames)
      /\ \A d \in 1..Len(m.frames) : next.frames[d].function = m.frames[d].function
  BY <1>1, <1>2, <1>3
<1>6. /\ Len(next.requests) = n + 1 /\ next.requests[n + 1] = q
      /\ \A i \in 1..n : next.requests[i] = m.requests[i]
  <2> HIDE DEF q
  <2> QED
    BY <1>1, <1>2
<1>7. ASSUME NEW i \in 1..(n + 1)
      PROVE  next.requests[i].effect \in granted
  <2> HIDE DEF next, q
  <2>1. CASE i \in 1..n
    BY <1>6, <2>1 DEF EffectsFit
  <2>2. CASE i = n + 1
    BY <1>4, <1>6, <2>2
  <2> QED
    BY <1>1, <2>1, <2>2
<1> HIDE DEF next
<1> QED
  BY <1>5, <1>6, <1>7 DEF EffectsFit, next

LEMMA EffectsReturn ==
  ASSUME NEW a, NEW m, Ready(a, m), Current(a, m).op = "return", NEW k, EffectsFit(a, m, k)
  PROVE  EffectsFit(a, RunInstruction(a, m), k)
<1> DEFINE next == RunInstruction(a, m)
           n == Len(m.frames) - 1
<1>1. m \in MachineRecord /\ m.remaining # 0 /\ Len(m.frames) \in Nat \ {0}
  BY ReadyFacts, ActiveTyped DEF Ready
<1>2. CASE Len(m.frames) = 1
  <2>1. next = [Halt(Paid(m), "completed") EXCEPT !.result = Returned(m)]
    BY <1>2, ReturnRuns
  <2>2. /\ Halt(Paid(m), "completed") \in MachineRecord
        /\ Halt(Paid(m), "completed").frames = <<>>
        /\ Halt(Paid(m), "completed").requests = m.requests
    BY <1>1, PaidTyped, HaltTyped, HaltKinds
  <2>3. next.frames = <<>> /\ next.requests = m.requests
    BY <2>1, <2>2 DEF MachineRecord
  <2> QED
    BY <2>3, EffectsStop
<1>3. CASE Len(m.frames) # 1
  <2>1. next = WentBack(m)
    BY <1>3, ReturnRuns
  <2>2. /\ n \in Nat \ {0} /\ Len(Remaining(m)) = n
        /\ \A d \in 1..(n - 1) : Remaining(m)[d] = m.frames[d]
        /\ Remaining(m)[n] = Resumed(m)
        /\ WentBack(m).frames = Remaining(m) /\ WentBack(m).requests = m.requests
    BY <1>3, ReturnedFits
  <2>3. Resumed(m).function = m.frames[n].function
    BY <1>3, ResumedFits
  <2>4. \A d \in 1..n : d \in 1..Len(m.frames) /\ (d \in 1..(n - 1) \/ d = n)
    BY <1>1
  <2>5. \A d \in 1..n : Remaining(m)[d].function = m.frames[d].function
    BY <2>2, <2>3, <2>4
  <2> HIDE DEF next, n
  <2> QED
    BY <2>1, <2>2, <2>4, <2>5 DEF EffectsFit, next
<1> QED
  BY <1>2, <1>3

LEMMA EffectsStep ==
  ASSUME NEW a, Verified(a), NEW m, MachineFits(a, m), Running(m), NEW k, EffectsFit(a, m, k)
  PROVE  EffectsFit(a, RunInstruction(a, m), k)
<1> DEFINE next == RunInstruction(a, m)
<1>1. m \in MachineRecord /\ FramesFit(a, m.frames)
  BY DEF MachineFits
<1>2. CASE m.remaining = 0
  <2>1. next = Halt(m, "budget")
    BY <1>1, <1>2, BudgetStops
  <2>2. next.frames = <<>> /\ next.requests = m.requests
    BY <1>1, <2>1, HaltTyped, HaltKinds
  <2> QED
    BY <2>2, EffectsStop
<1>3. CASE m.remaining # 0
  <2>1. Ready(a, m)
    BY <1>1, <1>3 DEF Ready
  <2>2. CASE Current(a, m).op \notin {"call", "request", "return"}
    <3>1. CASE \E fr \in FrameRecord : /\ fr.function = Active(m).function
                                       /\ fr.pc = Active(m).pc + 1 /\ next = Went(m, fr)
      <4>1. PICK fr \in FrameRecord : fr.function = Active(m).function /\ next = Went(m, fr)
        BY <3>1
      <4>2. /\ next.frames = [m.frames EXCEPT ![Len(m.frames)] = fr]
            /\ next.requests = m.requests
        BY <2>1, <4>1, WentFits
      <4> QED
        BY <2>1, <4>1, <4>2, EffectsMove
    <3>2. CASE \E op \in Operations : next = Halt(Paid(m), op)
      <4>1. PICK op \in Operations : next = Halt(Paid(m), op)
        BY <3>2
      <4>2. next.frames = <<>> /\ next.requests = m.requests
        BY <1>1, <1>3, <4>1, PaidTyped, HaltTyped, OperationKinds
      <4> QED
        BY <4>2, EffectsStop
    <3> QED
      BY <2>1, <2>2, <3>1, <3>2, PlainRuns
  <2> QED
    BY <2>1, <2>2, EffectsCall, EffectsRequest, EffectsReturn
<1> QED
  BY <1>2, <1>3

-----------------------------------------------------------------------------
\* Over a whole execution: every slot is balanced, and no effect is out of reach.
ExecutionBalanced(a, m, entered, k) ==
  /\ entered \in [DOMAIN a.functions -> Nat]
  /\ EffectsFit(a, m, k)
  /\ IsLinear(a.ast) =>
       \A n \in DOMAIN a.functions : \A slot \in ToSet(SlotsOf(a.functions[n])) :
         SlotBalance(a, m, entered, n, slot.name)

\* At the start one entry is pending and nothing has moved.
LEMMA BalanceBegins ==
  ASSUME NEW a, Verified(a), NEW k \in DOMAIN a.functions, NEW budget \in Nat,
         NEW given \in ArgumentsOf(a.functions[k])
  PROVE  ExecutionBalanced(a, Machine(a, k, given, budget),
                           [n \in DOMAIN a.functions |-> IF n = k THEN 1 ELSE 0], k)
<1> DEFINE m == Machine(a, k, given, budget)
           entered == [n \in DOMAIN a.functions |-> IF n = k THEN 1 ELSE 0]
           fr == Frame(a.functions[k], k, given)
<1>1. Running(m) /\ m.frames = <<fr>> /\ m.requests = <<>>
  BY MachineStarts
<1>2. /\ given \in Seq(JoanValue) /\ Len(given) = Len(a.functions[k].params)
      /\ \A i \in 1..Len(given) : TypeOf(given[i]) = a.functions[k].params[i]
  BY ArgumentsTyped
<1>3. fr.function = k /\ TypingAt(a, fr) = Typing(a.functions[k])
  BY <1>2, FrameAtHand
<1> HIDE DEF fr
<1>4. Len(<<fr>>) = 1 /\ <<fr>>[1] = fr /\ Len(<<>>) = 0
  OBVIOUS
<1> HIDE DEF m
<1>5. EffectsFit(a, m, k)
  BY <1>1, <1>3, <1>4 DEF EffectsFit
<1>6. ASSUME NEW n \in DOMAIN a.functions, NEW s
      PROVE  SlotBalance(a, m, entered, n, s)
  <2>1. Moved(m, a.functions[n].name, s) = 0
    <3>1. {i \in DOMAIN m.requests : /\ m.requests[i].function = a.functions[n].name
                                     /\ m.requests[i].slot = <<s>>} = {}
      BY <1>1
    <3> QED
      BY <3>1, FS_EmptySet DEF Moved
  <2>2. s \notin TypingAt(a, fr).used
    BY <1>3 DEF Typing
  <2>3. \A d : d \in 1..1 <=> d = 1
    OBVIOUS
  <2>4. CASE n = k
    <3>1. PendingIn(a, m.frames, n, s) = {1}
      BY <1>1, <1>3, <1>4, <2>2, <2>3, <2>4 DEF PendingIn, Owes
    <3>2. Pending(a, m, n, s) = 1
      BY <3>1, FS_Singleton DEF Pending
    <3>3. entered[n] = 1
      BY <2>4
    <3> HIDE DEF entered
    <3> QED
      BY <1>1, <2>1, <3>2, <3>3 DEF SlotBalance, Running
  <2>5. CASE n # k
    <3>1. PendingIn(a, m.frames, n, s) = {}
      BY <1>1, <1>3, <1>4, <2>3, <2>5 DEF PendingIn, Owes
    <3>2. Pending(a, m, n, s) = 0
      BY <3>1, FS_EmptySet DEF Pending
    <3>3. entered[n] = 0
      BY <2>5
    <3> HIDE DEF entered
    <3> QED
      BY <1>1, <2>1, <3>2, <3>3 DEF SlotBalance, Running
  <2> QED
    BY <2>4, <2>5
<1>7. entered \in [DOMAIN a.functions -> Nat]
  OBVIOUS
<1> HIDE DEF entered
<1>8. ExecutionBalanced(a, m, entered, k)
  BY <1>5, <1>6, <1>7 DEF ExecutionBalanced
<1> QED
  BY <1>8 DEF m, entered

\* The entries of each function stay a number.
LEMMA EntriesTyped ==
  ASSUME NEW D, NEW entered \in [D -> Nat], NEW m, NEW next
  PROVE  Entries(entered, m, next) \in [D -> Nat]
<1>1. ASSUME NEW k
      PROVE  [entered EXCEPT ![k] = entered[k] + 1] \in [D -> Nat]
  <2>1. CASE k \in D
    BY <2>1
  <2>2. CASE k \notin D
    BY <2>2
  <2> QED
    BY <2>1, <2>2
<1>2. \A k : [entered EXCEPT ![k] = entered[k] + 1] \in [D -> Nat]
  BY <1>1
<1> QED
  BY <1>2 DEF Entries

\* Both facts survive an instruction.
LEMMA ExecutionStep ==
  ASSUME NEW a, Verified(a), NEW m, MachineFits(a, m), NEW entered, NEW k,
         ExecutionBalanced(a, m, entered, k)
  PROVE  ExecutionBalanced(a, Advanced(a, m), Entries(entered, m, Advanced(a, m)), k)
<1>1. CASE Running(m)
  <2>1. Advanced(a, m) = RunInstruction(a, m)
    BY <1>1 DEF Advanced
  <2>2. Entries(entered, m, RunInstruction(a, m)) \in [DOMAIN a.functions -> Nat]
    BY EntriesTyped DEF ExecutionBalanced
  <2>3. EffectsFit(a, RunInstruction(a, m), k)
    BY <1>1, EffectsStep DEF ExecutionBalanced
  <2>4. ASSUME IsLinear(a.ast), NEW n \in DOMAIN a.functions,
               NEW slot \in ToSet(SlotsOf(a.functions[n]))
        PROVE  SlotBalance(a, RunInstruction(a, m), Entries(entered, m, RunInstruction(a, m)), n, slot.name)
    <3>1. entered \in [DOMAIN a.functions -> Nat] /\ SlotBalance(a, m, entered, n, slot.name)
      BY <2>4 DEF ExecutionBalanced
    <3> QED
      BY <1>1, <2>4, <3>1, BalanceStep
  <2> QED
    BY <2>1, <2>2, <2>3, <2>4 DEF ExecutionBalanced
<1>2. CASE ~Running(m)
  <2>1. Advanced(a, m) = m
    BY <1>2 DEF Advanced
  <2>2. m.frames = <<>>
    BY <1>2 DEF MachineFits
  <2>3. Entries(entered, m, m) = entered
    BY <2>2, NotEntered
  <2> QED
    BY <2>1, <2>3
<1> QED
  BY <1>1, <1>2

SlotsInv ==
  Started => /\ chosen.function \in DOMAIN artifact.functions
             /\ \A r \in Runs : ExecutionBalanced(artifact, machine[r], started[r], chosen.function)

LEMMA SlotsInvInit ==
  MachineInit => SlotsInv
BY DEF MachineInit, SlotsInv, Started

\* Each of the three steps keeps the invariant.
LEMMA SlotsInvNext ==
  MachineInv /\ SlotsInv /\ [MachineNext]_machineVars => SlotsInv'
<1> SUFFICES ASSUME MachineInv, SlotsInv, [MachineNext]_machineVars
             PROVE  SlotsInv'
  OBVIOUS
<1>1. CASE Accept
  BY <1>1 DEF Accept, MachineInv, SlotsInv, Started
<1>2. CASE Execute
  <2>1. artifact # Nothing /\ artifact' = artifact /\ Verified(artifact)
    BY <1>2 DEF Execute, MachineInv
  <2>2. PICK k \in DOMAIN artifact.functions, observer \in Observers, budget \in Budgets \ {0} :
          \E first, second \in ArgumentsOf(artifact.functions[k]) : Begin(k, observer, budget, first, second)
    BY <1>2 DEF Execute
  <2>3. PICK first \in ArgumentsOf(artifact.functions[k]), second \in ArgumentsOf(artifact.functions[k]) :
          Begin(k, observer, budget, first, second)
    BY <2>2
  <2> DEFINE once == [n \in DOMAIN artifact.functions |-> IF n = k THEN 1 ELSE 0]
  <2>4. /\ chosen'.function = k
        /\ machine' = [r \in Runs |-> Machine(artifact, k, <<first, second>>[r], budget)]
        /\ started' = [r \in Runs |-> once]
    BY <2>3 DEF Begin
  <2>5. budget \in Nat
    BY ArgumentsAssumption
  <2> HIDE DEF once
  <2>6. ExecutionBalanced(artifact, Machine(artifact, k, first, budget), once, k)
    BY <2>1, <2>5, BalanceBegins DEF once
  <2>7. ExecutionBalanced(artifact, Machine(artifact, k, second, budget), once, k)
    BY <2>1, <2>5, BalanceBegins DEF once
  <2>8. \A r \in Runs : ExecutionBalanced(artifact, machine'[r], started'[r], k)
    BY <2>4, <2>6, <2>7 DEF Runs
  <2> QED
    BY <2>1, <2>4, <2>8 DEF SlotsInv
<1>3. CASE Instruct
  <2>1. artifact' = artifact /\ chosen' = chosen /\ Started /\ artifact # Nothing /\ Verified(artifact)
    BY <1>3 DEF Instruct, MachineInv, Started
  <2>2. ASSUME NEW r \in Runs
        PROVE  ExecutionBalanced(artifact, machine'[r], started'[r], chosen.function)
    <3>1. /\ machine'[r] = Advanced(artifact, machine[r])
          /\ started'[r] = Entries(started[r], machine[r], machine'[r])
      BY <1>3 DEF Instruct
    <3>2. MachineFits(artifact, machine[r])
      BY <2>1 DEF MachineInv
    <3>3. ExecutionBalanced(artifact, machine[r], started[r], chosen.function)
      BY <2>1 DEF SlotsInv
    <3> QED
      BY <2>1, <3>1, <3>2, <3>3, ExecutionStep
  <2> QED
    BY <2>1, <2>2 DEF SlotsInv, Started
<1>4. CASE UNCHANGED machineVars
  BY <1>4 DEF machineVars, SlotsInv, Started
<1> QED
  BY <1>1, <1>2, <1>3, <1>4 DEF MachineNext

\* An authority slot is moved at most once for each entry of the function that
\* declares it and exactly once when the execution completes, and no effect is
\* asked for that the executed function does not declare, whatever the artifact:
\* a frame that has not moved its slot is still to move it, and every way out of
\* a function has (joan-bytecode authority slots; joan-compiler execute, request).
THEOREM SlotsAreLinearTheorem == MachineSpec => []SlotsAreLinear
<1>1. MachineInv /\ SlotsInv => SlotsAreLinear
  <2> SUFFICES ASSUME MachineInv, SlotsInv, NEW r \in Runs, Started, IsLinear(artifact.ast)
               PROVE  /\ \A k \in DOMAIN artifact.functions :
                           \A slot \in ToSet(SlotsOf(artifact.functions[k])) :
                             LET moved == Moved(machine[r], artifact.functions[k].name, slot.name)
                             IN  /\ moved <= started[r][k]
                                 /\ machine[r].status = "completed" => moved = started[r][k]
                      /\ \A q \in ToSet(machine[r].requests) :
                           q.effect \in ToSet(artifact.functions[chosen.function].effects)
    BY DEF SlotsAreLinear
  <2>1. /\ MachineFits(artifact, machine[r])
        /\ ExecutionBalanced(artifact, machine[r], started[r], chosen.function)
    BY DEF MachineInv, SlotsInv
  <2>2. ASSUME NEW k \in DOMAIN artifact.functions, NEW slot \in ToSet(SlotsOf(artifact.functions[k]))
        PROVE  LET moved == Moved(machine[r], artifact.functions[k].name, slot.name)
               IN  /\ moved <= started[r][k]
                   /\ machine[r].status = "completed" => moved = started[r][k]
    BY <2>1 DEF ExecutionBalanced, SlotBalance
  <2>3. ASSUME NEW q \in ToSet(machine[r].requests)
        PROVE  q.effect \in ToSet(artifact.functions[chosen.function].effects)
    <3>1. machine[r].requests \in Seq(RequestRecord)
      BY <2>1 DEF MachineFits, MachineRecord
    <3>2. PICK i \in 1..Len(machine[r].requests) : q = machine[r].requests[i]
      BY <3>1 DEF ToSet
    <3> QED
      BY <2>1, <3>2 DEF ExecutionBalanced, EffectsFit
  <2> QED
    BY <2>2, <2>3
<1> QED
  BY <1>1, MachineInvAlways, SlotsInvInit, SlotsInvNext, PTL DEF MachineSpec

-----------------------------------------------------------------------------
\* Labels.  What may flow to an observer through a label may flow to it.
LEMMA FlowsThrough ==
  ASSUME NEW l, NEW via, NEW o, CanFlow(l, via), CanFlow(via, o)
  PROVE  CanFlow(l, o)
BY DEF CanFlow

LEMMA JoinFlows ==
  ASSUME NEW l, NEW r, NEW o, Join(l, r) # Incompatible, CanFlow(Join(l, r), o)
  PROVE  CanFlow(l, o) /\ CanFlow(r, o)
BY DEF CanFlow, Join

\* In a module without information flow everything on a stack is public.
AllPublic(t) == \A i \in 1..Len(t.stack) : t.stack[i].label = Public

\* Such a module has public parameters, locals and results only.
LEMMA PublicTables ==
  ASSUME NEW a, Verified(a), ~IsFlow(a.ast), NEW k \in DOMAIN a.functions
  PROVE  /\ a.functions[k].paramLabels = Absent
         /\ LabelOf(a.functions[k].retLabel) = Public
         /\ \A s : LabelAt(a.functions[k], s) = Public
BY VerifiedTables DEF InformationTable, LabelOf, LabelAt

LEMMA BelowPublic ==
  ASSUME NEW t \in TypingRecord, NEW n \in Nat, Depth(t, n), AllPublic(t),
         NEW next, next.stack = Below(t, n)
  PROVE  AllPublic(next)
<1>1. /\ Len(Below(t, n)) = Len(t.stack) - n /\ Len(t.stack) \in Nat
      /\ \A k \in 1..(Len(t.stack) - n) : Below(t, n)[k] = t.stack[k]
  BY BelowTyped DEF TypingRecord
<1>2. \A x \in Nat : \A k \in 1..(x - n) : k \in 1..x
  OBVIOUS
<1>3. \A k \in 1..(Len(t.stack) - n) : k \in 1..Len(t.stack)
  BY <1>1, <1>2
<1> QED
  BY <1>1, <1>3 DEF AllPublic

LEMMA PushPublic ==
  ASSUME NEW t \in TypingRecord, NEW n \in Nat, Depth(t, n), AllPublic(t),
         NEW e \in EntryRecord, e.label = Public
  PROVE  AllPublic(Push1(t, n, e))
<1> DEFINE below == Below(t, n)
<1>1. /\ below \in Seq(EntryRecord) /\ Len(below) = Len(t.stack) - n /\ Len(t.stack) \in Nat
      /\ \A k \in 1..(Len(t.stack) - n) : below[k] = t.stack[k]
      /\ Len(t.stack) - n \in Nat
  BY BelowTyped DEF TypingRecord, Depth
<1>2. Push1(t, n, e).stack = Append(below, e)
  BY Push1Typed
<1> HIDE DEF below
<1>3. \A k \in 1..Len(below) : below[k].label = Public
  BY <1>1 DEF AllPublic
<1>4. /\ Len(Append(below, e)) = Len(below) + 1 /\ Append(below, e)[Len(below) + 1] = e
      /\ \A k \in 1..Len(below) : Append(below, e)[k] = below[k]
      /\ Len(below) \in Nat
  <2>1. below \in Seq(EntryRecord)
    BY <1>1
  <2> QED
    BY <2>1, AppendProperties, LenProperties
<1>5. \A k \in 1..(Len(below) + 1) : k \in 1..Len(below) \/ k = Len(below) + 1
  BY <1>4
<1> QED
  BY <1>2, <1>3, <1>4, <1>5 DEF AllPublic

\* Every instruction leaves the stack public.
LEMMA PublicStep ==
  ASSUME NEW a, Verified(a), ~IsFlow(a.ast), NEW k \in DOMAIN a.functions,
         NEW t \in TypingRecord, t.sound, AllPublic(t), NEW i \in Instruction,
         TypeInstruction(a, a.functions[k], t, i).sound
  PROVE  AllPublic(TypeInstruction(a, a.functions[k], t, i))
<1> DEFINE f == a.functions[k]
           next == TypeInstruction(a, f, t, i)
<1>1. /\ f \in BytecodeFunction /\ InformationTable(a, f) /\ Depth(t, 0)
      /\ \A s : LabelAt(f, s) = Public
  BY VerifiedTables, PublicTables, DepthZero
<1>2. Public \in JoanLabel
  BY DEF JoanLabel
<1>3. ASSUME NEW n \in Nat, Depth(t, n), NEW type \in JoanType, next = Push1(t, n, Entry(type, Public))
      PROVE  AllPublic(next)
  <2>1. Entry(type, Public) \in EntryRecord /\ Entry(type, Public).label = Public
    BY <1>2, EntryTyped DEF Entry
  <2> QED
    BY <1>3, <2>1, PushPublic
<1> HIDE DEF next
<1>4. CASE i.op = "push"
  <2>1. next = Push1(t, 0, Entry(TypeOf(i.value), Public)) /\ TypeOf(i.value) \in JoanType
    BY <1>4, PushTypes, InstructionFields, TypeOfTyped DEF next
  <2> QED
    BY <1>1, <1>3, <2>1 DEF next
<1>5. CASE i.op = "load"
  <2>1. /\ i.slot \in DOMAIN f.locals
        /\ next = Push1(t, 0, Entry(f.locals[i.slot], LabelAt(f, i.slot)))
    BY <1>5, LoadTypes DEF next
  <2>2. f.locals[i.slot] \in JoanType /\ LabelAt(f, i.slot) = Public
    BY <1>1, <2>1 DEF BytecodeFunction
  <2> QED
    BY <1>1, <1>3, <2>1, <2>2 DEF next
<1>6. CASE i.op = "store"
  <2>1. Depth(t, 1) /\ next = Stored(t, i.slot)
    BY <1>6, StoreTypes DEF next
  <2>2. next.stack = Below(t, 1)
    BY <2>1 DEF Stored, TypingRecord
  <2> QED
    BY <2>1, <2>2, BelowPublic DEF next
<1>7. CASE i.op = "pop"
  <2>1. Depth(t, 1) /\ next = Kept(t, 1)
    BY <1>7, PopTypes DEF next
  <2>2. next.stack = Below(t, 1)
    BY <2>1 DEF Kept, TypingRecord
  <2> QED
    BY <2>1, <2>2, BelowPublic DEF next
<1>8. CASE i.op \in {"negate", "not"}
  BY <1>8, UnaryTypes DEF next
<1>9. CASE i.op \in Operations \ {"negate", "not"}
  <2> DEFINE left == Top(t, 2)[1]
             right == Top(t, 2)[2]
             type == IF i.op \in Arithmetic THEN "i64" ELSE "bool"
  <2>1. Depth(t, 2) /\ next = Push1(t, 2, Entry(type, Join(left.label, right.label)))
    BY <1>9, BinaryTypes DEF next
  <2>2. /\ \A n \in 1..2 : Top(t, 2)[n] = t.stack[Len(t.stack) - 2 + n]
        /\ Len(t.stack) \in Nat /\ Len(t.stack) >= 2
    BY <2>1, BelowTyped DEF TypingRecord, Depth
  <2>3. left.label = Public /\ right.label = Public
    <3>1. left = t.stack[Len(t.stack) - 1] /\ right = t.stack[Len(t.stack)]
      BY <2>2
    <3>2. Len(t.stack) - 1 \in 1..Len(t.stack) /\ Len(t.stack) \in 1..Len(t.stack)
      BY <2>2
    <3> QED
      BY <3>1, <3>2 DEF AllPublic
  <2>4. Join(left.label, right.label) = Public /\ type \in JoanType
    BY <2>3 DEF Join, JoanType
  <2> QED
    BY <1>3, <2>1, <2>4 DEF next
<1>10. CASE i.op = "call"
  <2> DEFINE target == a.functions[i.callee]
  <2>1. /\ i.callee \in DOMAIN a.functions /\ Depth(t, i.count) /\ i.count \in Nat
        /\ next = Push1(t, i.count, Entry(target.ret, LabelOf(target.retLabel)))
    BY <1>10, CallTypes, InstructionFields DEF next
  <2>2. target.ret \in JoanType /\ LabelOf(target.retLabel) = Public
    BY <2>1, VerifiedTables, PublicTables DEF BytecodeFunction
  <2> QED
    BY <1>3, <2>1, <2>2 DEF next
<1>11. CASE i.op = "request"
  <2>1. Depth(t, i.count) /\ i.count \in Nat /\ next = Requested(t, i.count, i.slot)
    BY <1>11, RequestTypes, InstructionFields DEF next
  <2>2. next.stack = Below(t, i.count)
    BY <2>1 DEF Requested, TypingRecord
  <2> QED
    BY <2>1, <2>2, BelowPublic DEF next
<1>12. CASE i.op = "return"
  <2>1. next.stack = <<>>
    BY <1>12, ReturnTypes DEF next, Emptied, TypingRecord
  <2> QED
    BY <2>1 DEF AllPublic, next
<1> QED
  BY <1>4, <1>5, <1>6, <1>7, <1>8, <1>9, <1>10, <1>11, <1>12, InstructionFields

LEMMA AfterPublic ==
  ASSUME NEW a, Verified(a), ~IsFlow(a.ast), NEW k \in DOMAIN a.functions
  PROVE  \A n \in 0..Len(CodeOf(a, k)) : AllPublic(After(a, k, n))
<1> DEFINE N == Len(CodeOf(a, k))
           T == {n \in 0..N : ~AllPublic(After(a, k, n))}
<1>1. N \in Nat
  BY VerifiedTables
<1>2. ASSUME T # {} PROVE FALSE
  <2>0. T \subseteq Nat
    OBVIOUS
  <2>1. PICK n \in T : \A j \in T : n <= j
    BY <1>2, <2>0, LeastNumber
  <2>2. n # 0
    <3>1. After(a, k, 0).stack = <<>>
      BY AfterUnfolds DEF Typing
    <3> QED
      BY <2>1, <3>1 DEF AllPublic
  <2>3. n \in 1..N /\ n - 1 \in 0..N /\ n - 1 \notin T
    BY <1>1, <2>1, <2>2
  <2>4. AllPublic(After(a, k, n - 1))
    BY <2>3
  <2>5. /\ After(a, k, n - 1) \in TypingRecord /\ CodeOf(a, k)[n] \in Instruction
        /\ After(a, k, n - 1).sound /\ After(a, k, n).sound
        /\ After(a, k, n).stack =
             TypeInstruction(a, a.functions[k], After(a, k, n - 1), CodeOf(a, k)[n]).stack
        /\ After(a, k, n).sound =
             TypeInstruction(a, a.functions[k], After(a, k, n - 1), CodeOf(a, k)[n]).sound
    BY <2>3, AfterSteps, AfterSound
  <2>6. AllPublic(TypeInstruction(a, a.functions[k], After(a, k, n - 1), CodeOf(a, k)[n]))
    BY <2>4, <2>5, PublicStep
  <2>7. AllPublic(After(a, k, n))
    BY <2>5, <2>6 DEF AllPublic
  <2> QED
    BY <2>1, <2>7
<1> QED
  BY <1>1, <1>2

-----------------------------------------------------------------------------
\* Two executions side by side.  They are at the same point of the same
\* functions, and what may flow to the observer is the same in both.
SameStack(o, left, right, entries) ==
  /\ Len(left) = Len(right)
  /\ \A i \in 1..Len(left) : CanFlow(entries[i].label, o) => left[i] = right[i]
SameLocals(o, f, left, right) ==
  \A s \in DOMAIN f.locals : CanFlow(LabelAt(f, s), o) => left[s] = right[s]
SameFrame(a, o, left, right) ==
  /\ left.function = right.function /\ left.pc = right.pc
  /\ SameStack(o, left.stack, right.stack, TypingAt(a, left).stack)
  /\ SameLocals(o, a.functions[left.function], left.locals, right.locals)

Twins(a, o, m, w) == Ready(a, m) /\ Ready(a, w) /\ SameFrame(a, o, Active(m), Active(w))

\* Twins stand at the same instruction, with the same typing before and after it.
LEMMA TwinFacts ==
  ASSUME NEW a, NEW o, NEW m, NEW w, Twins(a, o, m, w)
  PROVE  /\ Active(w).function = Active(m).function /\ Active(w).pc = Active(m).pc
         /\ FunctionAt(a, w) = FunctionAt(a, m) /\ Current(a, w) = Current(a, m)
         /\ TypingAt(a, Active(w)) = TypingAt(a, Active(m))
         /\ NextTyping(a, w) = NextTyping(a, m)
<1>1. Active(w).function = Active(m).function /\ Active(w).pc = Active(m).pc
  BY DEF Twins, SameFrame
<1>2. /\ FunctionAt(a, w) = FunctionAt(a, m) /\ Current(a, w) = Current(a, m)
      /\ TypingAt(a, Active(w)) = TypingAt(a, Active(m))
  BY <1>1 DEF FunctionAt, Current, TypingAt
<1> QED
  BY <1>1, <1>2 DEF NextTyping

\* Operands and what is below them are the same in both stacks.
LEMMA TakenSame ==
  ASSUME NEW o, NEW t \in TypingRecord, NEW n \in Nat, Depth(t, n),
         NEW left \in Seq(JoanValue), NEW right \in Seq(JoanValue), Len(left) = Len(t.stack),
         SameStack(o, left, right, t.stack)
  PROVE  /\ SameStack(o, Take(left, n), Take(right, n), Below(t, n))
         /\ \A k \in 1..n : CanFlow(Top(t, n)[k].label, o) => Given(left, n)[k] = Given(right, n)[k]
<1>1. n <= Len(left) /\ n <= Len(right) /\ Len(left) = Len(right) /\ Len(left) \in Nat
  BY DEF Depth, SameStack
<1>2. /\ Len(Take(left, n)) = Len(left) - n /\ Len(Take(right, n)) = Len(left) - n
      /\ \A k \in 1..(Len(left) - n) : Take(left, n)[k] = left[k]
      /\ \A k \in 1..(Len(left) - n) : Take(right, n)[k] = right[k]
      /\ \A k \in 1..n : Given(left, n)[k] = left[Len(left) - n + k]
      /\ \A k \in 1..n : Given(right, n)[k] = right[Len(left) - n + k]
  BY <1>1, GivenTyped
<1>3. /\ \A k \in 1..(Len(left) - n) : Below(t, n)[k] = t.stack[k]
      /\ \A k \in 1..n : Top(t, n)[k] = t.stack[Len(left) - n + k]
  BY BelowTyped
<1>4. /\ \A k \in 1..(Len(left) - n) : k \in 1..Len(left)
      /\ \A k \in 1..n : Len(left) - n + k \in 1..Len(left)
  BY <1>1
<1> QED
  BY <1>2, <1>3, <1>4 DEF SameStack

LEMMA GivenSame ==
  ASSUME NEW o, NEW t \in TypingRecord, NEW n \in Nat, Depth(t, n),
         NEW left \in Seq(JoanValue), NEW right \in Seq(JoanValue), Len(left) = Len(t.stack),
         SameStack(o, left, right, t.stack), \A k \in 1..n : CanFlow(Top(t, n)[k].label, o)
  PROVE  Given(left, n) = Given(right, n)
<1>1. n <= Len(left) /\ n <= Len(right)
  BY DEF Depth, SameStack
<1>2. /\ Given(left, n) \in Seq(JoanValue) /\ Len(Given(left, n)) = n
      /\ Given(right, n) \in Seq(JoanValue) /\ Len(Given(right, n)) = n
  BY <1>1, GivenTyped
<1>3. \A k \in 1..n : Given(left, n)[k] = Given(right, n)[k]
  BY TakenSame
<1> QED
  BY <1>2, <1>3, SeqEqual

LEMMA PushedSame ==
  ASSUME NEW o, NEW t \in TypingRecord, NEW n \in Nat, Depth(t, n), NEW e \in EntryRecord,
         NEW left \in Seq(JoanValue), NEW right \in Seq(JoanValue), Len(left) = Len(t.stack),
         SameStack(o, left, right, t.stack),
         NEW v \in JoanValue, NEW u \in JoanValue, CanFlow(e.label, o) => v = u
  PROVE  SameStack(o, Append(Take(left, n), v), Append(Take(right, n), u), Push1(t, n, e).stack)
<1> DEFINE l == Take(left, n)
           r == Take(right, n)
           below == Below(t, n)
<1>1. SameStack(o, l, r, below)
  BY TakenSame
<1>2. n <= Len(left) /\ n <= Len(right)
  BY DEF Depth, SameStack
<1>3. l \in Seq(JoanValue) /\ r \in Seq(JoanValue) /\ Len(l) = Len(left) - n
  BY <1>2, GivenTyped
<1>4. Push1(t, n, e).stack = Append(below, e) /\ below \in Seq(EntryRecord) /\ Len(below) = Len(l)
  BY <1>3, Push1Typed, BelowTyped
<1> HIDE DEF l, r, below
<1>5. Len(l) \in Nat /\ Len(r) = Len(l)
  BY <1>1, <1>3, LenProperties DEF SameStack
<1>6. /\ Len(Append(l, v)) = Len(l) + 1 /\ Append(l, v)[Len(l) + 1] = v
      /\ \A i \in 1..Len(l) : Append(l, v)[i] = l[i]
  <2>1. l \in Seq(JoanValue)
    BY <1>3
  <2> QED
    BY <2>1, AppendProperties
<1>7. /\ Len(Append(r, u)) = Len(l) + 1 /\ Append(r, u)[Len(l) + 1] = u
      /\ \A i \in 1..Len(l) : Append(r, u)[i] = r[i]
  BY <1>3, <1>5, AppendProperties
<1>8. /\ Append(below, e)[Len(l) + 1] = e
      /\ \A i \in 1..Len(l) : Append(below, e)[i] = below[i]
  BY <1>4, AppendProperties
<1>9. \A i \in 1..(Len(l) + 1) : i \in 1..Len(l) \/ i = Len(l) + 1
  BY <1>5
<1>10. SameStack(o, Append(l, v), Append(r, u), Append(below, e))
  BY <1>1, <1>6, <1>7, <1>8, <1>9 DEF SameStack
<1> QED
  BY <1>4, <1>10 DEF l, r, below

\* Frames that go on with the same visible stack are the same to the observer.
LEMMA OnwardSame ==
  ASSUME NEW a, NEW o, NEW m, NEW w, Twins(a, o, m, w),
         NEW left \in Seq(JoanValue), NEW right \in Seq(JoanValue),
         SameStack(o, left, right, NextTyping(a, m).stack)
  PROVE  SameFrame(a, o, Onward(Active(m), left), Onward(Active(w), right))
<1> DEFINE fr == Onward(Active(m), left)
           fw == Onward(Active(w), right)
<1>1. Active(m) \in FrameRecord /\ Active(w) \in FrameRecord
  BY ReadyFacts DEF Twins
<1>2. /\ fr.function = Active(m).function /\ fr.pc = Active(m).pc + 1
      /\ fr.stack = left /\ fr.locals = Active(m).locals
  BY <1>1, OnwardTyped
<1>3. /\ fw.function = Active(w).function /\ fw.pc = Active(w).pc + 1
      /\ fw.stack = right /\ fw.locals = Active(w).locals
  BY <1>1, OnwardTyped
<1> HIDE DEF fr, fw
<1>4. TypingAt(a, fr).stack = NextTyping(a, m).stack
  BY <1>2, NextAt DEF Twins
<1>5. /\ Active(w).function = Active(m).function /\ Active(w).pc = Active(m).pc
      /\ SameLocals(o, a.functions[Active(m).function], Active(m).locals, Active(w).locals)
  BY DEF Twins, SameFrame
<1>6. SameFrame(a, o, fr, fw)
  BY <1>2, <1>3, <1>4, <1>5 DEF SameFrame
<1> QED
  BY <1>6 DEF fr, fw

\* The entry an operator leaves joins the labels of its operands.
LEMMA OperatorLabels ==
  ASSUME NEW a, NEW o, NEW m, Ready(a, m), Current(a, m).op \in Operations
  PROVE  LET t == TypingAt(a, Active(m))
             n == Arity(Current(a, m).op)
         IN  \E e \in EntryRecord :
               /\ NextTyping(a, m).stack = Push1(t, n, e).stack
               /\ CanFlow(e.label, o) => \A k \in 1..n : CanFlow(Top(t, n)[k].label, o)
<1> DEFINE op == Current(a, m).op
           t == TypingAt(a, Active(m))
<1>1. t \in TypingRecord /\ t.sound
  BY ReadyFacts
<1>2. CASE op \in {"negate", "not"}
  <2>1. Depth(t, 1) /\ NextTyping(a, m) = t
    BY <1>1, <1>2, UnaryTypes, NextFacts DEF NextTyping
  <2>2. Top(t, 1)[1] \in EntryRecord /\ NextTyping(a, m).stack = Push1(t, 1, Top(t, 1)[1]).stack
    BY <1>1, <2>1, TopKept
  <2>3. Arity(op) = 1 /\ \A k \in 1..1 : k = 1
    BY <1>2 DEF Arity
  <2> QED
    BY <2>2, <2>3
<1>3. CASE op \in Operations \ {"negate", "not"}
  <2> DEFINE left == Top(t, 2)[1]
             right == Top(t, 2)[2]
             e == Entry(IF op \in Arithmetic THEN "i64" ELSE "bool", Join(left.label, right.label))
  <2>1. Depth(t, 2) /\ Join(left.label, right.label) # Incompatible /\ NextTyping(a, m) = Push1(t, 2, e)
    BY <1>1, <1>3, BinaryTypes, NextFacts DEF NextTyping
  <2>2. left \in EntryRecord /\ right \in EntryRecord
    BY <1>1, <2>1, BelowTyped
  <2>3. e \in EntryRecord /\ e.label = Join(left.label, right.label)
    <3>1. Join(left.label, right.label) \in JoanLabel
      BY <2>1, <2>2, JoinTyped DEF EntryRecord
    <3> QED
      BY <3>1 DEF Entry, EntryRecord, JoanType
  <2>4. ASSUME CanFlow(e.label, o), NEW k \in 1..2
        PROVE  CanFlow(Top(t, 2)[k].label, o)
    <3>1. CanFlow(left.label, o) /\ CanFlow(right.label, o)
      BY <2>1, <2>3, <2>4, JoinFlows
    <3>2. k = 1 \/ k = 2
      OBVIOUS
    <3> QED
      BY <3>1, <3>2
  <2>5. Arity(op) = 2
    BY <1>3 DEF Arity
  <2> HIDE DEF e
  <2> QED
    BY <2>1, <2>3, <2>4, <2>5
<1> QED
  BY <1>2, <1>3

\* So a visible result has operands that are visible and equal.
LEMMA OperatorSame ==
  ASSUME NEW a, NEW o, NEW m, NEW w, Twins(a, o, m, w), Current(a, m).op \in Operations
  PROVE  LET op == Current(a, m).op
         IN  \/ RunInstruction(a, m) = Halt(Paid(m), op)
             \/ RunInstruction(a, w) = Halt(Paid(w), op)
             \/ /\ Answered(m, op) \in Seq(JoanValue) /\ Answered(w, op) \in Seq(JoanValue)
                /\ RunInstruction(a, m) = Went(m, Onward(Active(m), Answered(m, op)))
                /\ RunInstruction(a, w) = Went(w, Onward(Active(w), Answered(w, op)))
                /\ SameStack(o, Answered(m, op), Answered(w, op), NextTyping(a, m).stack)
<1> DEFINE op == Current(a, m).op
           t == TypingAt(a, Active(m))
           n == Arity(op)
           fault == <<"fault", op>>
           left == Active(m).stack
           right == Active(w).stack
<1>1. /\ Ready(a, m) /\ Ready(a, w) /\ Current(a, w) = Current(a, m)
      /\ TypingAt(a, Active(w)) = t /\ NextTyping(a, w) = NextTyping(a, m)
  BY TwinFacts DEF Twins
<1>2. CASE Answer(m, op) = fault \/ Answer(w, op) = fault
  <2>1. Answer(m, op) = fault => RunInstruction(a, m) = Halt(Paid(m), op)
    BY <1>1, OperatorRuns
  <2>2. Answer(w, op) = fault => RunInstruction(a, w) = Halt(Paid(w), op)
    BY <1>1, OperatorRuns
  <2> QED
    BY <1>2, <2>1, <2>2
<1>3. CASE Answer(m, op) # fault /\ Answer(w, op) # fault
  <2>1. /\ Answered(m, op) \in Seq(JoanValue)
        /\ RunInstruction(a, m) = Went(m, Onward(Active(m), Answered(m, op)))
    BY <1>1, <1>3, OperatorRuns
  <2>2. /\ Answered(w, op) \in Seq(JoanValue)
        /\ RunInstruction(a, w) = Went(w, Onward(Active(w), Answered(w, op)))
    BY <1>1, <1>3, OperatorRuns
  <2>3. Depth(t, n) /\ Answers(op, Answer(m, op)) /\ Answers(op, Answer(w, op))
    <3>1. Depth(t, n) /\ Answers(op, Answer(m, op))
      BY <1>1, OperatorTypes
    <3>2. Answers(op, Answer(w, op))
      BY <1>1, OperatorTypes
    <3> QED
      BY <3>1, <3>2
  <2>4. Answer(m, op) \in JoanValue /\ Answer(w, op) \in JoanValue
    BY <1>3, <2>3 DEF Answers
  <2>5. PICK e \in EntryRecord : /\ NextTyping(a, m).stack = Push1(t, n, e).stack
                                 /\ CanFlow(e.label, o) => \A k \in 1..n : CanFlow(Top(t, n)[k].label, o)
    BY <1>1, OperatorLabels
  <2>6. /\ t \in TypingRecord /\ left \in Seq(JoanValue) /\ right \in Seq(JoanValue)
        /\ Len(left) = Len(t.stack) /\ SameStack(o, left, right, t.stack)
    BY <1>1, ReadyFacts DEF Twins, SameFrame
  <2>7. n \in Nat
    BY DEF Arity
  <2>8. ASSUME CanFlow(e.label, o)
        PROVE  Answer(m, op) = Answer(w, op)
    <3>1. Given(left, n) = Given(right, n)
      BY <2>3, <2>5, <2>6, <2>7, <2>8, GivenSame
    <3> QED
      BY <3>1 DEF Answer
  <2>9. SameStack(o, Append(Take(left, n), Answer(m, op)), Append(Take(right, n), Answer(w, op)),
                  Push1(t, n, e).stack)
    <3> HIDE DEF op, t, n, left, right
    <3> QED
      BY <2>3, <2>4, <2>6, <2>7, <2>8, PushedSame
  <2> QED
    BY <2>1, <2>2, <2>5, <2>9 DEF Answered
<1> QED
  BY <1>2, <1>3

\* A store keeps the locals the same, for it keeps the label of the local.
LEMMA StoreSame ==
  ASSUME NEW a, NEW o, NEW m, NEW w, Twins(a, o, m, w), Current(a, m).op = "store"
  PROVE  \E fr \in FrameRecord, fw \in FrameRecord :
           /\ fr.function = Active(m).function /\ fw.function = Active(w).function
           /\ SameFrame(a, o, fr, fw)
           /\ RunInstruction(a, m) = Went(m, fr) /\ RunInstruction(a, w) = Went(w, fw)
<1> DEFINE i == Current(a, m)
           slot == Current(a, m).slot
           t == TypingAt(a, Active(m))
           f == FunctionAt(a, m)
           left == Active(m).stack
           right == Active(w).stack
           fr == Onward(StoredFrame(Active(m), slot, Given(left, 1)[1]), Take(left, 1))
           fw == Onward(StoredFrame(Active(w), slot, Given(right, 1)[1]), Take(right, 1))
<1>1. /\ Ready(a, m) /\ Ready(a, w) /\ Current(a, w) = i
      /\ Active(w).function = Active(m).function /\ Active(w).pc = Active(m).pc
      /\ FunctionAt(a, w) = f
  BY TwinFacts DEF Twins
<1>2. /\ fr \in FrameRecord /\ fr.function = Active(m).function /\ fr.pc = Active(m).pc + 1
      /\ fr.stack = Take(left, 1) /\ fr.locals = [Active(m).locals EXCEPT ![slot] = Given(left, 1)[1]]
      /\ RunInstruction(a, m) = Went(m, fr)
  BY <1>1, StoreRuns
<1>3. /\ fw \in FrameRecord /\ fw.function = Active(w).function /\ fw.pc = Active(w).pc + 1
      /\ fw.stack = Take(right, 1) /\ fw.locals = [Active(w).locals EXCEPT ![slot] = Given(right, 1)[1]]
      /\ RunInstruction(a, w) = Went(w, fw)
  BY <1>1, StoreRuns
<1>4. /\ t \in TypingRecord /\ t.sound /\ left \in Seq(JoanValue) /\ right \in Seq(JoanValue)
      /\ Len(left) = Len(t.stack) /\ SameStack(o, left, right, t.stack)
      /\ SameLocals(o, f, Active(m).locals, Active(w).locals)
      /\ DOMAIN Active(m).locals = DOMAIN f.locals
      /\ DOMAIN Active(w).locals = DOMAIN f.locals
  <2>1. t \in TypingRecord /\ t.sound /\ left \in Seq(JoanValue) /\ Len(left) = Len(t.stack)
    BY <1>1, ReadyFacts
  <2>2. right \in Seq(JoanValue)
    BY <1>1, ReadyFacts
  <2>3. /\ SameStack(o, left, right, t.stack)
        /\ SameLocals(o, f, Active(m).locals, Active(w).locals)
    BY DEF Twins, SameFrame, FunctionAt
  <2>4. DOMAIN Active(m).locals = DOMAIN f.locals
    BY <1>1, ReadyFacts DEF AtHand, Placed, FunctionAt
  <2>5. DOMAIN Active(w).locals = DOMAIN FunctionAt(a, w).locals
    BY <1>1, ReadyFacts DEF AtHand, Placed, FunctionAt
  <2> QED
    BY <1>1, <2>1, <2>2, <2>3, <2>4, <2>5
<1>5. /\ slot \in DOMAIN f.locals /\ Depth(t, 1)
      /\ CanFlow(Top(t, 1)[1].label, LabelAt(f, slot))
      /\ NextTyping(a, m) = Stored(t, slot)
  BY <1>1, <1>4, StoreTypes, NextFacts DEF NextTyping
<1>6. NextTyping(a, m).stack = Below(t, 1)
  BY <1>4, <1>5 DEF Stored, TypingRecord
<1>7. TypingAt(a, fr).stack = Below(t, 1)
  BY <1>1, <1>2, <1>6, NextAt
<1>8. SameStack(o, Take(left, 1), Take(right, 1), Below(t, 1))
  BY <1>4, <1>5, TakenSame
<1>9. CanFlow(LabelAt(f, slot), o) => Given(left, 1)[1] = Given(right, 1)[1]
  <2>1. \A k \in 1..1 : CanFlow(Top(t, 1)[k].label, o) => Given(left, 1)[k] = Given(right, 1)[k]
    <3>1. /\ t \in TypingRecord /\ Depth(t, 1) /\ left \in Seq(JoanValue) /\ right \in Seq(JoanValue)
          /\ Len(left) = Len(t.stack) /\ SameStack(o, left, right, t.stack) /\ 1 \in Nat
      BY <1>4, <1>5
    <3> HIDE DEF t, left, right
    <3> QED
      BY <3>1, TakenSame, ZenonT(40)
  <2>2. CanFlow(Top(t, 1)[1].label, o) => Given(left, 1)[1] = Given(right, 1)[1]
    BY <2>1
  <2> QED
    BY <1>5, <2>2, FlowsThrough
<1> HIDE DEF fr, fw
<1>10. SameLocals(o, f, fr.locals, fw.locals)
  <2>1. ASSUME NEW s \in DOMAIN f.locals, CanFlow(LabelAt(f, s), o)
        PROVE  fr.locals[s] = fw.locals[s]
    <3>1. CASE s = slot
      <4>1. fr.locals[s] = Given(left, 1)[1] /\ fw.locals[s] = Given(right, 1)[1]
        BY <1>2, <1>3, <1>4, <3>1
      <4> QED
        BY <1>9, <2>1, <3>1, <4>1
    <3>2. CASE s # slot
      <4>1. fr.locals[s] = Active(m).locals[s] /\ fw.locals[s] = Active(w).locals[s]
        BY <1>2, <1>3, <1>4, <3>2
      <4> QED
        BY <1>4, <2>1, <4>1 DEF SameLocals
    <3> QED
      BY <3>1, <3>2
  <2> QED
    BY <2>1 DEF SameLocals
<1>11. SameFrame(a, o, fr, fw)
  BY <1>1, <1>2, <1>3, <1>7, <1>8, <1>10 DEF SameFrame, FunctionAt
<1> QED
  BY <1>2, <1>3, <1>11

\* Instructions that stay in their frame keep twins the same.
LEMMA PlainSame ==
  ASSUME NEW a, NEW o, NEW m, NEW w, Twins(a, o, m, w),
         Current(a, m).op \notin {"call", "request", "return"}
  PROVE  \/ \E fr \in FrameRecord, fw \in FrameRecord :
              /\ fr.function = Active(m).function /\ fw.function = Active(w).function
              /\ SameFrame(a, o, fr, fw)
              /\ RunInstruction(a, m) = Went(m, fr) /\ RunInstruction(a, w) = Went(w, fw)
         \/ \E op \in Operations : \/ RunInstruction(a, m) = Halt(Paid(m), op)
                                   \/ RunInstruction(a, w) = Halt(Paid(w), op)
<1> DEFINE i == Current(a, m)
           t == TypingAt(a, Active(m))
           f == FunctionAt(a, m)
           left == Active(m).stack
           right == Active(w).stack
<1>1. /\ Ready(a, m) /\ Ready(a, w) /\ Current(a, w) = i
      /\ Active(w).function = Active(m).function /\ FunctionAt(a, w) = f
      /\ TypingAt(a, Active(w)) = t
  BY TwinFacts DEF Twins
<1>2. /\ t \in TypingRecord /\ t.sound /\ left \in Seq(JoanValue) /\ right \in Seq(JoanValue)
      /\ Len(left) = Len(t.stack) /\ SameStack(o, left, right, t.stack)
      /\ SameLocals(o, f, Active(m).locals, Active(w).locals)
      /\ Active(m) \in FrameRecord /\ Active(w) \in FrameRecord /\ i \in Instruction
      /\ f \in BytecodeFunction /\ InformationTable(a, f)
  <2>1. /\ t \in TypingRecord /\ t.sound /\ left \in Seq(JoanValue) /\ Len(left) = Len(t.stack)
        /\ Active(m) \in FrameRecord /\ i \in Instruction
        /\ f \in BytecodeFunction /\ InformationTable(a, f)
    BY <1>1, ReadyFacts
  <2>2. right \in Seq(JoanValue) /\ Active(w) \in FrameRecord
    BY <1>1, ReadyFacts
  <2>3. /\ SameStack(o, left, right, t.stack)
        /\ SameLocals(o, f, Active(m).locals, Active(w).locals)
    BY DEF Twins, SameFrame, FunctionAt
  <2> QED
    BY <2>1, <2>2, <2>3
<1>3. ASSUME NEW l \in Seq(JoanValue), NEW r \in Seq(JoanValue),
             SameStack(o, l, r, NextTyping(a, m).stack),
             RunInstruction(a, m) = Went(m, Onward(Active(m), l)),
             RunInstruction(a, w) = Went(w, Onward(Active(w), r))
      PROVE  \E fr \in FrameRecord, fw \in FrameRecord :
               /\ fr.function = Active(m).function /\ fw.function = Active(w).function
               /\ SameFrame(a, o, fr, fw)
               /\ RunInstruction(a, m) = Went(m, fr) /\ RunInstruction(a, w) = Went(w, fw)
  <2>1. SameFrame(a, o, Onward(Active(m), l), Onward(Active(w), r))
    BY <1>3, OnwardSame
  <2>2. /\ Onward(Active(m), l) \in FrameRecord /\ Onward(Active(m), l).function = Active(m).function
        /\ Onward(Active(w), r) \in FrameRecord /\ Onward(Active(w), r).function = Active(w).function
    BY <1>2, OnwardTyped
  <2> QED
    BY <1>3, <2>1, <2>2
<1>4. ASSUME NEW e \in EntryRecord, NextTyping(a, m) = Push1(t, 0, e),
             NEW v \in JoanValue, NEW u \in JoanValue, CanFlow(e.label, o) => v = u
      PROVE  SameStack(o, Append(left, v), Append(right, u), NextTyping(a, m).stack)
  <2>1. SameStack(o, Append(Take(left, 0), v), Append(Take(right, 0), u), Push1(t, 0, e).stack)
    BY <1>2, <1>4, DepthZero, PushedSame
  <2>2. Take(left, 0) = left /\ Take(right, 0) = right
    BY <1>2 DEF Take
  <2> QED
    BY <1>4, <2>1, <2>2
<1>5. CASE i.op = "push"
  <2> DEFINE e == Entry(TypeOf(i.value), Public)
  <2>1. NextTyping(a, m) = Push1(t, 0, e) /\ i.value \in JoanValue
    BY <1>2, <1>5, PushTypes, InstructionFields DEF NextTyping
  <2>2. e \in EntryRecord
    BY <2>1, TypeOfTyped, EntryTyped DEF JoanLabel
  <2>3. SameStack(o, Append(left, i.value), Append(right, i.value), NextTyping(a, m).stack)
    BY <1>4, <2>1, <2>2
  <2>4. /\ Append(left, i.value) \in Seq(JoanValue)
        /\ RunInstruction(a, m) = Went(m, Onward(Active(m), Append(left, i.value)))
    BY <1>1, <1>5, PushRuns
  <2>5. /\ Append(right, i.value) \in Seq(JoanValue)
        /\ RunInstruction(a, w) = Went(w, Onward(Active(w), Append(right, i.value)))
    BY <1>1, <1>5, PushRuns
  <2> QED
    BY <1>3, <2>3, <2>4, <2>5
<1>6. CASE i.op = "load"
  <2> DEFINE v == Active(m).locals[i.slot]
             u == Active(w).locals[i.slot]
             e == Entry(f.locals[i.slot], LabelAt(f, i.slot))
  <2>1. NextTyping(a, m) = Push1(t, 0, e) /\ i.slot \in DOMAIN f.locals
    BY <1>1, <1>2, <1>6, LoadTypes, NextFacts DEF NextTyping
  <2>2. e \in EntryRecord /\ e.label = LabelAt(f, i.slot)
    <3>1. f.locals[i.slot] \in JoanType
      BY <1>2, <2>1 DEF BytecodeFunction
    <3> QED
      BY <1>2, <2>1, <3>1, TableLabels, EntryTyped DEF Entry
  <2>3. CanFlow(e.label, o) => v = u
    BY <1>2, <2>1, <2>2 DEF SameLocals
  <2>4. /\ Append(left, v) \in Seq(JoanValue)
        /\ RunInstruction(a, m) = Went(m, Onward(Active(m), Append(left, v)))
        /\ i.slot \in DOMAIN Active(m).locals
    BY <1>1, <1>6, LoadRuns
  <2>5. /\ Append(right, u) \in Seq(JoanValue)
        /\ RunInstruction(a, w) = Went(w, Onward(Active(w), Append(right, u)))
        /\ i.slot \in DOMAIN Active(w).locals
    BY <1>1, <1>6, LoadRuns
  <2>6. v \in JoanValue /\ u \in JoanValue
    BY <1>2, <2>4, <2>5 DEF FrameRecord
  <2> HIDE DEF v, u, e
  <2>7. SameStack(o, Append(left, v), Append(right, u), NextTyping(a, m).stack)
    BY <1>4, <2>1, <2>2, <2>3, <2>6
  <2> QED
    BY <1>3, <2>4, <2>5, <2>7
<1>7. CASE i.op = "store"
  BY <1>7, StoreSame
<1>8. CASE i.op = "pop"
  <2>1. Depth(t, 1) /\ NextTyping(a, m) = Kept(t, 1)
    BY <1>1, <1>2, <1>8, PopTypes, NextFacts DEF NextTyping
  <2>2. NextTyping(a, m).stack = Below(t, 1)
    BY <1>2, <2>1 DEF Kept, TypingRecord
  <2>3. SameStack(o, Take(left, 1), Take(right, 1), NextTyping(a, m).stack)
    <3>1. SameStack(o, Take(left, 1), Take(right, 1), Below(t, 1))
      BY <1>2, <2>1, TakenSame
    <3> QED
      BY <2>2, <3>1
  <2>4. /\ Take(left, 1) \in Seq(JoanValue)
        /\ RunInstruction(a, m) = Went(m, Onward(Active(m), Take(left, 1)))
    BY <1>1, <1>8, PopRuns
  <2>5. /\ Take(right, 1) \in Seq(JoanValue)
        /\ RunInstruction(a, w) = Went(w, Onward(Active(w), Take(right, 1)))
    BY <1>1, <1>8, PopRuns
  <2> QED
    BY <1>3, <2>3, <2>4, <2>5
<1>9. CASE i.op \in Operations
  BY <1>3, <1>9, OperatorSame
<1> QED
  BY <1>2, <1>5, <1>6, <1>7, <1>8, <1>9, InstructionFields

\* The label of a parameter's local is the parameter's.
LEMMA LabelOfParameter ==
  ASSUME NEW a, NEW f \in BytecodeFunction, InformationTable(a, f), FrameTable(f),
         NEW s \in 1..Len(f.params)
  PROVE  ParameterLabel(f, s) = LabelAt(f, s)
<1>1. CASE ~IsFlow(a.ast)
  BY <1>1 DEF InformationTable, ParameterLabel, LabelAt
<1>2. CASE IsFlow(a.ast)
  <2>1. /\ f.paramLabels # Absent /\ f.localLabels # Absent
        /\ Len(f.localLabels[1]) = Len(f.locals)
        /\ f.paramLabels[1] = SubSeq(f.localLabels[1], 1, Len(f.params))
    BY <1>2 DEF InformationTable
  <2>2. f.localLabels[1] \in Seq(JoanLabel)
    <3>1. f.localLabels \in Optional(Seq(JoanLabel)) /\ f.localLabels # Absent
      BY <2>1 DEF BytecodeFunction
    <3> QED
      BY <3>1 DEF Optional, Absent
  <2>3. Len(f.params) \in Nat /\ Len(f.locals) \in Nat /\ Len(f.params) <= Len(f.locals)
    BY DEF BytecodeFunction, FrameTable
  <2>4. f.paramLabels[1][s] = f.localLabels[1][s]
    BY <2>1, <2>2, <2>3
  <2> QED
    BY <2>1, <2>4 DEF ParameterLabel, LabelAt
<1> QED
  BY <1>1, <1>2

\* Frames opened with arguments alike to the observer.
LEMMA FrameSame ==
  ASSUME NEW a, Verified(a), NEW o, NEW k \in DOMAIN a.functions,
         NEW left \in Seq(JoanValue), NEW right \in Seq(JoanValue),
         Len(left) = Len(a.functions[k].params), Len(right) = Len(left),
         \A i \in 1..Len(left) : CanFlow(ParameterLabel(a.functions[k], i), o) => left[i] = right[i]
  PROVE  SameFrame(a, o, Frame(a.functions[k], k, left), Frame(a.functions[k], k, right))
<1> DEFINE f == a.functions[k]
           fr == Frame(f, k, left)
           fw == Frame(f, k, right)
<1>1. f \in BytecodeFunction /\ InformationTable(a, f) /\ FrameTable(f)
  BY VerifiedTables
<1>2. /\ fr.function = k /\ fr.pc = 1 /\ fr.stack = <<>>
      /\ fr.locals = [s \in DOMAIN f.locals |-> IF s <= Len(left) THEN left[s] ELSE UnitValue]
  BY DEF Frame
<1>3. /\ fw.function = k /\ fw.pc = 1 /\ fw.stack = <<>>
      /\ fw.locals = [s \in DOMAIN f.locals |-> IF s <= Len(right) THEN right[s] ELSE UnitValue]
  BY DEF Frame
<1> HIDE DEF fr, fw
<1>4. ASSUME NEW s \in DOMAIN f.locals, CanFlow(LabelAt(f, s), o)
      PROVE  fr.locals[s] = fw.locals[s]
  <2>1. CASE s <= Len(left)
    <3>1. s \in 1..Len(left)
      BY <1>1, <2>1 DEF BytecodeFunction
    <3>2. ParameterLabel(f, s) = LabelAt(f, s)
      BY <1>1, <3>1, LabelOfParameter
    <3>3. left[s] = right[s]
      BY <1>4, <3>1, <3>2
    <3> QED
      BY <1>2, <1>3, <2>1, <3>3
  <2>2. CASE ~(s <= Len(left))
    BY <1>2, <1>3, <2>2
  <2> QED
    BY <2>1, <2>2
<1>5. SameLocals(o, f, fr.locals, fw.locals)
  BY <1>4 DEF SameLocals
<1>6. SameStack(o, fr.stack, fw.stack, TypingAt(a, fr).stack)
  BY <1>2, <1>3 DEF SameStack
<1>7. SameFrame(a, o, fr, fw)
  BY <1>2, <1>3, <1>5, <1>6 DEF SameFrame
<1> QED
  BY <1>7 DEF fr, fw

\* What arguments leave behind is the same, and so is each one that is visible.
LEMMA TakingSame ==
  ASSUME NEW a, NEW o, NEW m, NEW w, Twins(a, o, m, w), Current(a, m).op \in {"call", "request"}
  PROVE  LET n == Current(a, m).count
             t == TypingAt(a, Active(m))
         IN  /\ SameFrame(a, o, Taking(a, m), Taking(a, w))
             /\ Depth(t, n) /\ n \in Nat
             /\ \A k \in 1..n : CanFlow(Top(t, n)[k].label, o) =>
                  Given(Active(m).stack, n)[k] = Given(Active(w).stack, n)[k]
             /\ (\A k \in 1..n : CanFlow(Top(t, n)[k].label, o)) =>
                  Given(Active(m).stack, n) = Given(Active(w).stack, n)
<1> DEFINE n == Current(a, m).count
           t == TypingAt(a, Active(m))
           left == Active(m).stack
           right == Active(w).stack
<1>1. Ready(a, m) /\ Ready(a, w) /\ Current(a, w) = Current(a, m)
  BY TwinFacts DEF Twins
<1>2. /\ t \in TypingRecord /\ left \in Seq(JoanValue) /\ Len(left) = Len(t.stack)
      /\ right \in Seq(JoanValue) /\ SameStack(o, left, right, t.stack)
  <2>1. t \in TypingRecord /\ left \in Seq(JoanValue) /\ Len(left) = Len(t.stack)
    BY <1>1, ReadyFacts
  <2>2. right \in Seq(JoanValue)
    BY <1>1, ReadyFacts
  <2>3. SameStack(o, left, right, t.stack)
    BY DEF Twins, SameFrame
  <2> QED
    BY <2>1, <2>2, <2>3
<1>3. /\ n \in Nat /\ Depth(t, n)
      /\ Take(left, n) \in Seq(JoanValue) /\ Len(Take(left, n)) = Len(Below(t, n))
  BY <1>1, CallFacts, RequestFacts
<1>4. Take(right, n) \in Seq(JoanValue)
  BY <1>1, CallFacts, RequestFacts
<1>5. SameStack(o, Take(left, n), Take(right, n), Below(t, n))
  <2> HIDE DEF n, t, left, right
  <2> QED
    BY <1>2, <1>3, TakenSame
<1>6. SameStack(o, Take(left, n), Take(right, n), NextTyping(a, m).stack)
  <2>1. CASE Current(a, m).op = "request"
    <3>1. NextTyping(a, m).stack = Below(t, n)
      BY <1>1, <2>1, RequestFacts
    <3> QED
      BY <1>5, <3>1
  <2>2. CASE Current(a, m).op = "call"
    <3> DEFINE e == Result(a, Current(a, m).callee)
    <3>1. NextTyping(a, m).stack = Append(Below(t, n), e) /\ e \in EntryRecord
      BY <1>1, <2>2, CallFacts
    <3>2. Below(t, n) \in Seq(EntryRecord)
      BY <1>2, <1>3, BelowTyped
    <3> HIDE DEF e
    <3>3. \A i \in 1..Len(Below(t, n)) : Append(Below(t, n), e)[i] = Below(t, n)[i]
      BY <3>1, <3>2, AppendProperties
    <3> HIDE DEF n, t, left, right
    <3> QED
      BY <1>3, <1>5, <3>1, <3>3 DEF SameStack
  <2> QED
    BY <2>1, <2>2
<1>7. SameFrame(a, o, Onward(Active(m), Take(left, n)), Onward(Active(w), Take(right, n)))
  BY <1>3, <1>4, <1>6, OnwardSame
<1>8. SameFrame(a, o, Taking(a, m), Taking(a, w))
  BY <1>1, <1>7 DEF Taking
<1>9. \A k \in 1..n : CanFlow(Top(t, n)[k].label, o) => Given(left, n)[k] = Given(right, n)[k]
  <2> HIDE DEF n, t, left, right
  <2> QED
    BY <1>2, <1>3, TakenSame
<1>10. (\A k \in 1..n : CanFlow(Top(t, n)[k].label, o)) => Given(left, n) = Given(right, n)
  <2> HIDE DEF n, t, left, right
  <2> QED
    BY <1>2, <1>3, GivenSame
<1> QED
  BY <1>3, <1>8, <1>9, <1>10

\* So are the frames of the callees.
LEMMA OpenedSame ==
  ASSUME NEW a, NEW o, NEW m, NEW w, Twins(a, o, m, w), Current(a, m).op = "call"
  PROVE  SameFrame(a, o, Opened(a, m), Opened(a, w))
<1> DEFINE i == Current(a, m)
           n == Current(a, m).count
           callee == Current(a, m).callee
           target == a.functions[callee]
           t == TypingAt(a, Active(m))
           left == Given(Active(m).stack, n)
           right == Given(Active(w).stack, n)
<1>1. /\ Ready(a, m) /\ Ready(a, w) /\ Current(a, w) = i /\ Verified(a)
      /\ t \in TypingRecord /\ t.sound /\ FunctionAt(a, m) = a.functions[Active(m).function]
  BY TwinFacts, ReadyFacts DEF Twins
<1>2. /\ callee \in DOMAIN a.functions /\ n \in Nat /\ n = Len(target.params) /\ Depth(t, n)
      /\ left \in Seq(JoanValue) /\ Len(left) = n
  BY <1>1, CallFacts
<1>3. right \in Seq(JoanValue) /\ Len(right) = n
  BY <1>1, CallFacts
<1>4. ASSUME NEW k \in 1..n, CanFlow(ParameterLabel(target, k), o)
      PROVE  CanFlow(Top(t, n)[k].label, o)
  <2>1. CASE IsFlow(a.ast)
    <3>1. TypeInstruction(a, FunctionAt(a, m), t, i).sound
      BY <1>1, NextFacts DEF NextTyping
    <3>2. target.paramLabels # Absent => CanFlow(Top(t, n)[k].label, target.paramLabels[1][k])
      BY <1>1, <3>1, CallArgumentTypes
    <3>3. target.paramLabels # Absent
      BY <1>1, <1>2, <2>1, VerifiedTables DEF InformationTable
    <3>4. CanFlow(Top(t, n)[k].label, ParameterLabel(target, k))
      BY <3>2, <3>3 DEF ParameterLabel
    <3> QED
      BY <1>4, <3>4, FlowsThrough
  <2>2. CASE ~IsFlow(a.ast)
    <3>1. AllPublic(t)
      <4>1. /\ Active(m).function \in DOMAIN a.functions
            /\ Active(m).pc \in 1..Len(CodeOf(a, Active(m).function))
            /\ Len(CodeOf(a, Active(m).function)) \in Nat
        BY <1>1, ReadyFacts
      <4>2. Active(m).pc - 1 \in 0..Len(CodeOf(a, Active(m).function))
        BY <4>1
      <4> QED
        BY <1>1, <2>2, <4>1, <4>2, AfterPublic DEF TypingAt
    <3>2. t \in TypingRecord /\ n \in Nat /\ Depth(t, n)
      BY <1>1, <1>2
    <3> HIDE DEF t, n
    <3>3. Top(t, n)[k] = t.stack[Len(t.stack) - n + k] /\ Len(t.stack) \in Nat
      BY <3>2, BelowTyped DEF TypingRecord
    <3>4. Len(t.stack) - n + k \in 1..Len(t.stack)
      BY <3>2, <3>3 DEF Depth
    <3>5. Top(t, n)[k].label = Public
      BY <3>1, <3>3, <3>4 DEF AllPublic
    <3> QED
      BY <3>5 DEF CanFlow
  <2> QED
    BY <2>1, <2>2
<1>5. \A k \in 1..n : CanFlow(Top(t, n)[k].label, o) => left[k] = right[k]
  BY TakingSame
<1>6. \A k \in 1..Len(left) : CanFlow(ParameterLabel(target, k), o) => left[k] = right[k]
  BY <1>2, <1>4, <1>5
<1> HIDE DEF n, callee, left, right
<1>7. SameFrame(a, o, Frame(a.functions[callee], callee, left), Frame(a.functions[callee], callee, right))
  BY <1>1, <1>2, <1>3, <1>6, FrameSame
<1>8. /\ Opened(a, m) = Frame(a.functions[callee], callee, left)
      /\ Opened(a, w) = Frame(a.functions[callee], callee, right)
  BY <1>1 DEF Opened, n, callee, left, right
<1> QED
  BY <1>7, <1>8

\* A request the observer may see is the same in both executions.
LEMMA RecordedSame ==
  ASSUME NEW a, NEW o, NEW m, NEW w, Twins(a, o, m, w), Current(a, m).op = "request",
         Len(m.requests) = Len(w.requests)
  PROVE  LET q == Recorded(a, m, Current(a, m))
             p == Recorded(a, w, Current(a, w))
         IN  /\ q.label = p.label
             /\ CanFlow(LabelOf(q.label), o) => q = p
<1> DEFINE i == Current(a, m)
           n == Current(a, m).count
           t == TypingAt(a, Active(m))
           left == Active(m).stack
           right == Active(w).stack
           q == Recorded(a, m, Current(a, m))
           p == Recorded(a, w, Current(a, w))
<1>1. /\ Ready(a, m) /\ Ready(a, w) /\ Current(a, w) = i
      /\ Active(w).function = Active(m).function
      /\ t \in TypingRecord /\ t.sound
  BY TwinFacts, ReadyFacts DEF Twins
<1>2. q.label = i.label /\ p.label = i.label
  BY <1>1 DEF Recorded
<1>3. ASSUME CanFlow(LabelOf(i.label), o)
      PROVE  Given(left, n) = Given(right, n)
  <2>1. TypeInstruction(a, FunctionAt(a, m), t, i).sound
    BY <1>1, NextFacts DEF NextTyping
  <2>2. \A e \in ToSet(Top(t, n)) : CanFlow(e.label, LabelOf(i.label))
    BY <1>1, <2>1, RequestTypes
  <2>3. Depth(t, n) /\ n \in Nat
    BY TakingSame
  <2>4. Top(t, n) \in Seq(EntryRecord) /\ Len(Top(t, n)) = n
    BY <1>1, <2>3, BelowTyped
  <2>5. ASSUME NEW k \in 1..n
        PROVE  CanFlow(Top(t, n)[k].label, o)
    <3>1. Top(t, n)[k] \in ToSet(Top(t, n))
      <4> HIDE DEF n, t
      <4> QED
        BY <2>4 DEF ToSet
    <3>2. CanFlow(Top(t, n)[k].label, LabelOf(i.label))
      BY <2>2, <3>1
    <3> QED
      BY <1>3, <3>2, FlowsThrough
  <2> QED
    BY <2>5, TakingSame
<1>4. CanFlow(LabelOf(i.label), o) => q = p
  BY <1>1, <1>3 DEF Recorded
<1> QED
  BY <1>2, <1>4

\* A result the observer may see is the same in both executions.
LEMMA ReturnedSame ==
  ASSUME NEW a, NEW o, NEW m, NEW w, Twins(a, o, m, w), Current(a, m).op = "return",
         CanFlow(LabelOf(FunctionAt(a, m).retLabel), o)
  PROVE  Returned(m) = Returned(w)
<1> DEFINE t == TypingAt(a, Active(m))
<1>1. Ready(a, m)
  BY DEF Twins
<1>2. Len(Active(m).stack) = 1 /\ CanFlow(t.stack[1].label, LabelOf(FunctionAt(a, m).retLabel))
  BY <1>1, ReturnFacts
<1>3. CanFlow(t.stack[1].label, o)
  BY <1>2, FlowsThrough
<1>4. SameStack(o, Active(m).stack, Active(w).stack, t.stack)
  BY DEF Twins, SameFrame
<1> QED
  BY <1>2, <1>3, <1>4 DEF SameStack, Returned

\* Callers that go on with a result are the same.
LEMMA ResumedSame ==
  ASSUME NEW a, NEW o, NEW m, NEW w, Twins(a, o, m, w), Current(a, m).op = "return",
         Len(m.frames) # 1, Len(w.frames) = Len(m.frames),
         SameFrame(a, o, m.frames[Len(m.frames) - 1], w.frames[Len(m.frames) - 1])
  PROVE  SameFrame(a, o, Resumed(m), Resumed(w))
<1> DEFINE below == m.frames[Len(m.frames) - 1]
           under == w.frames[Len(m.frames) - 1]
           k == Active(m).function
           entries == TypingAt(a, below).stack
<1>1. Ready(a, m) /\ Ready(a, w) /\ Current(a, w).op = "return" /\ FunctionAt(a, m) = a.functions[k]
  BY TwinFacts DEF Twins, FunctionAt
<1>2. /\ below \in FrameRecord /\ Awaits(a, below, k)
      /\ Resumed(m).function = below.function /\ Resumed(m).pc = below.pc
      /\ Resumed(m).locals = below.locals /\ Resumed(m).stack = Append(below.stack, Returned(m))
      /\ TypingAt(a, Resumed(m)) = TypingAt(a, below)
  BY <1>1, ResumedFits
<1>3. /\ under \in FrameRecord
      /\ Resumed(w).function = under.function /\ Resumed(w).pc = under.pc
      /\ Resumed(w).locals = under.locals /\ Resumed(w).stack = Append(under.stack, Returned(w))
  BY <1>1, ResumedFits
<1>4. /\ below.function = under.function /\ below.pc = under.pc
      /\ SameStack(o, below.stack, under.stack, entries)
      /\ SameLocals(o, a.functions[below.function], below.locals, under.locals)
  BY DEF SameFrame
<1>5. entries[Len(below.stack) + 1].label = LabelOf(a.functions[k].retLabel)
  BY <1>2 DEF Awaits, Result, Entry
<1>6. CanFlow(entries[Len(below.stack) + 1].label, o) => Returned(m) = Returned(w)
  BY <1>1, <1>5, ReturnedSame
<1>7. /\ Returned(m) \in JoanValue /\ Returned(w) \in JoanValue
      /\ below.stack \in Seq(JoanValue) /\ under.stack \in Seq(JoanValue)
  <2>1. Returned(m) \in JoanValue
    BY <1>1, ReturnFacts
  <2>2. Returned(w) \in JoanValue
    BY <1>1, ReturnFacts
  <2>3. below.stack \in Seq(JoanValue) /\ under.stack \in Seq(JoanValue)
    BY <1>2, <1>3 DEF FrameRecord
  <2> QED
    BY <2>1, <2>2, <2>3
<1> HIDE DEF below, under, entries
<1>8. SameStack(o, Append(below.stack, Returned(m)), Append(under.stack, Returned(w)), entries)
  <2> DEFINE l == below.stack
             r == under.stack
             v == Returned(m)
             u == Returned(w)
  <2>1. l \in Seq(JoanValue) /\ r \in Seq(JoanValue) /\ v \in JoanValue /\ u \in JoanValue
    BY <1>7
  <2>2. SameStack(o, l, r, entries) /\ (CanFlow(entries[Len(l) + 1].label, o) => v = u)
    BY <1>4, <1>6
  <2> HIDE DEF l, r, v, u
  <2>3. Len(l) \in Nat /\ Len(r) = Len(l)
    BY <2>1, <2>2, LenProperties DEF SameStack
  <2>4. /\ Len(Append(l, v)) = Len(l) + 1 /\ Append(l, v)[Len(l) + 1] = v
        /\ \A i \in 1..Len(l) : Append(l, v)[i] = l[i]
    BY <2>1, AppendProperties
  <2>5. /\ Len(Append(r, u)) = Len(l) + 1 /\ Append(r, u)[Len(l) + 1] = u
        /\ \A i \in 1..Len(l) : Append(r, u)[i] = r[i]
    BY <2>1, <2>3, AppendProperties
  <2>6. \A i \in 1..(Len(l) + 1) : i \in 1..Len(l) \/ i = Len(l) + 1
    BY <2>3
  <2>7. SameStack(o, Append(l, v), Append(r, u), entries)
    BY <2>2, <2>4, <2>5, <2>6 DEF SameStack
  <2> QED
    BY <2>7 DEF l, r, v, u
<1>9. entries = TypingAt(a, Resumed(m)).stack
  BY <1>2 DEF entries
<1> QED
  BY <1>2, <1>3, <1>4, <1>8, <1>9 DEF SameFrame

-----------------------------------------------------------------------------
\* Whole executions side by side: in step until one stops or both complete.
SameFrames(a, o, left, right) ==
  /\ Len(left) = Len(right)
  /\ \A d \in 1..Len(left) : SameFrame(a, o, left[d], right[d])
SameRequests(o, left, right) ==
  /\ Len(left) = Len(right)
  /\ \A i \in 1..Len(left) : /\ left[i].label = right[i].label
                             /\ CanFlow(LabelOf(left[i].label), o) => left[i] = right[i]
InStep(a, o, k, m, w) ==
  /\ Running(m) /\ Running(w)
  /\ SameFrames(a, o, m.frames, w.frames) /\ m.frames[1].function = k
  /\ m.remaining = w.remaining /\ m.executed = w.executed
  /\ SameRequests(o, m.requests, w.requests)
Finished(a, o, k, m, w) ==
  /\ m.status = "completed" /\ w.status = "completed"
  /\ CanFlow(LabelOf(a.functions[k].retLabel), o) => m.result = w.result
  /\ m.executed = w.executed
  /\ SameRequests(o, m.requests, w.requests)
Stopped(m) == m.status \notin {"running", "completed"}
Related(a, o, k, m, w) ==
  InStep(a, o, k, m, w) \/ Finished(a, o, k, m, w) \/ Stopped(m) \/ Stopped(w)

\* A last frame that is replaced leaves as many frames.
LEMMA LastReplaced ==
  ASSUME NEW left \in Seq(FrameRecord), Len(left) # 0, NEW fr \in FrameRecord
  PROVE  /\ [left EXCEPT ![Len(left)] = fr] \in Seq(FrameRecord)
         /\ Len([left EXCEPT ![Len(left)] = fr]) = Len(left)
<1>1. Len(left) \in Nat \ {0}
  BY LenProperties
<1> QED
  BY <1>1

LEMMA ReplacedSame ==
  ASSUME NEW a, NEW o, NEW left \in Seq(FrameRecord), NEW right \in Seq(FrameRecord),
         SameFrames(a, o, left, right), Len(left) # 0,
         NEW fr \in FrameRecord, NEW fw \in FrameRecord, SameFrame(a, o, fr, fw),
         fr.function = left[Len(left)].function
  PROVE  /\ SameFrames(a, o, [left EXCEPT ![Len(left)] = fr], [right EXCEPT ![Len(right)] = fw])
         /\ [left EXCEPT ![Len(left)] = fr][1].function = left[1].function
<1> DEFINE n == Len(left)
           l == [left EXCEPT ![n] = fr]
           r == [right EXCEPT ![n] = fw]
<1>1. n \in Nat \ {0} /\ Len(right) = n
  BY LenProperties DEF SameFrames
<1>2. /\ Len(l) = n /\ l \in Seq(FrameRecord) /\ l[n] = fr
      /\ \A d \in 1..n : d # n => l[d] = left[d]
  BY <1>1
<1>3. /\ Len(r) = n /\ r \in Seq(FrameRecord) /\ r[n] = fw
      /\ \A d \in 1..n : d # n => r[d] = right[d]
  BY <1>1
<1> HIDE DEF l, r
<1>4. ASSUME NEW d \in 1..n
      PROVE  SameFrame(a, o, l[d], r[d])
  <2>1. CASE d = n
    BY <1>2, <1>3, <2>1
  <2>2. CASE d # n
    BY <1>2, <1>3, <2>2 DEF SameFrames
  <2> QED
    BY <2>1, <2>2
<1>5. SameFrames(a, o, l, r)
  BY <1>2, <1>3, <1>4 DEF SameFrames
<1>6. l[1].function = left[1].function
  BY <1>1, <1>2
<1> QED
  BY <1>1, <1>2, <1>3, <1>5, <1>6 DEF l, r

LEMMA InStepFacts ==
  ASSUME NEW a, Verified(a), NEW o, NEW k, NEW m, NEW w, MachineFits(a, m), MachineFits(a, w),
         InStep(a, o, k, m, w), m.remaining # 0
  PROVE  /\ Twins(a, o, m, w) /\ m \in MachineRecord /\ w \in MachineRecord
         /\ m.frames \in Seq(FrameRecord) /\ w.frames \in Seq(FrameRecord)
         /\ Len(m.frames) \in Nat \ {0} /\ Len(w.frames) = Len(m.frames)
         /\ Active(m) = m.frames[Len(m.frames)] /\ Active(w) = w.frames[Len(m.frames)]
<1>1. /\ m \in MachineRecord /\ w \in MachineRecord
      /\ FramesFit(a, m.frames) /\ FramesFit(a, w.frames) /\ w.remaining # 0
  BY DEF MachineFits, InStep
<1>2. Ready(a, m) /\ Ready(a, w)
  BY <1>1 DEF Ready
<1>3. /\ Len(m.frames) \in Nat \ {0} /\ Active(m) = m.frames[Len(m.frames)]
      /\ Active(w) = w.frames[Len(w.frames)]
      /\ m.frames \in Seq(FrameRecord) /\ w.frames \in Seq(FrameRecord)
  BY <1>1, ActiveTyped DEF FramesFit
<1>4. SameFrames(a, o, m.frames, w.frames)
  BY DEF InStep
<1>5. Len(w.frames) = Len(m.frames) /\ SameFrame(a, o, Active(m), Active(w))
  BY <1>3, <1>4 DEF SameFrames
<1> QED
  BY <1>1, <1>2, <1>3, <1>5 DEF Twins

\* One lemma per kind of instruction: twins stay in step, or one stops.
LEMMA WentInStep ==
  ASSUME NEW a, Verified(a), NEW o, NEW k, NEW m, NEW w, MachineFits(a, m), MachineFits(a, w),
         InStep(a, o, k, m, w), m.remaining # 0,
         NEW fr \in FrameRecord, NEW fw \in FrameRecord, SameFrame(a, o, fr, fw),
         fr.function = Active(m).function, fw.function = Active(w).function
  PROVE  InStep(a, o, k, Went(m, fr), Went(w, fw))
<1>1. /\ Twins(a, o, m, w) /\ m.frames \in Seq(FrameRecord) /\ w.frames \in Seq(FrameRecord)
      /\ Len(m.frames) # 0 /\ Active(m) = m.frames[Len(m.frames)]
  BY InStepFacts
<1>2. /\ Went(m, fr).frames = [m.frames EXCEPT ![Len(m.frames)] = fr]
      /\ Went(m, fr).requests = m.requests /\ Went(m, fr).status = m.status
      /\ Went(m, fr).executed = m.executed + 1 /\ Went(m, fr).remaining = m.remaining - 1
  BY <1>1, WentFits DEF Twins
<1>3. /\ Went(w, fw).frames = [w.frames EXCEPT ![Len(w.frames)] = fw]
      /\ Went(w, fw).requests = w.requests /\ Went(w, fw).status = w.status
      /\ Went(w, fw).executed = w.executed + 1 /\ Went(w, fw).remaining = w.remaining - 1
  BY <1>1, WentFits DEF Twins
<1>4. /\ SameFrames(a, o, m.frames, w.frames) /\ m.frames[1].function = k
      /\ m.remaining = w.remaining /\ m.executed = w.executed
      /\ SameRequests(o, m.requests, w.requests) /\ Running(m) /\ Running(w)
  BY DEF InStep
<1>5. /\ SameFrames(a, o, Went(m, fr).frames, Went(w, fw).frames)
      /\ Went(m, fr).frames[1].function = k
  BY <1>1, <1>2, <1>3, <1>4, ReplacedSame
<1> QED
  BY <1>2, <1>3, <1>4, <1>5 DEF InStep, Running

LEMMA CallInStep ==
  ASSUME NEW a, Verified(a), NEW o, NEW k, NEW m, NEW w, MachineFits(a, m), MachineFits(a, w),
         InStep(a, o, k, m, w), m.remaining # 0, Current(a, m).op = "call"
  PROVE  InStep(a, o, k, RunInstruction(a, m), RunInstruction(a, w))
<1> DEFINE left == [m.frames EXCEPT ![Len(m.frames)] = Taking(a, m)]
           right == [w.frames EXCEPT ![Len(w.frames)] = Taking(a, w)]
           more == Opened(a, m)
           also == Opened(a, w)
           n == Len(m.frames)
<1>1. /\ Twins(a, o, m, w) /\ Current(a, w).op = "call" /\ Ready(a, m) /\ Ready(a, w)
      /\ m.frames \in Seq(FrameRecord) /\ w.frames \in Seq(FrameRecord)
      /\ n \in Nat \ {0} /\ Active(m) = m.frames[n]
  BY InStepFacts, TwinFacts DEF Twins
<1>2. /\ RunInstruction(a, m).frames = Append(left, more)
      /\ RunInstruction(a, m).requests = m.requests /\ RunInstruction(a, m).status = m.status
      /\ RunInstruction(a, m).executed = m.executed + 1
      /\ RunInstruction(a, m).remaining = m.remaining - 1
  BY <1>1, CallStep
<1>3. /\ RunInstruction(a, w).frames = Append(right, also)
      /\ RunInstruction(a, w).requests = w.requests /\ RunInstruction(a, w).status = w.status
      /\ RunInstruction(a, w).executed = w.executed + 1
      /\ RunInstruction(a, w).remaining = w.remaining - 1
  BY <1>1, CallStep
<1>4. /\ SameFrames(a, o, m.frames, w.frames) /\ m.frames[1].function = k
      /\ m.remaining = w.remaining /\ m.executed = w.executed
      /\ SameRequests(o, m.requests, w.requests) /\ Running(m) /\ Running(w)
  BY DEF InStep
<1>5. /\ Taking(a, m) \in FrameRecord /\ Taking(a, m).function = Active(m).function
      /\ more \in FrameRecord
  BY <1>1, CallFitsDepth, CallRuns, CallOpens
<1>6. Taking(a, w) \in FrameRecord /\ also \in FrameRecord
  BY <1>1, CallFitsDepth, CallRuns, CallOpens
<1>7. SameFrame(a, o, Taking(a, m), Taking(a, w)) /\ SameFrame(a, o, more, also)
  BY <1>1, TakingSame, OpenedSame
<1>8. /\ SameFrames(a, o, left, right) /\ left[1].function = k /\ Len(left) = n
      /\ left \in Seq(FrameRecord) /\ right \in Seq(FrameRecord)
  <2> DEFINE fr == Taking(a, m)
             fw == Taking(a, w)
  <2>1. /\ m.frames \in Seq(FrameRecord) /\ w.frames \in Seq(FrameRecord)
        /\ SameFrames(a, o, m.frames, w.frames) /\ Len(m.frames) # 0
        /\ fr \in FrameRecord /\ fw \in FrameRecord /\ SameFrame(a, o, fr, fw)
        /\ fr.function = m.frames[Len(m.frames)].function
    BY <1>1, <1>4, <1>5, <1>6, <1>7
  <2> HIDE DEF fr, fw
  <2>2. /\ SameFrames(a, o, [m.frames EXCEPT ![Len(m.frames)] = fr], [w.frames EXCEPT ![Len(w.frames)] = fw])
        /\ [m.frames EXCEPT ![Len(m.frames)] = fr][1].function = m.frames[1].function
    BY <2>1, ReplacedSame
  <2>3. /\ [m.frames EXCEPT ![Len(m.frames)] = fr] \in Seq(FrameRecord)
        /\ Len([m.frames EXCEPT ![Len(m.frames)] = fr]) = Len(m.frames)
    BY <2>1, LastReplaced
  <2>4. [w.frames EXCEPT ![Len(w.frames)] = fw] \in Seq(FrameRecord)
    BY <2>1, LastReplaced DEF SameFrames
  <2> QED
    BY <1>4, <2>2, <2>3, <2>4 DEF fr, fw
<1> HIDE DEF left, right, more, also, n
<1>9. Len(right) = n /\ \A d \in 1..n : SameFrame(a, o, left[d], right[d])
  BY <1>8 DEF SameFrames
<1>10. /\ Len(Append(left, more)) = n + 1 /\ Append(left, more)[n + 1] = more
       /\ \A d \in 1..n : Append(left, more)[d] = left[d]
  BY <1>5, <1>8, AppendProperties
<1>11. /\ Len(Append(right, also)) = n + 1 /\ Append(right, also)[n + 1] = also
       /\ \A d \in 1..n : Append(right, also)[d] = right[d]
  BY <1>6, <1>8, <1>9, AppendProperties
<1>12. /\ \A d \in 1..(n + 1) : d \in 1..n \/ d = n + 1
       /\ 1 \in 1..n
  BY <1>1
<1>13. /\ SameFrames(a, o, Append(left, more), Append(right, also))
       /\ Append(left, more)[1].function = k
  BY <1>7, <1>8, <1>9, <1>10, <1>11, <1>12 DEF SameFrames
<1> QED
  BY <1>2, <1>3, <1>4, <1>13 DEF InStep, Running

LEMMA RequestInStep ==
  ASSUME NEW a, Verified(a), NEW o, NEW k, NEW m, NEW w, MachineFits(a, m), MachineFits(a, w),
         InStep(a, o, k, m, w), m.remaining # 0, Current(a, m).op = "request"
  PROVE  InStep(a, o, k, RunInstruction(a, m), RunInstruction(a, w))
<1> DEFINE q == Recorded(a, m, Current(a, m))
           p == Recorded(a, w, Current(a, w))
           left == m.requests
           right == w.requests
           n == Len(m.requests)
<1>1. /\ Twins(a, o, m, w) /\ Current(a, w).op = "request" /\ Ready(a, m) /\ Ready(a, w)
      /\ m.frames \in Seq(FrameRecord) /\ w.frames \in Seq(FrameRecord)
      /\ Len(m.frames) # 0 /\ Active(m) = m.frames[Len(m.frames)]
      /\ left \in Seq(RequestRecord) /\ right \in Seq(RequestRecord)
  BY InStepFacts, TwinFacts DEF Twins, MachineRecord
<1>2. /\ RunInstruction(a, m).frames = [m.frames EXCEPT ![Len(m.frames)] = Taking(a, m)]
      /\ RunInstruction(a, m).requests = Append(left, q) /\ RunInstruction(a, m).status = m.status
      /\ RunInstruction(a, m).executed = m.executed + 1
      /\ RunInstruction(a, m).remaining = m.remaining - 1
  BY <1>1, RequestStep
<1>3. /\ RunInstruction(a, w).frames = [w.frames EXCEPT ![Len(w.frames)] = Taking(a, w)]
      /\ RunInstruction(a, w).requests = Append(right, p) /\ RunInstruction(a, w).status = w.status
      /\ RunInstruction(a, w).executed = w.executed + 1
      /\ RunInstruction(a, w).remaining = w.remaining - 1
  BY <1>1, RequestStep, ZenonT(40)
<1>4. /\ SameFrames(a, o, m.frames, w.frames) /\ m.frames[1].function = k
      /\ m.remaining = w.remaining /\ m.executed = w.executed
      /\ SameRequests(o, left, right) /\ Running(m) /\ Running(w)
  BY DEF InStep
<1>5. /\ Taking(a, m) \in FrameRecord /\ Taking(a, m).function = Active(m).function
      /\ q \in RequestRecord
  BY <1>1, RequestRuns
<1>6. Taking(a, w) \in FrameRecord /\ p \in RequestRecord
  BY <1>1, RequestRuns
<1>7. /\ SameFrame(a, o, Taking(a, m), Taking(a, w))
      /\ q.label = p.label /\ (CanFlow(LabelOf(q.label), o) => q = p)
  <2>1. Len(left) = Len(right)
    BY <1>4 DEF SameRequests
  <2>2. SameFrame(a, o, Taking(a, m), Taking(a, w))
    BY <1>1, TakingSame
  <2>3. q.label = p.label /\ (CanFlow(LabelOf(q.label), o) => q = p)
    BY <1>1, <2>1, RecordedSame
  <2> QED
    BY <2>2, <2>3
<1>8. /\ SameFrames(a, o, RunInstruction(a, m).frames, RunInstruction(a, w).frames)
      /\ RunInstruction(a, m).frames[1].function = k
  <2> DEFINE fr == Taking(a, m)
             fw == Taking(a, w)
  <2>1. /\ m.frames \in Seq(FrameRecord) /\ w.frames \in Seq(FrameRecord)
        /\ SameFrames(a, o, m.frames, w.frames) /\ Len(m.frames) # 0
        /\ fr \in FrameRecord /\ fw \in FrameRecord /\ SameFrame(a, o, fr, fw)
        /\ fr.function = m.frames[Len(m.frames)].function
    BY <1>1, <1>4, <1>5, <1>6, <1>7
  <2> HIDE DEF fr, fw
  <2>2. /\ SameFrames(a, o, [m.frames EXCEPT ![Len(m.frames)] = fr], [w.frames EXCEPT ![Len(w.frames)] = fw])
        /\ [m.frames EXCEPT ![Len(m.frames)] = fr][1].function = m.frames[1].function
    BY <2>1, ReplacedSame
  <2> QED
    BY <1>2, <1>3, <1>4, <2>2 DEF fr, fw
<1> HIDE DEF q, p, left, right, n
<1>9. /\ n = Len(left) /\ n \in Nat /\ Len(right) = n
      /\ \A i \in 1..n : /\ left[i].label = right[i].label
                         /\ CanFlow(LabelOf(left[i].label), o) => left[i] = right[i]
  BY <1>1, <1>4, LenProperties DEF SameRequests, left, n
<1>10. /\ Len(Append(left, q)) = n + 1 /\ Append(left, q)[n + 1] = q
       /\ \A i \in 1..n : Append(left, q)[i] = left[i]
  BY <1>1, <1>5, <1>9, AppendProperties
<1>11. /\ Len(Append(right, p)) = n + 1 /\ Append(right, p)[n + 1] = p
       /\ \A i \in 1..n : Append(right, p)[i] = right[i]
  BY <1>1, <1>6, <1>9, AppendProperties
<1>12. \A i \in 1..(n + 1) : i \in 1..n \/ i = n + 1
  BY <1>9
<1>13. SameRequests(o, Append(left, q), Append(right, p))
  BY <1>7, <1>9, <1>10, <1>11, <1>12 DEF SameRequests
<1> QED
  BY <1>2, <1>3, <1>4, <1>8, <1>13 DEF InStep, Running

\* A return brings both back to their callers, or both to their end.
LEMMA ReturnRelated ==
  ASSUME NEW a, Verified(a), NEW o, NEW k, NEW m, NEW w, MachineFits(a, m), MachineFits(a, w),
         InStep(a, o, k, m, w), m.remaining # 0, Current(a, m).op = "return"
  PROVE  Related(a, o, k, RunInstruction(a, m), RunInstruction(a, w))
<1>1. /\ Twins(a, o, m, w) /\ Current(a, w).op = "return" /\ Ready(a, m) /\ Ready(a, w)
      /\ FunctionAt(a, m) = a.functions[Active(m).function]
      /\ m \in MachineRecord /\ w \in MachineRecord
      /\ m.frames \in Seq(FrameRecord) /\ w.frames \in Seq(FrameRecord)
      /\ Len(m.frames) \in Nat \ {0} /\ Len(w.frames) = Len(m.frames)
      /\ Active(m) = m.frames[Len(m.frames)]
  BY InStepFacts, TwinFacts DEF Twins, FunctionAt
<1>2. /\ SameFrames(a, o, m.frames, w.frames) /\ m.frames[1].function = k
      /\ m.remaining = w.remaining /\ m.executed = w.executed
      /\ SameRequests(o, m.requests, w.requests) /\ Running(m) /\ Running(w)
  BY DEF InStep
<1>3. CASE Len(m.frames) = 1
  <2>1. /\ RunInstruction(a, m) = [Halt(Paid(m), "completed") EXCEPT !.result = Returned(m)]
        /\ RunInstruction(a, w) = [Halt(Paid(w), "completed") EXCEPT !.result = Returned(w)]
    BY <1>1, <1>3, ReturnRuns
  <2>2. ASSUME NEW v \in {m, w}
        PROVE  LET next == [Halt(Paid(v), "completed") EXCEPT !.result = Returned(v)]
               IN  /\ next.status = "completed" /\ next.result = Returned(v)
                   /\ next.executed = v.executed + 1 /\ next.requests = v.requests
    <3>1. v \in MachineRecord /\ v.remaining # 0
      BY <1>1, <1>2, <2>2
    <3>2. /\ Paid(v) \in MachineRecord /\ Paid(v).executed = v.executed + 1
          /\ Paid(v).requests = v.requests
      BY <3>1, PaidTyped
    <3>3. /\ Halt(Paid(v), "completed") \in MachineRecord
          /\ Halt(Paid(v), "completed").status = "completed"
          /\ Halt(Paid(v), "completed").executed = v.executed + 1
          /\ Halt(Paid(v), "completed").requests = v.requests
      BY <3>2, HaltTyped, HaltKinds
    <3> QED
      BY <3>3 DEF MachineRecord
  <2>3. ASSUME CanFlow(LabelOf(a.functions[k].retLabel), o)
        PROVE  Returned(m) = Returned(w)
    <3>1. Active(m).function = k
      BY <1>1, <1>2, <1>3
    <3> QED
      BY <1>1, <2>3, <3>1, ReturnedSame
  <2>4. Finished(a, o, k, RunInstruction(a, m), RunInstruction(a, w))
    BY <1>2, <2>1, <2>2, <2>3 DEF Finished
  <2> QED
    BY <2>4 DEF Related
<1>4. CASE Len(m.frames) # 1
  <2> DEFINE n == Len(m.frames) - 1
  <2>1. RunInstruction(a, m) = WentBack(m) /\ RunInstruction(a, w) = WentBack(w)
    BY <1>1, <1>4, ReturnRuns
  <2>2. /\ n \in Nat \ {0} /\ Len(Remaining(m)) = n
        /\ \A d \in 1..(n - 1) : Remaining(m)[d] = m.frames[d]
        /\ Remaining(m)[n] = Resumed(m) /\ WentBack(m).frames = Remaining(m)
        /\ WentBack(m).requests = m.requests /\ WentBack(m).status = m.status
        /\ WentBack(m).executed = m.executed + 1 /\ WentBack(m).remaining = m.remaining - 1
    BY <1>1, <1>4, ReturnedFits
  <2>3. /\ Len(Remaining(w)) = n
        /\ \A d \in 1..(n - 1) : Remaining(w)[d] = w.frames[d]
        /\ Remaining(w)[n] = Resumed(w) /\ WentBack(w).frames = Remaining(w)
        /\ WentBack(w).requests = w.requests /\ WentBack(w).status = w.status
        /\ WentBack(w).executed = w.executed + 1 /\ WentBack(w).remaining = w.remaining - 1
    BY <1>1, <1>4, ReturnedFits
  <2>4. \A d \in 1..(n + 1) : SameFrame(a, o, m.frames[d], w.frames[d])
    BY <1>1, <1>2 DEF SameFrames
  <2>5. SameFrame(a, o, m.frames[n], w.frames[n])
    <3> HIDE DEF n
    <3>1. n \in 1..(n + 1)
      BY <2>2
    <3> QED
      BY <2>4, <3>1
  <2>6. SameFrame(a, o, Resumed(m), Resumed(w))
    BY <1>1, <1>4, <2>5, ResumedSame
  <2>7. Resumed(m).function = m.frames[n].function
    BY <1>1, <1>4, ResumedFits
  <2> HIDE DEF n
  <2>8. \A d \in 1..n : (d \in 1..(n - 1) /\ d \in 1..(n + 1)) \/ d = n
    BY <2>2
  <2>9. SameFrames(a, o, Remaining(m), Remaining(w))
    BY <2>2, <2>3, <2>4, <2>6, <2>8 DEF SameFrames
  <2>10. Remaining(m)[1].function = k
    <3>1. CASE n = 1
      BY <1>2, <2>2, <2>7, <3>1
    <3>2. CASE n # 1
      <4>1. 1 \in 1..(n - 1)
        BY <2>2, <3>2
      <4> QED
        BY <1>2, <2>2, <4>1
    <3> QED
      BY <3>1, <3>2
  <2>11. InStep(a, o, k, WentBack(m), WentBack(w))
    BY <1>2, <2>2, <2>3, <2>9, <2>10 DEF InStep, Running
  <2> QED
    BY <2>1, <2>11 DEF Related
<1> QED
  BY <1>3, <1>4

\* Both executions advance.
LEMMA RelatedStep ==
  ASSUME NEW a, Verified(a), NEW o, NEW k, NEW m, NEW w, MachineFits(a, m), MachineFits(a, w),
         Related(a, o, k, m, w)
  PROVE  Related(a, o, k, Advanced(a, m), Advanced(a, w))
<1>1. CASE Stopped(m)
  BY <1>1 DEF Stopped, Related, Advanced, Running
<1>2. CASE Stopped(w)
  BY <1>2 DEF Stopped, Related, Advanced, Running
<1>3. CASE Finished(a, o, k, m, w)
  <2>1. ~Running(m) /\ ~Running(w)
    BY <1>3, HaltKinds DEF Finished, Running
  <2> QED
    BY <1>3, <2>1 DEF Related, Advanced
<1>4. CASE InStep(a, o, k, m, w)
  <2>1. Advanced(a, m) = RunInstruction(a, m) /\ Advanced(a, w) = RunInstruction(a, w)
    BY <1>4 DEF InStep, Advanced
  <2>2. m \in MachineRecord /\ w \in MachineRecord
    BY DEF MachineFits
  <2>3. CASE m.remaining = 0
    <3>1. FramesFit(a, m.frames)
      BY <1>4 DEF InStep, MachineFits
    <3>2. RunInstruction(a, m) = Halt(m, "budget")
      BY <2>2, <2>3, <3>1, BudgetStops
    <3>3. Halt(m, "budget").status = "budget"
      BY <2>2, HaltTyped, HaltKinds
    <3>4. Stopped(RunInstruction(a, m))
      BY <3>2, <3>3 DEF Stopped
    <3> QED
      BY <2>1, <3>4 DEF Related
  <2>4. CASE m.remaining # 0
    <3>1. Twins(a, o, m, w) /\ w.remaining # 0
      BY <1>4, <2>4, InStepFacts DEF InStep
    <3>2. CASE Current(a, m).op = "call"
      BY <1>4, <2>1, <2>4, <3>2, CallInStep DEF Related
    <3>3. CASE Current(a, m).op = "request"
      BY <1>4, <2>1, <2>4, <3>3, RequestInStep DEF Related
    <3>4. CASE Current(a, m).op = "return"
      BY <1>4, <2>1, <2>4, <3>4, ReturnRelated
    <3>5. CASE Current(a, m).op \notin {"call", "request", "return"}
      <4>1. CASE \E fr \in FrameRecord, fw \in FrameRecord :
                   /\ fr.function = Active(m).function /\ fw.function = Active(w).function
                   /\ SameFrame(a, o, fr, fw)
                   /\ RunInstruction(a, m) = Went(m, fr) /\ RunInstruction(a, w) = Went(w, fw)
        BY <1>4, <2>1, <2>4, <4>1, WentInStep DEF Related
      <4>2. CASE \E op \in Operations : \/ RunInstruction(a, m) = Halt(Paid(m), op)
                                        \/ RunInstruction(a, w) = Halt(Paid(w), op)
        <5>1. PICK op \in Operations : \/ RunInstruction(a, m) = Halt(Paid(m), op)
                                       \/ RunInstruction(a, w) = Halt(Paid(w), op)
          BY <4>2
        <5>2. Halt(Paid(m), op).status = op /\ Halt(Paid(w), op).status = op
          BY <2>2, <2>4, <3>1, PaidTyped, HaltTyped, OperationKinds
        <5>3. Stopped(RunInstruction(a, m)) \/ Stopped(RunInstruction(a, w))
          BY <5>1, <5>2, OperationKinds DEF Stopped
        <5> QED
          BY <2>1, <5>3 DEF Related
      <4> QED
        BY <3>1, <3>5, <4>1, <4>2, PlainSame
    <3> QED
      BY <3>2, <3>3, <3>4, <3>5
  <2> QED
    BY <2>3, <2>4
<1> QED
  BY <1>1, <1>2, <1>3, <1>4 DEF Related

\* Executions on arguments alike to the observer begin in step.
LEMMA RelatedBegins ==
  ASSUME NEW a, Verified(a), NEW o, NEW k \in DOMAIN a.functions, NEW budget \in Nat,
         NEW first \in ArgumentsOf(a.functions[k]), NEW second \in ArgumentsOf(a.functions[k]),
         Alike(a.functions[k], first, second, o)
  PROVE  Related(a, o, k, Machine(a, k, first, budget), Machine(a, k, second, budget))
<1> DEFINE f == a.functions[k]
           fr == Frame(f, k, first)
           fw == Frame(f, k, second)
           m == Machine(a, k, first, budget)
           w == Machine(a, k, second, budget)
<1>1. first \in Seq(JoanValue) /\ Len(first) = Len(f.params)
  BY ArgumentsTyped
<1>2. second \in Seq(JoanValue) /\ Len(second) = Len(f.params)
  BY ArgumentsTyped
<1>3. \A i \in 1..Len(first) : CanFlow(ParameterLabel(f, i), o) => first[i] = second[i]
  BY <1>1 DEF Alike
<1>4. SameFrame(a, o, fr, fw)
  BY <1>1, <1>2, <1>3, FrameSame
<1>5. /\ Running(m) /\ m.frames = <<fr>> /\ m.requests = <<>> /\ m.executed = 0
      /\ m.remaining = budget
  BY MachineStarts
<1>6. /\ Running(w) /\ w.frames = <<fw>> /\ w.requests = <<>> /\ w.executed = 0
      /\ w.remaining = budget
  BY MachineStarts
<1>7. fr.function = k
  BY DEF Frame
<1> HIDE DEF fr, fw, m, w
<1>8. /\ Len(<<fr>>) = 1 /\ <<fr>>[1] = fr /\ Len(<<fw>>) = 1 /\ <<fw>>[1] = fw
      /\ \A d \in 1..1 : d = 1
  OBVIOUS
<1>9. SameFrames(a, o, <<fr>>, <<fw>>)
  BY <1>4, <1>8 DEF SameFrames
<1>10. SameRequests(o, <<>>, <<>>)
  BY DEF SameRequests
<1>11. InStep(a, o, k, m, w)
  BY <1>5, <1>6, <1>7, <1>8, <1>9, <1>10 DEF InStep
<1> QED
  BY <1>11 DEF Related, m, w

SecretInv ==
  Started => Related(artifact, chosen.observer, chosen.function, machine[1], machine[2])

LEMMA SecretInvInit ==
  MachineInit => SecretInv
BY DEF MachineInit, SecretInv, Started

\* Each of the three steps keeps the invariant.
LEMMA SecretInvNext ==
  MachineInv /\ SecretInv /\ [MachineNext]_machineVars => SecretInv'
<1> SUFFICES ASSUME MachineInv, SecretInv, [MachineNext]_machineVars
             PROVE  SecretInv'
  OBVIOUS
<1>1. CASE Accept
  BY <1>1 DEF Accept, MachineInv, SecretInv, Started
<1>2. CASE Execute
  <2>1. artifact # Nothing /\ artifact' = artifact /\ Verified(artifact)
    BY <1>2 DEF Execute, MachineInv
  <2>2. PICK k \in DOMAIN artifact.functions, observer \in Observers, budget \in Budgets \ {0} :
          \E first, second \in ArgumentsOf(artifact.functions[k]) : Begin(k, observer, budget, first, second)
    BY <1>2 DEF Execute
  <2>3. PICK first \in ArgumentsOf(artifact.functions[k]), second \in ArgumentsOf(artifact.functions[k]) :
          Begin(k, observer, budget, first, second)
    BY <2>2
  <2>4. /\ Alike(artifact.functions[k], first, second, observer)
        /\ chosen'.function = k /\ chosen'.observer = observer
        /\ machine'[1] = Machine(artifact, k, first, budget)
        /\ machine'[2] = Machine(artifact, k, second, budget)
    BY <2>3 DEF Begin, Runs
  <2>5. budget \in Nat
    BY ArgumentsAssumption
  <2>6. Related(artifact, observer, k, machine'[1], machine'[2])
    BY <2>1, <2>4, <2>5, RelatedBegins
  <2> QED
    BY <2>1, <2>4, <2>6 DEF SecretInv
<1>3. CASE Instruct
  <2>1. artifact' = artifact /\ chosen' = chosen /\ Started /\ Verified(artifact)
    BY <1>3 DEF Instruct, MachineInv, Started
  <2>2. /\ machine'[1] = Advanced(artifact, machine[1])
        /\ machine'[2] = Advanced(artifact, machine[2])
    BY <1>3 DEF Instruct, Runs
  <2>3. MachineFits(artifact, machine[1]) /\ MachineFits(artifact, machine[2])
    BY <2>1 DEF MachineInv, Runs
  <2>4. Related(artifact, chosen.observer, chosen.function, machine[1], machine[2])
    BY <2>1 DEF SecretInv
  <2>5. Related(artifact, chosen.observer, chosen.function, machine'[1], machine'[2])
    BY <2>1, <2>2, <2>3, <2>4, RelatedStep
  <2> QED
    BY <2>1, <2>5 DEF SecretInv, Started
<1>4. CASE UNCHANGED machineVars
  BY <1>4 DEF machineVars, SecretInv, Started
<1> QED
  BY <1>1, <1>2, <1>3, <1>4 DEF MachineNext

\* Requests that are the same to the observer look the same to it.
LEMMA SeenSame ==
  ASSUME NEW o, NEW m, NEW w, m.requests \in Seq(RequestRecord), w.requests \in Seq(RequestRecord),
         SameRequests(o, m.requests, w.requests)
  PROVE  Seen(m, o) = Seen(w, o)
<1> DEFINE visible == {n \in DOMAIN m.requests : CanFlow(LabelOf(m.requests[n].label), o)}
           also == {n \in DOMAIN w.requests : CanFlow(LabelOf(w.requests[n].label), o)}
<1>1. DOMAIN m.requests = 1..Len(m.requests) /\ DOMAIN w.requests = 1..Len(m.requests)
  BY DEF SameRequests
<1>2. visible = also
  BY <1>1 DEF SameRequests
<1>3. \A n \in visible : m.requests[n] = w.requests[n]
  BY <1>1 DEF SameRequests
<1>4. Seen(m, o) = [n \in visible |-> m.requests[n]] /\ Seen(w, o) = [n \in also |-> w.requests[n]]
  BY DEF Seen
<1> HIDE DEF visible, also
<1> QED
  BY <1>2, <1>3, <1>4

\* Two completed executions whose arguments an observer cannot tell apart show it
\* the same requests and the same result where it may see them, after the same
\* number of instructions, whatever the artifact: the executions are in step, and
\* what may flow to the observer is equal in every frame (joan-bytecode labels of
\* verify_type_stack; joan-compiler execute).
THEOREM NoSecretIsObservedTheorem == MachineSpec => []NoSecretIsObserved
<1>1. MachineInv /\ SecretInv => NoSecretIsObserved
  <2> SUFFICES ASSUME MachineInv, SecretInv, Started, \A r \in Runs : machine[r].status = "completed"
               PROVE  LET f == artifact.functions[chosen.function]
                      IN  /\ Seen(machine[1], chosen.observer) = Seen(machine[2], chosen.observer)
                          /\ CanFlow(LabelOf(f.retLabel), chosen.observer) =>
                               machine[1].result = machine[2].result
                          /\ machine[1].executed = machine[2].executed
    BY DEF NoSecretIsObserved
  <2>1. machine[1].status = "completed" /\ machine[2].status = "completed"
    BY DEF Runs
  <2>2. MachineFits(artifact, machine[1]) /\ MachineFits(artifact, machine[2])
    BY DEF MachineInv, Runs
  <2>3. Finished(artifact, chosen.observer, chosen.function, machine[1], machine[2])
    BY <2>1, HaltKinds DEF SecretInv, Related, InStep, Running, Stopped
  <2>4. machine[1].requests \in Seq(RequestRecord) /\ machine[2].requests \in Seq(RequestRecord)
    BY <2>2 DEF MachineFits, MachineRecord
  <2>5. Seen(machine[1], chosen.observer) = Seen(machine[2], chosen.observer)
    BY <2>3, <2>4, SeenSame DEF Finished
  <2> QED
    BY <2>3, <2>5 DEF Finished
<1> QED
  BY <1>1, MachineInvAlways, SecretInvInit, SecretInvNext, PTL DEF MachineSpec
=============================================================================
