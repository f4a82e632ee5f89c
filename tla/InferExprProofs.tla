-------------------------- MODULE InferExprProofs --------------------------
(***************************************************************************)
(* What the analyzer infers is sound, for expressions of any depth over    *)
(* any columns and widths: an expression it calls NOT NULL is NULL in no   *)
(* row, a constant it folds is the value in every row, a failure that an   *)
(* evaluation gets to is warned of, and a warning about an expression made *)
(* of literals means that it fails.                                        *)
(***************************************************************************)
EXTENDS InferExpr, FiniteSetTheorems, SequenceTheorems, WellFoundedInduction, TLAPS

LEMMA MarksAreApart ==
  /\ Null \notin Int /\ Fault \notin Int /\ Abort \notin Int /\ Pending \notin Int
  /\ None \notin Int
  /\ Null \notin {Fault, Abort, Pending} /\ Pending \notin {Fault, Abort}
BY InferAssumption DEF Marks

-----------------------------------------------------------------------------
(* What SQL computes is a value, and NULL only where an operand is.         *)

NotNull == Values \ {Null}

LEMMA DomainTyped == Domain \cup {Null} \subseteq Values
<1>1. MinInt .. MaxInt \subseteq Int
  BY InferAssumption DEF MinInt
<1>2. Domain \subseteq MinInt .. MaxInt
  BY InferAssumption
<1> QED BY <1>1, <1>2 DEF Values

LEMMA StrictValue ==
  ASSUME NEW operands, operands \subseteq Values
  PROVE  /\ \A r \in Values : Strict(operands, r) \in Values
         /\ Null \notin operands => \A r \in NotNull : Strict(operands, r) \in NotNull
BY MarksAreApart DEF Strict, Failed, Values, NotNull

LEMMA TruthValue == \A p \in BOOLEAN : Truth(p) \in {0, 1} /\ Truth(p) \in NotNull
BY MarksAreApart DEF Truth, Values, NotNull

LEMMA AndOrValue ==
  ASSUME NEW operands, operands \subseteq Values
  PROVE  /\ And(operands) \in Values /\ Or(operands) \in Values
         /\ Null \notin operands => And(operands) \in NotNull /\ Or(operands) \in NotNull
<1>1. {0, 1} \subseteq NotNull /\ NotNull \subseteq Values
  BY MarksAreApart DEF NotNull, Values
<1>2. \A r \in {0, 1} : Strict(operands, r) \in Values
  BY <1>1, StrictValue
<1>3. Null \notin operands => \A r \in {0, 1} : Strict(operands, r) \in NotNull
  BY <1>1, StrictValue
<1> QED BY <1>1, <1>2, <1>3 DEF And, Or

LEMMA ComparedValue ==
  ASSUME NEW x \in Values, NEW y \in Values
  PROVE  /\ Equals(x, y) \in Values /\ LessEqual(x, y) \in Values
         /\ x # Null /\ y # Null => Equals(x, y) \in NotNull /\ LessEqual(x, y) \in NotNull
<1>1. {0, 1} \subseteq NotNull /\ NotNull \subseteq Values
  BY MarksAreApart DEF NotNull, Values
<1>2. Truth(x = y) \in {0, 1}
  BY DEF Truth
<1>3. (IF {x, y} \subseteq Int THEN Truth(x <= y) ELSE 0) \in {0, 1}
  BY DEF Truth
<1>4. {x, y} \subseteq Values
  OBVIOUS
<1>5. \A r \in {0, 1} : Strict({x, y}, r) \in Values
  BY <1>1, <1>4, StrictValue
<1>6. Null \notin {x, y} => \A r \in {0, 1} : Strict({x, y}, r) \in NotNull
  BY <1>1, <1>4, StrictValue
<1> QED BY <1>2, <1>3, <1>5, <1>6 DEF Equals, LessEqual

LEMMA RangesAreIntegers == \A t : IntegerRange(t) \subseteq Int
BY InferAssumption DEF IntegerRange, MinInt, MinBig

LEMMA WithinValue ==
  ASSUME NEW t, NEW v \in Values
  PROVE  /\ Within(t, v) \in Values
         /\ v # Null => Within(t, v) \in NotNull
BY MarksAreApart DEF Within, Values, NotNull, Marks

LEMMA NegatedValue ==
  ASSUME NEW v \in Values
  PROVE  Negated(v) \in Values /\ (v # Null => Negated(v) # Null)
BY MarksAreApart DEF Negated, Values

-----------------------------------------------------------------------------
(* A group of rows is finite, and its greatest value exists.                *)

LEMMA GreatestExists ==
  ASSUME NEW S, IsFiniteSet(S), S \subseteq Int, S # {}
  PROVE  \E m \in S : \A k \in S : k <= m
<1> DEFINE HasGreatest(R) == \E m \in R : \A k \in R : k <= m
           U == {R \in SUBSET S : IsFiniteSet(R) /\ R # {} /\ ~HasGreatest(R)}
<1>1. SUFFICES ASSUME ~HasGreatest(S) PROVE FALSE
  OBVIOUS
<1>2. IsWellFoundedOn(StrictSubsetOrdering(S), FiniteSubsetsOf(S))
  BY FS_StrictSubsetOrderingWellFounded
<1>3. U \subseteq FiniteSubsetsOf(S) /\ U # {}
  BY <1>1 DEF FiniteSubsetsOf
<1>4. \E R \in U : \A Q \in U : <<Q, R>> \notin StrictSubsetOrdering(S)
  BY <1>2, <1>3, WFMin, Zenon
<1>5. PICK R \in U : \A Q \in U : <<Q, R>> \notin StrictSubsetOrdering(S)
  BY <1>4
<1>6. PICK x \in R : TRUE
  OBVIOUS
<1>7. IsFiniteSet(R \ {x}) /\ R \ {x} \subseteq S
  BY FS_RemoveElement
<1>8. <<R \ {x}, R>> \in StrictSubsetOrdering(S)
  BY <1>7 DEF StrictSubsetOrdering
<1>9. R \ {x} = {} \/ HasGreatest(R \ {x})
  BY <1>5, <1>7, <1>8
<1>10. R \subseteq Int /\ x \in Int
  OBVIOUS
<1>11. HasGreatest(R)
  <2>1. CASE R \ {x} = {}
    BY <1>10, <2>1
  <2>2. CASE HasGreatest(R \ {x})
    <3>1. PICK m \in R \ {x} : \A k \in R \ {x} : k <= m
      BY <2>2
    <3>2. CASE x <= m
      BY <3>1, <3>2, <1>10
    <3>3. CASE ~(x <= m)
      BY <3>1, <3>3, <1>10
    <3> QED BY <3>2, <3>3
  <2> QED BY <1>9, <2>1, <2>2
<1> QED BY <1>11

LEMMA RowsFinite == IsFiniteSet(Rows)
<1> DEFINE D == Domain \cup {Null}
           f == [row \in Rows |-> {<<c, row[c]>> : c \in Column}]
<1>1. IsFiniteSet(D)
  <2>1. IsFiniteSet(MinInt .. MaxInt)
    BY InferAssumption, FS_Interval DEF MinInt
  <2>2. IsFiniteSet(Domain)
    BY <2>1, InferAssumption, FS_Subset
  <2> QED BY <2>2, FS_AddElement
<1>2. IsFiniteSet(SUBSET (Column \X D))
  BY <1>1, InferAssumption, FS_Product, FS_SUBSET
<1>3. Rows \subseteq [Column -> D]
  BY DEF Rows
<1>4. f \in [Rows -> SUBSET (Column \X D)]
  BY <1>3
<1>5. ASSUME NEW r \in Rows, NEW s \in Rows, f[r] = f[s] PROVE r = s
  <2>1. r \in [Column -> D] /\ s \in [Column -> D]
    BY <1>3
  <2>2. ASSUME NEW c \in Column PROVE r[c] = s[c]
    <3>1. <<c, r[c]>> \in f[s]
      BY <1>5
    <3> QED BY <3>1
  <2> QED BY <2>1, <2>2
<1>6. f \in Injection(Rows, SUBSET (Column \X D))
  BY <1>4, <1>5 DEF Injection, IsInjective
<1> QED BY <1>2, <1>6, FS_Injection

-----------------------------------------------------------------------------
(* The state.                                                               *)

Types == Numeric \cup Wildcard \cup {"Boolean"}

Nodes ==
  [type : Types, null : {1, 2}, int : Int \cup {None}, bool : {0, 1, None},
   value : [Rows -> Values], literal : BOOLEAN, plain : BOOLEAN, arrays : BOOLEAN,
   untyped : BOOLEAN]

\* A folded constant is the value wherever the evaluation does not fail.
FoldHolds(x) ==
  \A row \in Rows : \/ x.value[row] \in {Fault, Abort}
                    \/ x.int \in {None, x.value[row]} /\ x.bool \in {None, x.value[row]}

\* Arithmetic of literals is folded as long as it does not fail.
LiteralHolds(x) ==
  x.literal => /\ x.type \in {"Integer", "BigInt"}
               /\ \A row \in Rows : x.value[row] \in Int => x.int = x.value[row]

SoundNode ==
  {x \in Nodes : (~x.arrays => NotNullHolds(x)) /\ FoldHolds(x) /\ LiteralHolds(x)}

(* What makes a new node sound: its value is NULL only where an operand's   *)
(* is, and its nullability is that of its operands.                         *)
LEMMA NodeIsSound ==
  ASSUME NEW type \in Types, NEW null \in {1, 2}, NEW value \in [Rows -> Values],
         NEW operands, operands \subseteq SoundNode,
         null = 1 => ((\A x \in operands : ~x.arrays) => \A row \in Rows : value[row] # Null)
  PROVE  Node(type, null, value, operands) \in SoundNode
<1>1. /\ (\E x \in operands : x.arrays) \in BOOLEAN
      /\ (type = "Unknown" \/ \E x \in operands : x.untyped) \in BOOLEAN
  OBVIOUS
<1> QED BY <1>1 DEF Node, SoundNode, Nodes, NotNullHolds, FoldHolds, LiteralHolds

\* A node whose folded constants are set afterwards.
LEMMA FoldedIsSound ==
  ASSUME NEW x \in SoundNode, NEW y \in Nodes,
         y.arrays = x.arrays, y.null = x.null, y.value = x.value,
         FoldHolds(y), LiteralHolds(y)
  PROVE  y \in SoundNode
BY DEF SoundNode, NotNullHolds

Phases == {"guard", "result", "else"}

Frames ==
  [phase : Phases, simple : BOOLEAN, operand : SoundNode, height : Nat,
   guard : [Rows -> Values \cup {Pending}], folded : {0, 1, None},
   dead : BOOLEAN, priorTaken : BOOLEAN, type : Types, nulls : SUBSET {1, 2},
   value : [Rows -> Values \cup {Pending}], plain : BOOLEAN, arrays : BOOLEAN,
   untyped : BOOLEAN]

\* An arm is dead only while it is visited; while all results are NOT NULL, so is the CASE.
SoundFrame ==
  {f \in Frames :
     /\ f.phase = "guard" => ~f.dead
     /\ ~f.arrays /\ 2 \notin f.nulls => \A row \in Rows : f.value[row] # Null}

Typed == stack \in Seq(SoundNode) /\ cases \in Seq(SoundFrame)

\* The operands of an inner CASE lie above those of the outer ones.
Nested ==
  \A d \in DOMAIN cases :
    /\ cases[d].height <= Len(stack)
    /\ \A e \in DOMAIN cases : d <= e => cases[d].height <= cases[e].height

DeadArms == {d \in DOMAIN cases : cases[d].dead}

IInv ==
  /\ Typed /\ Nested
  /\ div0Suppress = Cardinality(DeadArms)
  /\ warnings \subseteq {"DivisionByZero", "IntegerOverflow"}
  /\ leaves \in 0 .. MaxLeaves

LEMMA BaseIsHeight ==
  ASSUME Typed, Nested
  PROVE  /\ Base \in 0 .. Len(stack)
         /\ \A d \in DOMAIN cases : cases[d].height <= Base
<1>1. CASE cases = <<>>
  BY <1>1 DEF Base, Typed
<1>2. CASE cases # <<>>
  <2>1. Len(cases) \in DOMAIN cases /\ DOMAIN cases = 1 .. Len(cases)
    BY <1>2 DEF Typed
  <2>2. cases[Len(cases)] \in SoundFrame
    BY <2>1 DEF Typed
  <2>3. Base = cases[Len(cases)].height /\ Base \in Nat
    BY <1>2, <2>2 DEF Base, SoundFrame, Frames
  <2>4. Len(stack) \in Nat
    BY DEF Typed
  <2> QED BY <2>1, <2>3, <2>4 DEF Nested
<1> QED BY <1>1, <1>2

LEMMA OperandIsSound ==
  ASSUME Typed, Nested, NEW n \in Nat, Has(n), NEW i \in 1 .. n
  PROVE  Operand(n, i) \in SoundNode
<1>1. Len(stack) \in Nat /\ Len(stack) - n >= 0
  BY BaseIsHeight DEF Has, Typed
<1>2. Len(stack) - n + i \in 1 .. Len(stack)
  BY <1>1
<1> QED BY <1>2 DEF Operand, Typed

\* Visiting a node leaves the open CASEs alone.
LEMMA StackGrown ==
  ASSUME IInv, NEW n \in Nat, Has(n), NEW node \in SoundNode, Replace(n, node),
         cases' = cases, div0Suppress' = div0Suppress,
         warnings' \subseteq {"DivisionByZero", "IntegerOverflow"},
         leaves' \in 0 .. MaxLeaves
  PROVE  IInv'
<1> DEFINE rest == SubSeq(stack, 1, Len(stack) - n)
<1>1. Len(stack) \in Nat /\ Base \in Nat /\ Len(stack) - n >= Base
  BY BaseIsHeight DEF Has, Typed, IInv
<1>2. rest \in Seq(SoundNode) /\ Len(rest) = Len(stack) - n
  <2>1. \A i \in 1 .. Len(stack) - n : stack[i] \in SoundNode
    BY <1>1 DEF IInv, Typed
  <2>2. Len(stack) - n \in Int
    BY <1>1
  <2> QED BY <1>1, <2>1, <2>2, SubSeqProperties
<1>3. stack' \in Seq(SoundNode) /\ Len(stack') = Len(stack) - n + 1
  <2>1. stack' = Append(rest, node)
    BY DEF Replace
  <2> HIDE DEF rest
  <2> QED BY <1>2, <2>1, AppendProperties
<1>4. Typed'
  BY <1>3 DEF IInv, Typed
<1>5. Nested'
  <2>1. \A d \in DOMAIN cases : cases[d].height <= Base /\ cases[d].height \in Nat
    BY BaseIsHeight DEF IInv, Typed, SoundFrame, Frames
  <2>2. \A d \in DOMAIN cases : cases[d].height <= Len(stack')
    BY <1>1, <1>3, <2>1
  <2> QED BY <2>2 DEF IInv, Nested
<1>6. DeadArms' = DeadArms
  BY DEF DeadArms
<1> QED BY <1>4, <1>5, <1>6 DEF IInv

LEMMA VisitSound ==
  ASSUME IInv, NEW n \in Nat, Has(n), NEW node \in SoundNode, Visit(n, node)
  PROVE  IInv'
BY StackGrown DEF Visit, IInv

LEMMA LeafSound ==
  ASSUME IInv, NEW node \in SoundNode, Leaf(node)
  PROVE  IInv'
<1>1. Len(stack) \in Nat /\ stack \in Seq(SoundNode)
  BY DEF IInv, Typed
<1>2. Typed'
  BY <1>1, AppendProperties DEF Leaf, IInv, Typed
<1>3. Len(stack') = Len(stack) + 1
  BY <1>1, AppendProperties DEF Leaf
<1>4. Nested'
  <2>1. \A d \in DOMAIN cases : cases[d].height \in Nat
    BY DEF IInv, Typed, SoundFrame, Frames
  <2>2. \A d \in DOMAIN cases : cases[d].height <= Len(stack')
    BY <1>1, <1>3, <2>1 DEF IInv, Nested
  <2> QED BY <2>2 DEF IInv, Nested, Leaf
<1>5. DeadArms' = DeadArms
  BY DEF DeadArms, Leaf
<1>6. leaves' \in 0 .. MaxLeaves
  BY InferAssumption DEF Leaf, IInv
<1> QED BY <1>2, <1>4, <1>5, <1>6 DEF IInv, Leaf

-----------------------------------------------------------------------------
(* Leaves.                                                                  *)

LEMMA ConstantTyped ==
  ASSUME NEW v \in Values
  PROVE  /\ Constant(v) \in [Rows -> Values]
         /\ v # Null => \A row \in Rows : Constant(v)[row] # Null
BY DEF Constant

LEMMA LiteralTypeTyped == \A n \in Int : LiteralType(n) \in Types
BY DEF LiteralType, Types, Numeric

LEMMA LeavesSound ==
  ASSUME IInv,
         \/ \E n \in Literals : IntegerLiteral(n)
         \/ \E b \in {0, 1} : BooleanLiteral(b)
         \/ NullLiteral
         \/ \E c \in Column : ColumnRef(c)
         \/ \E v \in Outcomes, type \in OpaqueTypes : Parameter(type, v)
         \/ \E b \in Answers : Exists(b)
  PROVE  IInv'
<1>1. ASSUME NEW n \in Literals, IntegerLiteral(n) PROVE IInv'
  <2> DEFINE folded == IF n \in MinBig .. MaxBig THEN n ELSE None
             bare == Node(LiteralType(n), 1, Constant(n), {})
  <2>1. n \in Int /\ n \in Values /\ n # Null
    BY InferAssumption, MarksAreApart DEF Values
  <2>2. bare \in SoundNode
    BY <2>1, ConstantTyped, LiteralTypeTyped, NodeIsSound
  <2>3. folded \in Int \cup {None} /\ (folded # None) \in BOOLEAN
    BY <2>1
  <2>4. /\ bare.value = Constant(n) /\ bare.type = LiteralType(n) /\ bare.bool = None
        /\ \A row \in Rows : Constant(n)[row] = n
    BY DEF Node, Constant
  <2>5. folded # None => LiteralType(n) \in {"Integer", "BigInt"}
    BY <2>1, InferAssumption DEF LiteralType, Magnitude, MinBig
  <2>6. folded \in {None, n} /\ (folded # None => folded = n)
    OBVIOUS
  <2> DEFINE node == [bare EXCEPT !.int = folded, !.literal = folded # None, !.plain = TRUE]
  <2>7. IntegerLiteral(n) <=> Leaf(node)
    BY DEF IntegerLiteral
  <2> HIDE DEF folded, bare
  <2>8. /\ node \in Nodes /\ node.arrays = bare.arrays /\ node.null = bare.null
        /\ node.value = bare.value /\ node.type = bare.type /\ node.int = folded
        /\ node.bool = bare.bool /\ node.literal = (folded # None)
    BY <2>2, <2>3 DEF SoundNode, Nodes
  <2> HIDE DEF node
  <2>9. FoldHolds(node) /\ LiteralHolds(node)
    BY <2>4, <2>5, <2>6, <2>8 DEF FoldHolds, LiteralHolds
  <2> QED BY <1>1, <2>2, <2>7, <2>8, <2>9, FoldedIsSound, LeafSound
<1>2. ASSUME NEW b \in {0, 1}, BooleanLiteral(b) PROVE IInv'
  <2> DEFINE bare == Node("Boolean", 1, Constant(b), {})
  <2>1. b \in Values /\ b # Null
    BY MarksAreApart DEF Values
  <2>2. bare \in SoundNode
    BY <2>1, ConstantTyped, NodeIsSound DEF Types
  <2> DEFINE node == [bare EXCEPT !.bool = b, !.plain = TRUE]
  <2>3. BooleanLiteral(b) <=> Leaf(node)
    BY DEF BooleanLiteral
  <2>4. /\ bare.value = Constant(b) /\ bare.int = None /\ ~bare.literal
        /\ \A row \in Rows : Constant(b)[row] = b
    BY DEF Node, Constant
  <2> HIDE DEF bare
  <2>5. /\ node \in Nodes /\ node.arrays = bare.arrays /\ node.null = bare.null
        /\ node.value = bare.value /\ node.int = bare.int /\ node.bool = b
        /\ node.literal = bare.literal
    BY <2>2 DEF SoundNode, Nodes
  <2> HIDE DEF node
  <2>6. FoldHolds(node) /\ LiteralHolds(node)
    BY <2>4, <2>5 DEF FoldHolds, LiteralHolds
  <2> QED BY <1>2, <2>2, <2>3, <2>5, <2>6, FoldedIsSound, LeafSound
<1>3. ASSUME NullLiteral PROVE IInv'
  <2>1. Null \in Values /\ "Null" \in Types
    BY DEF Types, Wildcard, Values
  <2>2. Node("Null", 2, Constant(Null), {}) \in SoundNode
    BY <2>1, ConstantTyped, NodeIsSound
  <2> QED BY <1>3, <2>2, LeafSound DEF NullLiteral
<1>4. ASSUME NEW c \in Column, ColumnRef(c) PROVE IInv'
  <2> DEFINE null == IF c \in NullableColumn THEN 2 ELSE 1
             value == [row \in Rows |-> row[c]]
  <2>1. Domain \cup {Null} \subseteq Values
    BY DomainTyped
  <2>2. value \in [Rows -> Values]
    BY <2>1 DEF Rows
  <2>3. null = 1 => \A row \in Rows : value[row] # Null
    BY DEF Rows
  <2>4. ColumnRef(c) <=> Leaf(Node("Integer", null, value, {}))
    BY DEF ColumnRef
  <2>5. null \in {1, 2} /\ "Integer" \in Types
    BY DEF Types, Numeric
  <2> HIDE DEF null, value
  <2>6. Node("Integer", null, value, {}) \in SoundNode
    BY <2>2, <2>3, <2>5, NodeIsSound
  <2> QED BY <1>4, <2>4, <2>6, LeafSound
<1>5. ASSUME NEW v \in Outcomes, NEW type \in OpaqueTypes, Parameter(type, v) PROVE IInv'
  <2>1. v \in Values /\ type \in Types
    BY InferAssumption DEF Values, MinInt, Types, Numeric, Wildcard
  <2>2. Node(type, 2, Constant(v), {}) \in SoundNode
    BY <2>1, ConstantTyped, NodeIsSound
  <2> QED BY <1>5, <2>2, LeafSound DEF Parameter
<1>6. ASSUME NEW b \in Answers, Exists(b) PROVE IInv'
  <2>1. b \in Values /\ b # Null
    BY InferAssumption, MarksAreApart DEF Values
  <2>2. Node("Boolean", 1, Constant(b), {}) \in SoundNode
    BY <2>1, ConstantTyped, NodeIsSound DEF Types
  <2> QED BY <1>6, <2>2, LeafSound DEF Exists
<1> QED BY <1>1, <1>2, <1>3, <1>4, <1>5, <1>6

-----------------------------------------------------------------------------
(* One operand.                                                             *)

LEMMA NodeHas ==
  ASSUME NEW x \in SoundNode
  PROVE  /\ x.type \in Types /\ x.null \in {1, 2} /\ x.int \in Int \cup {None}
         /\ x.bool \in {0, 1, None} /\ x.literal \in BOOLEAN /\ x.plain \in BOOLEAN
         /\ x.arrays \in BOOLEAN /\ x.untyped \in BOOLEAN
         /\ \A row \in Rows : x.value[row] \in Values
         /\ x.null = 1 /\ ~x.arrays => \A row \in Rows : x.value[row] # Null
         /\ FoldHolds(x) /\ LiteralHolds(x)
BY DEF SoundNode, Nodes, NotNullHolds

LEMMA NotSound == ASSUME IInv, Not PROVE IInv'
<1> DEFINE x == Operand(1, 1)
           value == [row \in Rows |-> Strict({x.value[row]}, Truth(x.value[row] = 0))]
<1>1. Has(1) /\ Visit(1, Node("Boolean", x.null, value, {x}))
  BY DEF Not
<1>2. x \in SoundNode
  BY <1>1, OperandIsSound DEF IInv
<1> HIDE DEF x
<1>3. ASSUME NEW row \in Rows
      PROVE  value[row] \in Values /\ (x.value[row] # Null => value[row] # Null)
  <2>1. {x.value[row]} \subseteq Values
    BY <1>2, NodeHas
  <2>2. Truth(x.value[row] = 0) \in NotNull
    BY TruthValue
  <2> QED BY <2>1, <2>2, StrictValue DEF NotNull
<1> HIDE DEF value
<1>4. value \in [Rows -> Values]
  BY <1>3 DEF value
<1>5. x.null = 1 => ((\A y \in {x} : ~y.arrays) => \A row \in Rows : value[row] # Null)
  BY <1>2, <1>3, NodeHas
<1>6. Node("Boolean", x.null, value, {x}) \in SoundNode
  BY <1>2, <1>4, <1>5, NodeHas, NodeIsSound DEF Types
<1> QED BY <1>1, <1>6, VisitSound

LEMMA MinusSound == ASSUME IInv, Minus PROVE IInv'
<1> DEFINE x == Operand(1, 1)
           value == [row \in Rows |-> Within(x.type, Negated(x.value[row]))]
           bare == Node(x.type, x.null, value, {x})
<1>1. Has(1) /\ Visit(1, [bare EXCEPT !.int = FoldMinus(x.int), !.literal = x.literal,
                                      !.plain = x.plain])
  BY DEF Minus
<1>2. x \in SoundNode
  BY <1>1, OperandIsSound DEF IInv
<1> HIDE DEF x
<1>3. ASSUME NEW row \in Rows
      PROVE  value[row] \in Values /\ (x.value[row] # Null => value[row] # Null)
  <2>1. x.value[row] \in Values
    BY <1>2, NodeHas
  <2>2. Negated(x.value[row]) \in Values
    BY <2>1, NegatedValue
  <2>3. x.value[row] # Null => Negated(x.value[row]) # Null
    BY <2>1, NegatedValue
  <2> QED BY <2>2, <2>3, WithinValue DEF NotNull
<1> HIDE DEF value
<1>4. value \in [Rows -> Values]
  BY <1>3 DEF value
<1>5. x.null = 1 => ((\A y \in {x} : ~y.arrays) => \A row \in Rows : value[row] # Null)
  BY <1>2, <1>3, NodeHas
<1>6. bare \in SoundNode
  BY <1>2, <1>4, <1>5, NodeHas, NodeIsSound
<1>7. FoldMinus(x.int) \in Int \cup {None}
  BY <1>2, NodeHas DEF FoldMinus
<1> DEFINE node == [bare EXCEPT !.int = FoldMinus(x.int), !.literal = x.literal,
                                !.plain = x.plain]
<1>8. bare.value = value /\ bare.type = x.type /\ bare.bool = None
  BY DEF Node
<1> HIDE DEF bare
<1>9. ASSUME NEW row \in Rows
      PROVE  /\ value[row] \in {Fault, Abort} \/ FoldMinus(x.int) \in {None, value[row]}
             /\ x.literal /\ value[row] \in Int => FoldMinus(x.int) = value[row]
  <2> DEFINE v == x.value[row]
  <2>1. v \in Values /\ x.int \in Int \cup {None}
    BY <1>2, NodeHas
  <2>2. v \in {Fault, Abort} \/ x.int \in {None, v}
    BY <1>2, NodeHas DEF FoldHolds
  <2>3. x.literal => x.type \in {"Integer", "BigInt"} /\ (v \in Int => x.int = v)
    BY <1>2, NodeHas DEF LiteralHolds
  <2>4. value[row] = Within(x.type, Negated(v))
    BY DEF value
  <2> HIDE DEF v
  <2>5. CASE v \in Int
    <3>1. value[row] \in {-v, Abort}
      BY <2>4, <2>5 DEF Within, Negated
    <3>2. value[row] = -v => -v \in IntegerRange(x.type)
      BY <2>4, <2>5, MarksAreApart DEF Within, Negated, Marks
    <3>3. x.type \in {"Integer", "BigInt"} => IntegerRange(x.type) \subseteq MinBig .. MaxBig
      BY InferAssumption DEF IntegerRange, MinInt, MinBig
    <3>4. x.literal /\ value[row] \in Int => v # MinBig /\ value[row] = -v
      BY <2>3, <2>5, <3>1, <3>2, <3>3, MarksAreApart, InferAssumption DEF MinBig
    <3> QED BY <2>1, <2>2, <2>3, <2>5, <3>1, <3>4, MarksAreApart DEF FoldMinus
  <2>6. CASE v \notin Int
    <3>1. value[row] = v
      BY <2>1, <2>4, <2>6, MarksAreApart DEF Within, Negated, Marks, Values
    <3> QED BY <2>1, <2>2, <2>6, <3>1 DEF FoldMinus
  <2> QED BY <2>5, <2>6
<1>10. /\ node \in Nodes /\ node.arrays = bare.arrays /\ node.null = bare.null
       /\ node.value = value /\ node.type = x.type /\ node.int = FoldMinus(x.int)
       /\ node.bool = None /\ node.literal = x.literal
  BY <1>2, <1>6, <1>7, <1>8, NodeHas DEF SoundNode, Nodes
<1> HIDE DEF node
<1>11. FoldHolds(node)
  BY <1>9, <1>10 DEF FoldHolds
<1>12. LiteralHolds(node)
  BY <1>2, <1>9, <1>10, NodeHas DEF LiteralHolds
<1>13. node \in SoundNode
  BY <1>6, <1>8, <1>10, <1>11, <1>12, FoldedIsSound
<1> QED BY <1>1, <1>13, VisitSound DEF node

LEMMA TestSound == ASSUME IInv, NEW of \in {Null, 0, 1}, Test(of) PROVE IInv'
<1> DEFINE x == Operand(1, 1)
           answer(v) == IF v \in {Fault, Abort} THEN v ELSE Truth(v = of)
           value == [row \in Rows |-> answer(x.value[row])]
<1>1. Has(1) /\ Visit(1, Node("Boolean", 1, value, {x}))
  BY DEF Test
<1>2. x \in SoundNode
  BY <1>1, OperandIsSound DEF IInv
<1>3. \A v : answer(v) \in NotNull
  BY TruthValue, MarksAreApart DEF NotNull, Values
<1>4. value \in [Rows -> Values] /\ \A row \in Rows : value[row] # Null
  BY <1>3 DEF NotNull
<1> HIDE DEF x, value
<1>5. Node("Boolean", 1, value, {x}) \in SoundNode
  BY <1>2, <1>4, NodeIsSound DEF Types
<1> QED BY <1>1, <1>5, VisitSound

LEMMA CastSound == ASSUME IInv, NEW type \in CastTypes, Cast(type) PROVE IInv'
<1> DEFINE x == Operand(1, 1)
           value == [row \in Rows |-> Within(type, x.value[row])]
           plain == Node(type, x.null, value, {x})
           node == [plain EXCEPT !.untyped = FALSE]
<1>1. Has(1) /\ Visit(1, node)
  BY DEF Cast
<1>2. x \in SoundNode /\ type \in Types
  BY <1>1, InferAssumption, OperandIsSound DEF IInv, Types, Numeric
<1> HIDE DEF x
<1>3. ASSUME NEW row \in Rows
      PROVE  value[row] \in Values /\ (x.value[row] # Null => value[row] # Null)
  <2>1. x.value[row] \in Values
    BY <1>2, NodeHas
  <2> QED BY <2>1, WithinValue DEF NotNull
<1> HIDE DEF value
<1>4. value \in [Rows -> Values]
  BY <1>3 DEF value
<1>5. x.null = 1 => ((\A y \in {x} : ~y.arrays) => \A row \in Rows : value[row] # Null)
  BY <1>2, <1>3, NodeHas
<1>6. plain \in SoundNode
  BY <1>2, <1>4, <1>5, NodeHas, NodeIsSound
<1> HIDE DEF plain
<1>7. node \in Nodes /\ node = [plain EXCEPT !.untyped = FALSE]
  BY <1>6 DEF SoundNode, Nodes
<1>8. node.value = plain.value /\ node.null = plain.null /\ node.arrays = plain.arrays
      /\ FoldHolds(node) /\ LiteralHolds(node)
  BY <1>6 DEF SoundNode, Nodes, FoldHolds, LiteralHolds
<1> HIDE DEF node
<1>9. node \in SoundNode
  BY <1>6, <1>7, <1>8, FoldedIsSound
<1> QED BY <1>1, <1>9, VisitSound

LEMMA UnknownFunctionSound == ASSUME IInv, NEW v \in Outcomes, UnknownFunction(v) PROVE IInv'
<1> DEFINE x == Operand(1, 1)
<1>1. Has(1) /\ Visit(1, Node("Unknown", 2, Constant(v), {x}))
  BY DEF UnknownFunction
<1>2. x \in SoundNode
  BY <1>1, OperandIsSound DEF IInv
<1>3. v \in Values /\ "Unknown" \in Types
  BY InferAssumption, DomainTyped DEF Types, Wildcard
<1> HIDE DEF x
<1>4. Node("Unknown", 2, Constant(v), {x}) \in SoundNode
  BY <1>2, <1>3, ConstantTyped, NodeIsSound
<1> QED BY <1>1, <1>4, VisitSound

\* COUNT is a number; the greatest of the values that are not NULL is one of them.
LEMMA GroupValues ==
  ASSUME NEW x \in SoundNode, NEW group \in {{}, Rows}
  PROVE  LET values == {x.value[row] : row \in group}
         IN  /\ values \subseteq Values
             /\ Cardinality({row \in group : x.value[row] # Null}) \in Nat
             /\ values \cap {Fault, Abort} = {} /\ ~(values \subseteq {Null}) =>
                  (CHOOSE v \in values \ {Null} : \A w \in values \ {Null} : w <= v)
                    \in values \ {Null}
<1> DEFINE values == {x.value[row] : row \in group}
<1>1. group \subseteq Rows /\ IsFiniteSet(group)
  BY RowsFinite, FS_EmptySet
<1>2. values \subseteq Values
  BY <1>1, NodeHas
<1>3. Cardinality({row \in group : x.value[row] # Null}) \in Nat
  <2>1. IsFiniteSet({row \in group : x.value[row] # Null})
    BY <1>1, FS_Subset
  <2> QED BY <2>1, FS_CardinalityType
<1>4. IsFiniteSet(values)
  <2> DEFINE f == [row \in group |-> x.value[row]]
  <2>1. f \in Surjection(group, values)
    BY DEF Surjection
  <2> QED BY <1>1, <2>1, FS_Surjection
<1> HIDE DEF values
<1>5. ASSUME values \cap {Fault, Abort} = {}, ~(values \subseteq {Null})
      PROVE  \E v \in values \ {Null} : \A w \in values \ {Null} : w <= v
  <2>1. IsFiniteSet(values \ {Null})
    BY <1>4, FS_RemoveElement
  <2>2. values \ {Null} \subseteq Int /\ values \ {Null} # {}
    BY <1>2, <1>5 DEF Values
  <2> QED BY <2>1, <2>2, GreatestExists
<1>6. values \cap {Fault, Abort} = {} /\ ~(values \subseteq {Null}) =>
        (CHOOSE v \in values \ {Null} : \A w \in values \ {Null} : w <= v) \in values \ {Null}
  BY <1>5
<1> QED BY <1>2, <1>3, <1>6 DEF values

LEMMA AggregateSound ==
  ASSUME IInv, NEW name \in {"COUNT", "MAX"}, NEW group \in {{}, Rows}, Aggregate(name, group)
  PROVE  IInv'
<1> DEFINE x == Operand(1, 1)
           values == {x.value[row] : row \in group}
           count == Cardinality({row \in group : x.value[row] # Null})
           greatest == CHOOSE v \in values \ {Null} : \A w \in values \ {Null} : w <= v
           answer == CASE values \cap {Fault, Abort} # {} -> Failed(values)
                       [] values \cap {Fault, Abort} = {} /\ name = "COUNT" -> Within("BigInt", count)
                       [] OTHER -> IF values \subseteq {Null} THEN Null ELSE greatest
           type == IF name = "COUNT" THEN "BigInt" ELSE x.type
           null == IF name = "COUNT" THEN 1 ELSE 2
<1>1. Has(1) /\ Visit(1, Node(type, null, Constant(answer), {x}))
  BY DEF Aggregate
<1>2. x \in SoundNode
  BY <1>1, OperandIsSound DEF IInv
<1> HIDE DEF x
<1>3. /\ values \subseteq Values /\ count \in Nat
      /\ values \cap {Fault, Abort} = {} /\ ~(values \subseteq {Null}) =>
           greatest \in values \ {Null}
  BY <1>2, GroupValues
<1>4. Failed(values) \in NotNull
  BY MarksAreApart DEF Failed, NotNull, Values
<1>5. Within("BigInt", count) \in NotNull
  <2>1. count \in Values /\ count # Null
    BY <1>3, MarksAreApart DEF Values
  <2> QED BY <2>1, WithinValue
<1> HIDE DEF values, count, greatest
<1>6. answer \in Values /\ (name = "COUNT" => answer # Null)
  BY <1>3, <1>4, <1>5 DEF NotNull, Values
<1>7. type \in Types /\ null \in {1, 2} /\ (null = 1 => name = "COUNT")
  BY <1>2, NodeHas DEF Types, Numeric
<1> HIDE DEF answer, type, null
<1>8. Node(type, null, Constant(answer), {x}) \in SoundNode
  BY <1>2, <1>6, <1>7, ConstantTyped, NodeIsSound
<1> QED BY <1>1, <1>8, VisitSound

-----------------------------------------------------------------------------
(* Two and more operands.                                                   *)

LEMMA Combined ==
  ASSUME NEW nulls, nulls \subseteq {1, 2}, nulls # {}
  PROVE  /\ CombineNullableAny(nulls) \in {1, 2}
         /\ CombineNullableAny(nulls) = 1 => 2 \notin nulls /\ \A n \in nulls : n = 1
<1>1. CASE 2 \in nulls
  <2>1. CombineNullableAny(nulls) = 2 /\ 2 # 1
    BY <1>1 DEF CombineNullableAny
  <2> QED BY <2>1
<1>2. CASE 2 \notin nulls
  <2>1. nulls = {1}
    BY <1>2
  <2> QED BY <1>2, <2>1 DEF CombineNullableAny
<1> QED BY <1>1, <1>2

LEMMA CoalescedNullability ==
  ASSUME NEW nulls, nulls \subseteq {1, 2}, nulls # {}
  PROVE  /\ CoalesceNullability(nulls) \in {1, 2}
         /\ CoalesceNullability(nulls) = 1 => 1 \in nulls
BY DEF CoalesceNullability

LEMMA CoercedTyped ==
  ASSUME NEW s \in Types, NEW t \in Types
  PROVE  Coerce(s, t) \in Types
BY DEF Coerce, Promote

\* Two operands, and a value that is NULL only where one of them is.
LEMMA StrictPairSound ==
  ASSUME NEW x \in SoundNode, NEW y \in SoundNode, NEW type \in Types,
         NEW value, value = [row \in Rows |-> value[row]],
         \A row \in Rows :
           /\ value[row] \in Values
           /\ x.value[row] # Null /\ y.value[row] # Null => value[row] # Null
  PROVE  Node(type, CombineNullableAny({x.null, y.null}), value, {x, y}) \in SoundNode
<1> DEFINE null == CombineNullableAny({x.null, y.null})
<1>1. x.null \in {1, 2} /\ y.null \in {1, 2}
  BY NodeHas
<1>2. null \in {1, 2} /\ (null = 1 => x.null = 1 /\ y.null = 1)
  BY <1>1, Combined
<1> HIDE DEF null
<1>3. value \in [Rows -> Values]
  OBVIOUS
<1>4. null = 1 => ((\A z \in {x, y} : ~z.arrays) => \A row \in Rows : value[row] # Null)
  BY <1>2, NodeHas
<1>5. Node(type, null, value, {x, y}) \in SoundNode
  BY <1>2, <1>3, <1>4, NodeIsSound
<1> QED BY <1>5 DEF null

LEMMA ArithmeticValue ==
  ASSUME NEW v \in Values, NEW w \in Values, NEW type, NEW result,
         result \in IntegerRange(type) \cup {Fault, Abort}
  PROVE  LET value == IF {v, w} \subseteq Int THEN result ELSE Strict({v, w}, Null)
         IN  value \in Values /\ (v # Null /\ w # Null => value # Null)
<1>1. result \in NotNull
  BY RangesAreIntegers, MarksAreApart DEF NotNull, Values
<1>2. CASE {v, w} \subseteq Int
  BY <1>1, <1>2 DEF NotNull
<1>3. CASE ~({v, w} \subseteq Int)
  <2>1. {v, w} \subseteq Values /\ Null \in Values
    BY DEF Values
  <2>2. Strict({v, w}, Null) \in Values
    BY <2>1, StrictValue
  <2>3. v # Null /\ w # Null => {v, w} \cap {Fault, Abort} # {}
    BY <1>3 DEF Values
  <2>4. v # Null /\ w # Null => Strict({v, w}, Null) # Null
    BY <2>3, MarksAreApart DEF Strict, Failed
  <2> QED BY <1>3, <2>2, <2>4
<1> QED BY <1>2, <1>3

LEMMA ArithmeticSound == ASSUME IInv, NEW op \in ArithmeticOps, Arithmetic(op) PROVE IInv'
<1> DEFINE x == Operand(2, 1)
           y == Operand(2, 2)
           type == Coerce(x.type, y.type)
           divides == op \in {"/", "%"}
           result(v, w) == IF divides /\ w = 0 THEN (IF y.literal THEN Fault ELSE Abort)
                           ELSE IF Exact(op, v, w) \in IntegerRange(type) THEN Exact(op, v, w)
                           ELSE IF x.literal /\ y.literal /\ ~divides THEN Fault ELSE Abort
           term(v, w) == IF {v, w} \subseteq Int THEN result(v, w) ELSE Strict({v, w}, Null)
           value == [row \in Rows |-> term(x.value[row], y.value[row])]
           bare == Node(type, CombineNullableAny({x.null, y.null}), value, {x, y})
           int == FoldArithmetic(op, x.int, y.int)
           literal == x.literal /\ y.literal /\ ~divides
           plain == /\ x.plain /\ y.plain
                    /\ \A row \in Rows : Null \notin {x.value[row], y.value[row]}
           node == [bare EXCEPT !.int = int, !.literal = literal, !.plain = plain]
<1>1. Has(2) /\ Replace(2, node) /\ cases' = cases /\ div0Suppress' = div0Suppress
      /\ leaves' = leaves
  BY DEF Arithmetic
<1>2. warnings' \subseteq {"DivisionByZero", "IntegerOverflow"}
  BY DEF Arithmetic, IInv
<1>3. x \in SoundNode /\ y \in SoundNode
  BY <1>1, OperandIsSound DEF IInv
<1> HIDE DEF x, y
<1>4. type \in Types
  BY <1>3, NodeHas, CoercedTyped
<1> HIDE DEF type
<1>5. ASSUME NEW row \in Rows
      PROVE  /\ value[row] \in Values
             /\ x.value[row] # Null /\ y.value[row] # Null => value[row] # Null
  <2> DEFINE v == x.value[row]
             w == y.value[row]
  <2>1. v \in Values /\ w \in Values
    BY <1>3, NodeHas
  <2>2. value[row] = term(v, w)
    OBVIOUS
  <2> HIDE DEF v, w, value
  <2>3. result(v, w) \in IntegerRange(type) \cup {Fault, Abort}
    OBVIOUS
  <2> HIDE DEF result
  <2>4. term(v, w) \in Values /\ (v # Null /\ w # Null => term(v, w) # Null)
    BY <2>1, <2>3, ArithmeticValue
  <2> QED BY <2>2, <2>4 DEF v, w
<1>6. value = [row \in Rows |-> value[row]]
  OBVIOUS
<1>7. literal => type \in {"Integer", "BigInt"}
  BY <1>3, NodeHas DEF LiteralHolds, type, Coerce, Promote, Wildcard
<1>8. ASSUME NEW row \in Rows
      PROVE  /\ value[row] \in {Fault, Abort} \/ int \in {None, value[row]}
             /\ literal /\ value[row] \in Int => int = value[row]
  <2> DEFINE v == x.value[row]
             w == y.value[row]
  <2>1. /\ v \in Values /\ x.int \in Int \cup {None}
        /\ w \in Values /\ y.int \in Int \cup {None}
    BY <1>3, NodeHas
  <2>2. /\ v \in {Fault, Abort} \/ x.int \in {None, v}
        /\ w \in {Fault, Abort} \/ y.int \in {None, w}
    BY <1>3, NodeHas DEF FoldHolds
  <2>3. literal => (v \in Int => x.int = v) /\ (w \in Int => y.int = w)
    BY <1>3, NodeHas DEF LiteralHolds
  <2>4. value[row] = term(v, w)
    OBVIOUS
  <2> HIDE DEF v, w, value
  <2>5. CASE {v, w} \subseteq Int
    <3>1. value[row] = result(v, w)
      BY <2>4, <2>5
    <3>2. value[row] \in {Fault, Abort}
          \/ (value[row] = Exact(op, v, w) /\ value[row] \in IntegerRange(type))
      BY <3>1
    <3>3. int \in {None, Exact(op, v, w)}
      BY <2>2, <2>5, MarksAreApart DEF FoldArithmetic
    <3>4. type \in {"Integer", "BigInt"} => IntegerRange(type) \subseteq MinBig .. MaxBig
      BY InferAssumption DEF IntegerRange, MinInt, MinBig
    <3>5. literal => op \in {"+", "-", "*"}
      BY InferAssumption
    <3>6. ASSUME literal, value[row] \in Int PROVE int = value[row]
      <4>1. value[row] = Exact(op, v, w) /\ value[row] \in MinBig .. MaxBig
        BY <1>7, <3>2, <3>4, <3>6, MarksAreApart
      <4>2. x.int = v /\ y.int = w /\ None \notin {v, w}
        BY <2>3, <2>5, <3>6, MarksAreApart
      <4> QED BY <3>5, <3>6, <4>1, <4>2 DEF FoldArithmetic
    <3> QED BY <3>2, <3>3, <3>6
  <2>6. CASE ~({v, w} \subseteq Int)
    <3>1. value[row] = Strict({v, w}, Null)
      BY <2>4, <2>6
    <3>2. value[row] \notin Int
      BY <3>1, MarksAreApart DEF Strict, Failed
    <3>3. value[row] \in {Fault, Abort} \/ {v, w} \cap {Fault, Abort} = {}
      BY <3>1 DEF Strict, Failed
    <3>4. {v, w} \cap {Fault, Abort} = {} => None \in {x.int, y.int}
      BY <2>1, <2>2, <2>6
    <3>5. None \in {x.int, y.int} => int = None
      BY DEF FoldArithmetic
    <3> QED BY <3>2, <3>3, <3>4, <3>5
  <2> QED BY <2>5, <2>6
<1>9. bare.value = value /\ bare.type = type /\ bare.bool = None
  BY DEF Node
<1> HIDE DEF value
<1>10. bare \in SoundNode
  BY <1>3, <1>4, <1>5, <1>6, StrictPairSound
<1>11. int \in Int \cup {None}
  BY InferAssumption DEF FoldArithmetic, MinBig
<1>12. literal \in BOOLEAN
  BY <1>3, NodeHas
<1>13. plain \in BOOLEAN
  BY <1>3, NodeHas
<1> HIDE DEF bare, int, literal, plain
<1>14. /\ node \in Nodes /\ node.arrays = bare.arrays /\ node.null = bare.null
       /\ node.value = value /\ node.type = type /\ node.int = int /\ node.bool = None
       /\ node.literal = literal
  BY <1>9, <1>10, <1>11, <1>12, <1>13 DEF SoundNode, Nodes
<1>15. leaves' \in 0 .. MaxLeaves
  BY <1>1 DEF IInv
<1> HIDE DEF node
<1>16. FoldHolds(node) /\ LiteralHolds(node)
  BY <1>7, <1>8, <1>14 DEF FoldHolds, LiteralHolds
<1>17. node \in SoundNode
  BY <1>9, <1>10, <1>14, <1>16, FoldedIsSound
<1> QED BY <1>1, <1>2, <1>15, <1>17, StackGrown

LEMMA ComparisonSound == ASSUME IInv, NEW op, Comparison(op) PROVE IInv'
<1> DEFINE x == Operand(2, 1)
           y == Operand(2, 2)
           term(v, w) == IF op = "=" THEN Equals(v, w) ELSE LessEqual(v, w)
           value == [row \in Rows |-> term(x.value[row], y.value[row])]
           bare == Node("Boolean", CombineNullableAny({x.null, y.null}), value, {x, y})
           bool == FoldComparison(op, x.int, y.int)
           plain == x.literal /\ y.literal
           node == [bare EXCEPT !.bool = bool, !.plain = plain]
<1>1. Has(2) /\ Visit(2, node)
  BY DEF Comparison
<1>2. x \in SoundNode /\ y \in SoundNode /\ "Boolean" \in Types
  BY <1>1, OperandIsSound DEF IInv, Types
<1> HIDE DEF x, y
<1>3. ASSUME NEW row \in Rows
      PROVE  /\ value[row] \in Values
             /\ x.value[row] # Null /\ y.value[row] # Null => value[row] # Null
  <2>1. x.value[row] \in Values /\ y.value[row] \in Values
    BY <1>2, NodeHas
  <2> QED BY <2>1, ComparedValue DEF NotNull
<1>4. value = [row \in Rows |-> value[row]]
  OBVIOUS
<1>5. ASSUME NEW row \in Rows
      PROVE  value[row] \in {Fault, Abort} \/ bool \in {None, value[row]}
  <2> DEFINE v == x.value[row]
             w == y.value[row]
  <2>1. x.int \in Int \cup {None} /\ y.int \in Int \cup {None}
    BY <1>2, NodeHas
  <2>2. (v \in {Fault, Abort} \/ x.int \in {None, v}) /\ (w \in {Fault, Abort} \/ y.int \in {None, w})
    BY <1>2, NodeHas DEF FoldHolds
  <2>3. value[row] = term(v, w)
    OBVIOUS
  <2> HIDE DEF v, w, value
  <2>4. CASE {v, w} \cap {Fault, Abort} # {}
    BY <2>3, <2>4 DEF Equals, LessEqual, Strict, Failed
  <2>5. CASE {v, w} \cap {Fault, Abort} = {} /\ None \notin {x.int, y.int}
    <3>1. x.int = v /\ y.int = w /\ v \in Int /\ w \in Int
      BY <2>1, <2>2, <2>5
    <3>2. term(v, w) = Truth(IF op = "=" THEN v = w ELSE v <= w)
      BY <2>5, <3>1, MarksAreApart DEF Equals, LessEqual, Strict, Truth
    <3> QED BY <2>3, <2>5, <3>1, <3>2 DEF FoldComparison
  <2>6. CASE None \in {x.int, y.int}
    BY <2>6 DEF FoldComparison
  <2> QED BY <2>4, <2>5, <2>6
<1>6. bare.value = value /\ bare.int = None /\ ~bare.literal
  BY DEF Node
<1> HIDE DEF value
<1>7. bare \in SoundNode
  BY <1>2, <1>3, <1>4, StrictPairSound
<1>8. bool \in {0, 1, None} /\ plain \in BOOLEAN
  BY <1>2, NodeHas DEF FoldComparison, Truth
<1> HIDE DEF bare, bool, plain
<1>9. /\ node \in Nodes /\ node.arrays = bare.arrays /\ node.null = bare.null
      /\ node.value = bare.value /\ node.int = bare.int /\ node.bool = bool
      /\ node.literal = bare.literal
  BY <1>7, <1>8 DEF SoundNode, Nodes
<1> HIDE DEF node
<1>10. FoldHolds(node) /\ LiteralHolds(node)
  BY <1>5, <1>6, <1>9 DEF FoldHolds, LiteralHolds
<1>11. node \in SoundNode
  BY <1>7, <1>9, <1>10, FoldedIsSound
<1> QED BY <1>1, <1>11, VisitSound

LEMMA LogicalSound == ASSUME IInv, NEW op, Logical(op) PROVE IInv'
<1> DEFINE x == Operand(2, 1)
           y == Operand(2, 2)
           term(operands) == IF op = "AND" THEN And(operands) ELSE Or(operands)
           value == [row \in Rows |-> term({x.value[row], y.value[row]})]
           node == Node("Boolean", CombineNullableAny({x.null, y.null}), value, {x, y})
<1>1. Has(2) /\ Visit(2, node)
  BY DEF Logical
<1>2. x \in SoundNode /\ y \in SoundNode /\ "Boolean" \in Types
  BY <1>1, OperandIsSound DEF IInv, Types
<1> HIDE DEF x, y
<1>3. ASSUME NEW row \in Rows
      PROVE  /\ value[row] \in Values
             /\ x.value[row] # Null /\ y.value[row] # Null => value[row] # Null
  <2>1. {x.value[row], y.value[row]} \subseteq Values
    BY <1>2, NodeHas
  <2> QED BY <2>1, AndOrValue DEF NotNull
<1>4. value = [row \in Rows |-> value[row]]
  OBVIOUS
<1> HIDE DEF value
<1>5. node \in SoundNode
  BY <1>2, <1>3, <1>4, StrictPairSound
<1> HIDE DEF node
<1> QED BY <1>1, <1>5, VisitSound

LEMMA DistinctFromSound == ASSUME IInv, DistinctFrom PROVE IInv'
<1> DEFINE x == Operand(2, 1)
           y == Operand(2, 2)
           term(v, w) == IF {v, w} \cap {Fault, Abort} # {} THEN Failed({v, w}) ELSE Truth(v # w)
           value == [row \in Rows |-> term(x.value[row], y.value[row])]
<1>1. Has(2) /\ Visit(2, Node("Boolean", 1, value, {x, y}))
  BY DEF DistinctFrom
<1>2. x \in SoundNode /\ y \in SoundNode /\ "Boolean" \in Types
  BY <1>1, OperandIsSound DEF IInv, Types
<1>3. \A v, w : term(v, w) \in NotNull
  BY TruthValue, MarksAreApart DEF Failed, NotNull, Values
<1> HIDE DEF term
<1>4. value \in [Rows -> Values] /\ \A row \in Rows : value[row] # Null
  BY <1>3 DEF NotNull
<1> HIDE DEF x, y, value
<1>5. Node("Boolean", 1, value, {x, y}) \in SoundNode
  BY <1>2, <1>4, NodeIsSound
<1> QED BY <1>1, <1>5, VisitSound

\* NULL only if both arguments are: one that is not is enough.
LEMMA CoalesceSound == ASSUME IInv, NEW name, Coalesce(name) PROVE IInv'
<1> DEFINE x == Operand(2, 1)
           y == Operand(2, 2)
           term(v, w) == IF v \in {Fault, Abort} THEN v
                         ELSE IF (name = "COALESCE" /\ v # Null) \/ w = Null THEN v
                         ELSE IF v \notin Int \/ w \notin Int THEN w
                         ELSE IF v <= w THEN w ELSE v
           value == [row \in Rows |-> term(x.value[row], y.value[row])]
           null == CoalesceNullability({x.null, y.null})
           type == Coerce(x.type, y.type)
<1>1. Has(2) /\ Visit(2, Node(type, null, value, {x, y}))
  BY DEF Coalesce
<1>2. x \in SoundNode /\ y \in SoundNode
  BY <1>1, OperandIsSound DEF IInv
<1> HIDE DEF x, y
<1>3. type \in Types
  BY <1>2, NodeHas, CoercedTyped
<1>4. null \in {1, 2} /\ (null = 1 => x.null = 1 \/ y.null = 1)
  <2>1. x.null \in {1, 2} /\ y.null \in {1, 2}
    BY <1>2, NodeHas
  <2> QED BY <2>1, CoalescedNullability
<1>5. ASSUME NEW row \in Rows
      PROVE  /\ value[row] \in Values
             /\ x.value[row] # Null \/ y.value[row] # Null => value[row] # Null
  <2>1. x.value[row] \in Values /\ y.value[row] \in Values
    BY <1>2, NodeHas
  <2> QED BY <2>1, MarksAreApart
<1> HIDE DEF value, null, type
<1>6. value \in [Rows -> Values]
  BY <1>5 DEF value
<1>7. null = 1 => ((\A z \in {x, y} : ~z.arrays) => \A row \in Rows : value[row] # Null)
  BY <1>2, <1>4, <1>5, NodeHas
<1>8. Node(type, null, value, {x, y}) \in SoundNode
  BY <1>2, <1>3, <1>4, <1>6, <1>7, NodeIsSound
<1> QED BY <1>1, <1>8, VisitSound

LEMMA NullIfSound == ASSUME IInv, NullIf PROVE IInv'
<1> DEFINE x == Operand(2, 1)
           y == Operand(2, 2)
           term(v, w) == IF {v, w} \cap {Fault, Abort} # {} THEN Failed({v, w})
                         ELSE IF v = w THEN Null ELSE v
           value == [row \in Rows |-> term(x.value[row], y.value[row])]
<1>1. Has(2) /\ Visit(2, Node(x.type, 2, value, {x, y}))
  BY DEF NullIf
<1>2. x \in SoundNode /\ y \in SoundNode
  BY <1>1, OperandIsSound DEF IInv
<1> HIDE DEF x, y
<1>3. \A v \in Values : \A w : term(v, w) \in Values
  BY DEF Failed, Values
<1>4. value \in [Rows -> Values]
  BY <1>2, <1>3, NodeHas
<1> HIDE DEF value
<1>5. Node(x.type, 2, value, {x, y}) \in SoundNode
  BY <1>2, <1>4, NodeHas, NodeIsSound
<1> QED BY <1>1, <1>5, VisitSound

LEMMA BetweenSound == ASSUME IInv, Between PROVE IInv'
<1> DEFINE x == Operand(3, 1)
           low == Operand(3, 2)
           high == Operand(3, 3)
           sides(row) == {LessEqual(low.value[row], x.value[row]),
                          LessEqual(x.value[row], high.value[row])}
           value == [row \in Rows |-> And(sides(row))]
           null == CombineNullableAny({x.null, low.null, high.null})
<1>1. Has(3) /\ Visit(3, Node("Boolean", null, value, {x, low, high}))
  BY DEF Between
<1>2. x \in SoundNode /\ low \in SoundNode /\ high \in SoundNode /\ "Boolean" \in Types
  BY <1>1, OperandIsSound DEF IInv, Types
<1> HIDE DEF x, low, high
<1>3. null \in {1, 2} /\ (null = 1 => x.null = 1 /\ low.null = 1 /\ high.null = 1)
  <2>1. x.null \in {1, 2} /\ low.null \in {1, 2} /\ high.null \in {1, 2}
    BY <1>2, NodeHas
  <2> QED BY <2>1, Combined
<1>4. ASSUME NEW row \in Rows
      PROVE  /\ value[row] \in Values
             /\ x.value[row] # Null /\ low.value[row] # Null /\ high.value[row] # Null
                  => value[row] # Null
  <2>1. x.value[row] \in Values /\ low.value[row] \in Values /\ high.value[row] \in Values
    BY <1>2, NodeHas
  <2>2. sides(row) \subseteq Values
    BY <2>1, ComparedValue
  <2>3. x.value[row] # Null /\ low.value[row] # Null /\ high.value[row] # Null
          => Null \notin sides(row)
    BY <2>1, ComparedValue DEF NotNull
  <2>4. value[row] = And(sides(row))
    OBVIOUS
  <2> HIDE DEF sides, value
  <2> QED BY <2>2, <2>3, <2>4, AndOrValue DEF NotNull
<1> HIDE DEF value, null
<1>5. value \in [Rows -> Values]
  BY <1>4 DEF value
<1>6. null = 1 => ((\A z \in {x, low, high} : ~z.arrays) => \A row \in Rows : value[row] # Null)
  BY <1>2, <1>3, <1>4, NodeHas
<1>7. Node("Boolean", null, value, {x, low, high}) \in SoundNode
  BY <1>2, <1>3, <1>5, <1>6, NodeIsSound
<1> QED BY <1>1, <1>7, VisitSound

LEMMA FoundValue ==
  ASSUME IInv, NEW n \in 2 .. 3, Has(n)
  PROVE  /\ Operand(n, 1) \in SoundNode /\ Elements(n) \subseteq SoundNode
         /\ \A row \in Rows :
              /\ Found(n, row) \in Values
              /\ (\A i \in 1 .. n : Operand(n, i).value[row] # Null) => Found(n, row) # Null
<1>1. \A i \in 1 .. n : Operand(n, i) \in SoundNode
  BY OperandIsSound DEF IInv
<1>2. Operand(n, 1) \in SoundNode /\ Elements(n) \subseteq SoundNode
  BY <1>1 DEF Elements
<1>3. ASSUME NEW row \in Rows
      PROVE  /\ Found(n, row) \in Values
             /\ (\A i \in 1 .. n : Operand(n, i).value[row] # Null) => Found(n, row) # Null
  <2> DEFINE x == Operand(n, 1)
             hits == {Equals(x.value[row], e.value[row]) : e \in Elements(n)}
  <2>1. x.value[row] \in Values /\ \A e \in Elements(n) : e.value[row] \in Values
    BY <1>2, NodeHas
  <2>2. hits \subseteq Values
    BY <2>1, ComparedValue
  <2>3. (\A i \in 1 .. n : Operand(n, i).value[row] # Null) => Null \notin hits
    <3> SUFFICES ASSUME \A i \in 1 .. n : Operand(n, i).value[row] # Null
                 PROVE  Null \notin hits
      OBVIOUS
    <3>1. x.value[row] # Null /\ \A e \in Elements(n) : e.value[row] # Null
      BY DEF Elements
    <3> QED BY <2>1, <3>1, ComparedValue DEF NotNull
  <2>4. Found(n, row) = Or(hits)
    BY DEF Found
  <2> HIDE DEF x, hits
  <2> QED BY <2>2, <2>3, <2>4, AndOrValue DEF NotNull
<1> QED BY <1>2, <1>3

LEMMA InListSound == ASSUME IInv, NEW n \in 2 .. 3, InList(n) PROVE IInv'
<1> DEFINE nulls == {Operand(n, i).null : i \in 1 .. n}
           null == CombineNullableAny(nulls)
           value == [row \in Rows |-> Found(n, row)]
           operands == {Operand(n, 1)} \cup Elements(n)
<1>1. Has(n) /\ Visit(n, Node("Boolean", null, value, operands))
  BY DEF InList, Comparable
<1>2. operands \subseteq SoundNode /\ "Boolean" \in Types
  BY <1>1, FoundValue DEF Types
<1>3. \A i \in 1 .. n : Operand(n, i) \in SoundNode /\ Operand(n, i) \in operands
  BY <1>1, OperandIsSound DEF IInv, Elements
<1>4. value \in [Rows -> Values]
  BY <1>1, FoundValue
<1>5. null \in {1, 2} /\ (null = 1 => \A i \in 1 .. n : Operand(n, i).null = 1)
  <2>1. nulls \subseteq {1, 2} /\ nulls # {}
    BY <1>3, NodeHas
  <2>2. \A i \in 1 .. n : Operand(n, i).null \in nulls
    OBVIOUS
  <2> HIDE DEF nulls
  <2> QED BY <2>1, <2>2, Combined
<1>6. null = 1 => ((\A z \in operands : ~z.arrays) => \A row \in Rows : value[row] # Null)
  <2> SUFFICES ASSUME null = 1, \A z \in operands : ~z.arrays, NEW row \in Rows
               PROVE  value[row] # Null
    OBVIOUS
  <2>1. \A i \in 1 .. n : Operand(n, i).value[row] # Null
    BY <1>3, <1>5, NodeHas
  <2> QED BY <1>1, <2>1, FoundValue
<1> HIDE DEF null, value, operands
<1>7. Node("Boolean", null, value, operands) \in SoundNode
  BY <1>2, <1>4, <1>5, <1>6, NodeIsSound
<1>8. n \in Nat
  OBVIOUS
<1> QED BY <1>1, <1>7, <1>8, VisitSound

LEMMA InSubquerySound ==
  ASSUME IInv, NEW result \in SubqueryResults, NEW nullable \in BOOLEAN,
         InSubquery(result, nullable)
  PROVE  IInv'
<1> DEFINE x == Operand(1, 1)
           null == CombineNullableAny({x.null, IF nullable THEN 2 ELSE 1})
           hits(row) == {Equals(x.value[row], v) : v \in result}
           value == [row \in Rows |-> Or(hits(row))]
<1>1. Has(1) /\ Visit(1, Node("Boolean", null, value, {x})) /\ (Null \in result => nullable)
  BY DEF InSubquery
<1>2. x \in SoundNode /\ "Boolean" \in Types
  BY <1>1, OperandIsSound DEF IInv, Types
<1> HIDE DEF x
<1>3. result \subseteq Values
  BY InferAssumption, DomainTyped
<1>4. null \in {1, 2} /\ (null = 1 => x.null = 1 /\ Null \notin result)
  <2> DEFINE nulls == {x.null, IF nullable THEN 2 ELSE 1}
  <2>1. nulls \subseteq {1, 2} /\ x.null \in nulls
    BY <1>2, NodeHas
  <2>2. Null \in result => 2 \in nulls
    BY <1>1
  <2>3. null = CombineNullableAny(nulls)
    BY DEF nulls
  <2> HIDE DEF nulls, null
  <2>4. null \in {1, 2} /\ (null = 1 => x.null = 1 /\ 2 \notin nulls)
    BY <2>1, <2>3, Combined
  <2> QED BY <2>2, <2>4
<1>5. ASSUME NEW row \in Rows
      PROVE  /\ value[row] \in Values
             /\ x.value[row] # Null /\ Null \notin result => value[row] # Null
  <2>1. x.value[row] \in Values
    BY <1>2, NodeHas
  <2>2. hits(row) \subseteq Values
    BY <1>3, <2>1, ComparedValue
  <2>3. x.value[row] # Null /\ Null \notin result => Null \notin hits(row)
    BY <1>3, <2>1, ComparedValue DEF NotNull
  <2>4. value[row] = Or(hits(row))
    OBVIOUS
  <2> HIDE DEF hits, value
  <2> QED BY <2>2, <2>3, <2>4, AndOrValue DEF NotNull
<1> HIDE DEF value, null
<1>6. value \in [Rows -> Values]
  BY <1>5 DEF value
<1>7. null = 1 => ((\A z \in {x} : ~z.arrays) => \A row \in Rows : value[row] # Null)
  BY <1>2, <1>4, <1>5, NodeHas
<1>8. Node("Boolean", null, value, {x}) \in SoundNode
  BY <1>2, <1>4, <1>6, <1>7, NodeIsSound
<1> QED BY <1>1, <1>8, VisitSound

LEMMA EqualsAnyArraySound == ASSUME IInv, NEW n \in 2 .. 3, EqualsAnyArray(n) PROVE IInv'
<1> DEFINE null == CombineNullableAny({Operand(n, 1).null, 1})
           value == [row \in Rows |-> Found(n, row)]
           bare == Node("Boolean", null, value, {})
<1>1. Has(n) /\ Visit(n, [bare EXCEPT !.arrays = TRUE])
  BY DEF EqualsAnyArray, Comparable
<1>2. value \in [Rows -> Values] /\ "Boolean" \in Types
  BY <1>1, FoundValue DEF Types
<1>3. null \in {1, 2}
  <2>1. Operand(n, 1).null \in {1, 2}
    BY <1>1, FoundValue, NodeHas
  <2> QED BY <2>1, Combined
<1> HIDE DEF null, value
<1>4. [bare EXCEPT !.arrays = TRUE] \in SoundNode
  BY <1>2, <1>3 DEF Node, SoundNode, Nodes, FoldHolds, LiteralHolds
<1>5. n \in Nat
  OBVIOUS
<1> HIDE DEF bare
<1> QED BY <1>1, <1>4, <1>5, VisitSound

-----------------------------------------------------------------------------
(* CASE: a frame is pushed, changed and popped.                             *)

LEMMA OpenIsSound ==
  ASSUME IInv, cases # <<>>
  PROVE  /\ Len(cases) \in Nat \ {0} /\ DOMAIN cases = 1 .. Len(cases)
         /\ Open \in SoundFrame /\ Base = Open.height /\ Open.height \in 0 .. Len(stack)
         /\ \A d \in DOMAIN cases : cases[d].height <= Open.height
<1>1. Len(cases) \in Nat \ {0} /\ DOMAIN cases = 1 .. Len(cases)
  BY DEF IInv, Typed
<1>2. Open \in SoundFrame
  BY <1>1 DEF IInv, Typed, Open
<1>3. Base = Open.height
  BY DEF Base, Open
<1> QED BY <1>1, <1>2, <1>3, BaseIsHeight DEF IInv

LEMMA DeadArmsFinite == ASSUME IInv PROVE IsFiniteSet(DeadArms)
<1>1. DOMAIN cases = 1 .. Len(cases) /\ Len(cases) \in Nat
  BY DEF IInv, Typed
<1>2. IsFiniteSet(1 .. Len(cases))
  BY <1>1, FS_Interval
<1>3. DeadArms \subseteq 1 .. Len(cases)
  BY <1>1 DEF DeadArms
<1> QED BY <1>2, <1>3, FS_Subset

LEMMA FrameHas ==
  ASSUME NEW f \in SoundFrame
  PROVE  /\ f.phase \in Phases /\ f.simple \in BOOLEAN /\ f.operand \in SoundNode
         /\ f.height \in Nat /\ f.folded \in {0, 1, None} /\ f.dead \in BOOLEAN
         /\ f.priorTaken \in BOOLEAN /\ f.type \in Types /\ f.nulls \subseteq {1, 2}
         /\ f.plain \in BOOLEAN /\ f.arrays \in BOOLEAN /\ f.untyped \in BOOLEAN
         /\ f.phase = "guard" => ~f.dead
         /\ \A row \in Rows : f.value[row] \in Values \cup {Pending}
         /\ \A row \in Rows : f.guard[row] \in Values \cup {Pending}
         /\ ~f.arrays /\ 2 \notin f.nulls => \A row \in Rows : f.value[row] # Null
BY DEF SoundFrame, Frames

LEMMA HeightsTyped ==
  ASSUME IInv
  PROVE  \A d \in DOMAIN cases : cases[d].height \in Nat /\ cases[d].height <= Base
<1>1. \A d \in DOMAIN cases : cases[d] \in SoundFrame
  BY DEF IInv, Typed
<1>2. \A d \in DOMAIN cases : cases[d].height \in Nat
  BY <1>1, FrameHas
<1> QED BY <1>2, BaseIsHeight DEF IInv

LEMMA FramePushed ==
  ASSUME IInv, NEW frame \in SoundFrame, ~frame.dead,
         cases' = Append(cases, frame), stack' \in Seq(SoundNode),
         Base <= frame.height, frame.height <= Len(stack'),
         UNCHANGED <<div0Suppress, warnings, leaves>>
  PROVE  IInv'
<1> DEFINE n == Len(cases)
<1>1. n \in Nat /\ DOMAIN cases = 1 .. n /\ cases \in Seq(SoundFrame)
  BY DEF IInv, Typed
<1>2. cases' \in Seq(SoundFrame) /\ Len(cases') = n + 1 /\ DOMAIN cases' = 1 .. n + 1
      /\ (\A d \in 1 .. n : cases'[d] = cases[d]) /\ cases'[n + 1] = frame
  BY <1>1, AppendProperties
<1> HIDE DEF n
<1>3. Typed'
  BY <1>2 DEF Typed
<1>4. Nested'
  <2>1. \A d \in 1 .. n : cases[d].height <= Base /\ cases[d].height \in Nat
    BY <1>1, HeightsTyped
  <2>2. Base \in Nat /\ frame.height \in Nat /\ Len(stack') \in Nat
    BY BaseIsHeight, FrameHas DEF IInv
  <2>3. \A d \in 1 .. n : cases[d].height <= frame.height /\ cases[d].height <= Len(stack')
    BY <2>1, <2>2
  <2>4. \A d \in 1 .. n, e \in 1 .. n : d <= e => cases[d].height <= cases[e].height
    BY <1>1 DEF IInv, Nested
  <2>5. \A d \in 1 .. n + 1 : d \in 1 .. n \/ d = n + 1
    BY <1>1
  <2>6. ASSUME NEW d \in 1 .. n + 1
        PROVE  /\ cases'[d].height <= Len(stack')
               /\ \A e \in 1 .. n + 1 : d <= e => cases'[d].height <= cases'[e].height
    <3>1. CASE d \in 1 .. n
      BY <1>2, <2>3, <2>4, <2>5, <3>1
    <3>2. CASE d = n + 1
      <4>1. \A e \in 1 .. n + 1 : d <= e => e = n + 1
        BY <1>1, <3>2
      <4>2. cases'[d].height <= Len(stack') /\ frame.height <= frame.height
        BY <1>2, <2>2, <3>2
      <4> QED BY <1>2, <3>2, <4>1, <4>2
    <3> QED BY <2>5, <3>1, <3>2
  <2> QED BY <1>2, <2>6 DEF Nested
<1>5. DeadArms' = DeadArms
  BY <1>1, <1>2 DEF DeadArms
<1> QED BY <1>3, <1>4, <1>5 DEF IInv

LEMMA FrameChanged ==
  ASSUME IInv, cases # <<>>, NEW frame \in SoundFrame, frame.height = Open.height,
         Change(frame), stack' \in Seq(SoundNode), Open.height <= Len(stack'),
         div0Suppress' = div0Suppress + (IF frame.dead THEN 1 ELSE 0)
                                      - (IF Open.dead THEN 1 ELSE 0),
         UNCHANGED <<warnings, leaves>>
  PROVE  IInv'
<1> DEFINE n == Len(cases)
<1>1. n \in Nat \ {0} /\ DOMAIN cases = 1 .. n /\ cases \in Seq(SoundFrame)
  BY OpenIsSound DEF IInv, Typed
<1>2. cases' = [cases EXCEPT ![n] = frame] /\ Open = cases[n]
  BY DEF Change, Open
<1> HIDE DEF n
<1>3. cases' \in Seq(SoundFrame) /\ DOMAIN cases' = 1 .. n
      /\ (\A d \in 1 .. n : d # n => cases'[d] = cases[d]) /\ cases'[n] = frame
  BY <1>1, <1>2
<1>4. Typed'
  BY <1>3 DEF Typed
<1>5. Nested'
  <2>1. \A d \in 1 .. n : cases'[d].height = cases[d].height
    BY <1>2, <1>3
  <2>2. \A d \in 1 .. n : cases[d].height <= Len(stack')
    <3>1. \A d \in 1 .. n : cases[d].height <= Open.height /\ cases[d].height \in Nat
      BY <1>1, OpenIsSound, HeightsTyped
    <3>2. Open.height \in Nat /\ Len(stack') \in Nat
      BY OpenIsSound
    <3> QED BY <3>1, <3>2
  <2>3. \A d, e \in 1 .. n : d <= e => cases[d].height <= cases[e].height
    BY <1>1 DEF IInv, Nested
  <2> QED BY <1>3, <2>1, <2>2, <2>3 DEF Nested
<1>6. div0Suppress' = Cardinality(DeadArms')
  <2>1. IsFiniteSet(DeadArms) /\ Cardinality(DeadArms) \in Nat
        /\ div0Suppress = Cardinality(DeadArms)
    BY DeadArmsFinite, FS_CardinalityType DEF IInv
  <2>2. frame.dead \in BOOLEAN /\ Open.dead \in BOOLEAN
    BY OpenIsSound, FrameHas
  <2>3. n \in DeadArms <=> Open.dead
    BY <1>1, <1>2 DEF DeadArms
  <2>4. CASE frame.dead
    <3>1. DeadArms' = DeadArms \cup {n}
      BY <1>1, <1>3, <2>4 DEF DeadArms
    <3>2. Cardinality(DeadArms') = IF n \in DeadArms THEN Cardinality(DeadArms)
                                   ELSE Cardinality(DeadArms) + 1
      BY <2>1, <3>1, FS_AddElement
    <3> QED BY <2>1, <2>2, <2>3, <2>4, <3>2
  <2>5. CASE ~frame.dead
    <3>1. DeadArms' = DeadArms \ {n}
      BY <1>1, <1>3, <2>5 DEF DeadArms
    <3>2. Cardinality(DeadArms') = IF n \in DeadArms THEN Cardinality(DeadArms) - 1
                                   ELSE Cardinality(DeadArms)
      BY <2>1, <3>1, FS_RemoveElement
    <3> QED BY <2>1, <2>2, <2>3, <2>5, <3>2
  <2> QED BY <2>4, <2>5
<1> QED BY <1>4, <1>5, <1>6 DEF IInv

LEMMA FramePopped ==
  ASSUME IInv, cases # <<>>, cases' = SubSeq(cases, 1, Len(cases) - 1),
         stack' \in Seq(SoundNode), Open.height <= Len(stack'),
         div0Suppress' = div0Suppress - (IF Open.dead THEN 1 ELSE 0),
         UNCHANGED <<warnings, leaves>>
  PROVE  IInv'
<1> DEFINE n == Len(cases)
<1>1. n \in Nat \ {0} /\ DOMAIN cases = 1 .. n /\ cases \in Seq(SoundFrame)
  BY OpenIsSound DEF IInv, Typed
<1>2. cases' \in Seq(SoundFrame) /\ DOMAIN cases' = 1 .. n - 1
      /\ \A d \in 1 .. n - 1 : cases'[d] = cases[d]
  <2>1. \A d \in 1 .. n - 1 : cases[d] \in SoundFrame
    BY <1>1
  <2>2. n - 1 \in Int /\ 1 \in Int
    BY <1>1
  <2>3. /\ SubSeq(cases, 1, n - 1) \in Seq(SoundFrame)
        /\ Len(SubSeq(cases, 1, n - 1)) = IF 1 <= n - 1 THEN n - 1 - 1 + 1 ELSE 0
        /\ \A d \in 1 .. n - 1 - 1 + 1 : SubSeq(cases, 1, n - 1)[d] = cases[1 + d - 1]
    BY <2>1, <2>2, SubSeqProperties
  <2>4. cases' \in Seq(SoundFrame) /\ Len(cases') = n - 1
    BY <1>1, <2>3
  <2>5. \A d \in 1 .. n - 1 : cases'[d] = cases[d]
    BY <1>1, <2>3
  <2> QED BY <2>4, <2>5
<1>3. Open = cases[n]
  BY DEF Open
<1> HIDE DEF n
<1>4. Typed'
  BY <1>2 DEF Typed
<1>5. Nested'
  <2>1. \A d \in 1 .. n - 1 : d \in 1 .. n
    BY <1>1
  <2>2. \A d \in 1 .. n - 1 : cases[d].height <= Len(stack')
    <3>1. \A d \in 1 .. n : cases[d].height <= Open.height /\ cases[d].height \in Nat
      BY <1>1, OpenIsSound, HeightsTyped
    <3>2. Open.height \in Nat /\ Len(stack') \in Nat
      BY OpenIsSound
    <3> QED BY <2>1, <3>1, <3>2
  <2>3. \A d, e \in 1 .. n : d <= e => cases[d].height <= cases[e].height
    BY <1>1 DEF IInv, Nested
  <2> QED BY <1>2, <2>1, <2>2, <2>3 DEF Nested
<1>6. div0Suppress' = Cardinality(DeadArms')
  <2>1. IsFiniteSet(DeadArms) /\ Cardinality(DeadArms) \in Nat
        /\ div0Suppress = Cardinality(DeadArms)
    BY DeadArmsFinite, FS_CardinalityType DEF IInv
  <2>2. n \in DeadArms <=> Open.dead
    BY <1>1, <1>3 DEF DeadArms
  <2>3. \A d : d \in 1 .. n - 1 <=> d \in 1 .. n /\ d # n
    BY <1>1
  <2>4. DeadArms' = DeadArms \ {n}
    BY <1>1, <1>2, <2>3 DEF DeadArms
  <2>5. Cardinality(DeadArms') = IF n \in DeadArms THEN Cardinality(DeadArms) - 1
                                 ELSE Cardinality(DeadArms)
    BY <2>1, <2>4, FS_RemoveElement
  <2> QED BY <2>1, <2>2, <2>5
<1> QED BY <1>4, <1>5, <1>6 DEF IInv

LEMMA PoppedTyped ==
  ASSUME IInv, Len(stack) >= 1
  PROVE  /\ Top \in SoundNode /\ Popped \in Seq(SoundNode)
         /\ Len(stack) \in Nat /\ Len(Popped) = Len(stack) - 1
<1> DEFINE n == Len(stack)
<1>1. n \in Nat /\ n >= 1 /\ stack \in Seq(SoundNode) /\ n \in DOMAIN stack
  BY DEF IInv, Typed
<1>2. Top \in SoundNode
  BY <1>1 DEF Top
<1>3. \A i \in 1 .. n - 1 : stack[i] \in SoundNode
  BY <1>1
<1>4. n - 1 \in Int /\ 1 \in Int
  BY <1>1
<1>5. /\ SubSeq(stack, 1, n - 1) \in Seq(SoundNode)
      /\ Len(SubSeq(stack, 1, n - 1)) = IF 1 <= n - 1 THEN n - 1 - 1 + 1 ELSE 0
  BY <1>3, <1>4, SubSeqProperties
<1>6. Popped = SubSeq(stack, 1, n - 1) /\ n = Len(stack)
  BY DEF Popped
<1> HIDE DEF n
<1>7. Len(SubSeq(stack, 1, n - 1)) = n - 1
  BY <1>1, <1>5
<1> QED BY <1>1, <1>2, <1>5, <1>6, <1>7

LEMMA FrameIsSound ==
  ASSUME NEW simple \in BOOLEAN, NEW operand \in SoundNode, NEW height \in Nat
  PROVE  /\ Frame(simple, operand, height) \in SoundFrame
         /\ Frame(simple, operand, height).height = height
         /\ ~Frame(simple, operand, height).dead
<1> DEFINE plain == simple => operand.literal
<1>1. Constant(Pending) \in [Rows -> Values \cup {Pending}]
      /\ \A row \in Rows : Constant(Pending)[row] # Null
  BY MarksAreApart DEF Constant
<1>2. plain \in BOOLEAN /\ operand.arrays \in BOOLEAN
  BY NodeHas
<1>3. Frame(simple, operand, height) =
        [phase |-> "guard", simple |-> simple, operand |-> operand, height |-> height,
         guard |-> Constant(Pending), folded |-> None, dead |-> FALSE, priorTaken |-> FALSE,
         type |-> "Unknown", nulls |-> {}, value |-> Constant(Pending),
         plain |-> plain, arrays |-> operand.arrays, untyped |-> FALSE]
  BY DEF Frame
<1> HIDE DEF plain
<1>4. "Unknown" \in Types /\ "guard" \in Phases
  BY DEF Types, Wildcard, Phases
<1> QED BY <1>1, <1>2, <1>3, <1>4 DEF SoundFrame, Frames

LEMMA OpenCaseSound == ASSUME IInv, OpenCase PROVE IInv'
<1> DEFINE operand == Node("Boolean", 1, Constant(1), {})
           frame == Frame(FALSE, operand, Len(stack))
<1>1. 1 \in Values /\ 1 # Null
  BY MarksAreApart DEF Values
<1>2. operand \in SoundNode
  BY <1>1, ConstantTyped, NodeIsSound DEF Types
<1>3. stack \in Seq(SoundNode) /\ Len(stack) \in Nat /\ Base \in 0 .. Len(stack)
  BY BaseIsHeight DEF IInv, Typed
<1>4. cases' = Append(cases, frame) /\ stack' = stack
      /\ UNCHANGED <<div0Suppress, warnings, leaves>>
  BY DEF OpenCase
<1> HIDE DEF operand
<1>5. frame \in SoundFrame /\ frame.height = Len(stack) /\ ~frame.dead
  BY <1>2, <1>3, FrameIsSound
<1> HIDE DEF frame
<1>6. Base <= frame.height /\ frame.height <= Len(stack') /\ stack' \in Seq(SoundNode)
  BY <1>3, <1>4, <1>5
<1> QED BY <1>4, <1>5, <1>6, FramePushed

LEMMA OpenSimpleCaseSound == ASSUME IInv, OpenSimpleCase PROVE IInv'
<1> DEFINE frame == Frame(TRUE, Top, Len(stack) - 1)
<1>1. Len(stack) \in Nat /\ Base \in Nat /\ Len(stack) - 1 >= Base
  BY BaseIsHeight DEF IInv, Typed, OpenSimpleCase, Has
<1>2. Top \in SoundNode /\ Popped \in Seq(SoundNode) /\ Len(Popped) = Len(stack) - 1
  BY <1>1, PoppedTyped
<1>3. cases' = Append(cases, frame) /\ stack' = Popped
      /\ UNCHANGED <<div0Suppress, warnings, leaves>>
  BY DEF OpenSimpleCase
<1>4. Len(stack) - 1 \in Nat
  BY <1>1
<1>5. frame \in SoundFrame /\ frame.height = Len(stack) - 1 /\ ~frame.dead
  BY <1>2, <1>4, FrameIsSound
<1> HIDE DEF frame
<1>6. Base <= frame.height /\ frame.height <= Len(stack') /\ stack' \in Seq(SoundNode)
  BY <1>1, <1>2, <1>3, <1>5
<1> QED BY <1>3, <1>5, <1>6, FramePushed

LEMMA PartVisited ==
  ASSUME IInv, NEW phase, Part(phase)
  PROVE  /\ cases # <<>> /\ Open \in SoundFrame /\ Open.phase = phase /\ Top \in SoundNode
         /\ Popped \in Seq(SoundNode) /\ Open.height <= Len(Popped)
<1>1. cases # <<>> /\ Open.phase = phase /\ Len(stack) = Open.height + 1
  BY DEF Part
<1>2. Open \in SoundFrame /\ Open.height \in Nat
  BY <1>1, OpenIsSound, FrameHas
<1>3. Len(stack) >= 1
  BY <1>1, <1>2
<1>4. Top \in SoundNode /\ Popped \in Seq(SoundNode) /\ Len(Popped) = Len(stack) - 1
  BY <1>3, PoppedTyped
<1> QED BY <1>1, <1>2, <1>4

LEMMA EnterArmSound == ASSUME IInv, EnterArm PROVE IInv'
<1> DEFINE folded == FoldGuard(Open, Top)
           dead == Open.priorTaken \/ folded = 0
           guard == Guard(Open, Top)
           plain == /\ Open.plain /\ Top.plain /\ folded # None
                    /\ \A row \in Rows : Top.value[row] \in Int
           arrays == Open.arrays \/ Top.arrays
           frame == [Open EXCEPT !.phase = "result", !.guard = guard, !.folded = folded,
                                 !.dead = dead, !.plain = plain, !.arrays = arrays]
<1>1. Part("guard")
  BY DEF EnterArm
<1>2. /\ cases # <<>> /\ Open \in SoundFrame /\ Open.phase = "guard" /\ Top \in SoundNode
      /\ Popped \in Seq(SoundNode) /\ Open.height <= Len(Popped)
  BY <1>1, PartVisited
<1>3. ~Open.dead
  BY <1>2, FrameHas
<1>4. Change(frame)
  <2>1. frame = [Open EXCEPT !.phase = "result", !.guard = Guard(Open, Top),
                   !.folded = FoldGuard(Open, Top),
                   !.dead = Open.priorTaken \/ FoldGuard(Open, Top) = 0,
                   !.plain = /\ @ /\ Top.plain /\ FoldGuard(Open, Top) # None
                             /\ \A row \in Rows : Top.value[row] \in Int,
                   !.arrays = @ \/ Top.arrays]
    OBVIOUS
  <2> HIDE DEF frame
  <2> QED BY <2>1 DEF EnterArm
<1>5. /\ stack' = Popped /\ div0Suppress' = div0Suppress + (IF dead THEN 1 ELSE 0)
      /\ UNCHANGED <<warnings, leaves>>
  BY DEF EnterArm
<1>6. guard \in [Rows -> Values \cup {Pending}]
  <2>1. \A row \in Rows : Open.operand.value[row] \in Values /\ Top.value[row] \in Values
    BY <1>2, FrameHas, NodeHas
  <2> QED BY <2>1, ComparedValue DEF Guard
<1>7. folded \in {0, 1, None}
  BY <1>2, NodeHas DEF FoldGuard, FoldComparison, Truth
<1>8. dead \in BOOLEAN /\ plain \in BOOLEAN /\ arrays \in BOOLEAN
  BY <1>2, NodeHas, FrameHas
<1> HIDE DEF folded, guard, plain, arrays, dead
<1>9. frame \in SoundFrame
  <2>1. frame \in Frames
    BY <1>2, <1>6, <1>7, <1>8 DEF SoundFrame, Frames, Phases
  <2>2. frame.phase # "guard" /\ frame.value = Open.value /\ frame.nulls = Open.nulls
        /\ frame.arrays = arrays
    BY <1>2 DEF SoundFrame, Frames
  <2>3. ~arrays => ~Open.arrays
    BY DEF arrays
  <2>4. ~Open.arrays /\ 2 \notin Open.nulls => \A row \in Rows : Open.value[row] # Null
    BY <1>2, FrameHas
  <2> HIDE DEF frame
  <2> QED BY <2>1, <2>2, <2>3, <2>4 DEF SoundFrame
<1>10. frame.height = Open.height /\ frame.dead = dead
  BY <1>2 DEF SoundFrame, Frames
<1> HIDE DEF frame
<1>11. div0Suppress' = div0Suppress + (IF frame.dead THEN 1 ELSE 0)
                                    - (IF Open.dead THEN 1 ELSE 0)
  <2>1. div0Suppress \in Nat
    BY DeadArmsFinite, FS_CardinalityType DEF IInv
  <2> QED BY <1>3, <1>5, <1>8, <1>10, <2>1
<1> QED BY <1>2, <1>4, <1>5, <1>9, <1>10, <1>11, FrameChanged

\* The arms so far, with the one whose result has just been visited.
LEMMA TakenValue ==
  ASSUME NEW f \in SoundFrame, NEW x \in SoundNode
  PROVE  /\ Taken(f, x) \in [Rows -> Values \cup {Pending}]
         /\ ~f.arrays /\ ~x.arrays /\ 2 \notin f.nulls \cup {x.null}
              => \A row \in Rows : Taken(f, x)[row] # Null
<1>1. \A row \in Rows : x.value[row] \in Values /\ f.value[row] \in Values \cup {Pending}
  BY NodeHas, FrameHas
<1>2. Fault \in Values /\ Abort \in Values
  BY DEF Values
<1>3. Taken(f, x) \in [Rows -> Values \cup {Pending}]
  BY <1>1, <1>2 DEF Taken
<1>4. ASSUME ~f.arrays, ~x.arrays, 2 \notin f.nulls \cup {x.null}, NEW row \in Rows
      PROVE  Taken(f, x)[row] # Null
  <2>1. f.value[row] # Null
    BY <1>4, FrameHas
  <2>2. x.null = 1
    BY <1>4, NodeHas
  <2>3. x.value[row] # Null
    BY <1>4, <2>2, NodeHas
  <2> QED BY <2>1, <2>3, MarksAreApart DEF Taken
<1> QED BY <1>3, <1>4

LEMMA LeaveArmSound == ASSUME IInv, LeaveArm PROVE IInv'
<1> DEFINE type == Coerce(Open.type, Top.type)
           nulls == Open.nulls \cup {Top.null}
           taken == Open.priorTaken \/ Open.folded = 1
           value == Taken(Open, Top)
           guard == Constant(Pending)
           plain == Open.plain /\ Top.plain
           arrays == Open.arrays \/ Top.arrays
           untyped == Open.untyped \/ Top.untyped
           frame == [Open EXCEPT !.phase = "guard", !.dead = FALSE, !.guard = guard,
                                 !.folded = None, !.priorTaken = taken, !.type = type,
                                 !.nulls = nulls, !.value = value, !.plain = plain,
                                 !.arrays = arrays, !.untyped = untyped]
<1>1. Part("result")
  BY DEF LeaveArm
<1>2. /\ cases # <<>> /\ Open \in SoundFrame /\ Top \in SoundNode
      /\ Popped \in Seq(SoundNode) /\ Open.height <= Len(Popped)
  BY <1>1, PartVisited
<1>3. Change(frame)
  <2>1. frame = [Open EXCEPT !.phase = "guard", !.dead = FALSE, !.guard = Constant(Pending),
                   !.folded = None, !.priorTaken = @ \/ Open.folded = 1,
                   !.type = Coerce(@, Top.type), !.nulls = @ \cup {Top.null},
                   !.value = Taken(Open, Top), !.plain = @ /\ Top.plain,
                   !.arrays = @ \/ Top.arrays, !.untyped = @ \/ Top.untyped]
    OBVIOUS
  <2> HIDE DEF frame
  <2> QED BY <2>1 DEF LeaveArm
<1>4. /\ stack' = Popped /\ div0Suppress' = div0Suppress - (IF Open.dead THEN 1 ELSE 0)
      /\ UNCHANGED <<warnings, leaves>>
  BY DEF LeaveArm
<1>5. type \in Types /\ nulls \subseteq {1, 2} /\ guard \in [Rows -> Values \cup {Pending}]
  BY <1>2, NodeHas, FrameHas, CoercedTyped DEF Constant
<1>6. taken \in BOOLEAN /\ plain \in BOOLEAN /\ arrays \in BOOLEAN /\ untyped \in BOOLEAN
  BY <1>2, NodeHas, FrameHas
<1>7. /\ value \in [Rows -> Values \cup {Pending}]
      /\ ~arrays /\ 2 \notin nulls => \A row \in Rows : value[row] # Null
  <2>1. ~arrays => ~Open.arrays /\ ~Top.arrays
    OBVIOUS
  <2> QED BY <1>2, <2>1, TakenValue
<1> HIDE DEF type, nulls, taken, value, guard, plain, arrays, untyped
<1>8. frame \in Frames /\ ~frame.dead /\ frame.height = Open.height
      /\ frame.arrays = arrays /\ frame.nulls = nulls /\ frame.value = value
  <2> DEFINE ended == [Open EXCEPT !.phase = "guard", !.dead = FALSE, !.guard = guard,
                                   !.folded = None, !.priorTaken = taken]
  <2>1. ended \in Frames /\ ~ended.dead /\ ended.height = Open.height
    BY <1>2, <1>5, <1>6 DEF SoundFrame, Frames, Phases
  <2>2. frame = [ended EXCEPT !.type = type, !.nulls = nulls, !.value = value, !.plain = plain,
                              !.arrays = arrays, !.untyped = untyped]
    OBVIOUS
  <2> HIDE DEF ended, frame
  <2> QED BY <1>5, <1>6, <1>7, <2>1, <2>2 DEF Frames
<1> HIDE DEF frame
<1>9. frame \in SoundFrame
  BY <1>7, <1>8 DEF SoundFrame
<1>10. div0Suppress' = div0Suppress + (IF frame.dead THEN 1 ELSE 0)
                                    - (IF Open.dead THEN 1 ELSE 0)
  <2>1. div0Suppress \in Nat
    BY DeadArmsFinite, FS_CardinalityType DEF IInv
  <2> QED BY <1>4, <1>8, <2>1
<1> QED BY <1>2, <1>3, <1>4, <1>8, <1>9, <1>10, FrameChanged

LEMMA EnterElseSound == ASSUME IInv, EnterElse PROVE IInv'
<1> DEFINE frame == [Open EXCEPT !.phase = "else", !.dead = Open.priorTaken]
<1>1. /\ cases # <<>> /\ Open.phase = "guard" /\ Len(stack) = Open.height /\ Change(frame)
      /\ div0Suppress' = div0Suppress + (IF Open.priorTaken THEN 1 ELSE 0)
      /\ UNCHANGED <<stack, warnings, leaves>>
  BY DEF EnterElse
<1>2. Open \in SoundFrame /\ ~Open.dead /\ Open.priorTaken \in BOOLEAN /\ Open.height \in Nat
  BY <1>1, OpenIsSound, FrameHas
<1>3. /\ frame \in SoundFrame /\ frame.height = Open.height
      /\ frame.dead = Open.priorTaken
  BY <1>2 DEF SoundFrame, Frames, Phases
<1>4. stack' \in Seq(SoundNode) /\ Open.height <= Len(stack')
  BY <1>1, <1>2 DEF IInv, Typed
<1> HIDE DEF frame
<1>5. div0Suppress' = div0Suppress + (IF frame.dead THEN 1 ELSE 0)
                                   - (IF Open.dead THEN 1 ELSE 0)
  <2>1. div0Suppress \in Nat
    BY DeadArmsFinite, FS_CardinalityType DEF IInv
  <2> QED BY <1>1, <1>2, <1>3, <2>1
<1> QED BY <1>1, <1>3, <1>4, <1>5, FrameChanged

LEMMA CaseNodeTyped ==
  ASSUME NEW f \in SoundFrame, NEW type \in Types, NEW null \in {1, 2},
         NEW otherwise \in [Rows -> Values]
  PROVE  LET node == CaseNode(f, type, null, otherwise)
         IN  /\ node \in Nodes /\ node.null = null
             /\ node.int = None /\ node.bool = None /\ ~node.literal
<1> DEFINE value == [row \in Rows |-> IF f.value[row] = Pending THEN otherwise[row]
                                      ELSE f.value[row]]
<1>1. value \in [Rows -> Values]
  BY FrameHas
<1>2. CaseNode(f, type, null, otherwise) =
        [type |-> type, null |-> null, int |-> None, bool |-> None, literal |-> FALSE,
         plain |-> f.plain, arrays |-> f.arrays, untyped |-> f.untyped, value |-> value]
  BY DEF CaseNode
<1> HIDE DEF value
<1> QED BY <1>1, <1>2, FrameHas DEF Nodes

\* The rows that no arm took have the value of ELSE, or NULL.
LEMMA CaseNodeIsSound ==
  ASSUME NEW f \in SoundFrame, NEW type \in Types, NEW null \in {1, 2},
         NEW otherwise \in [Rows -> Values], NEW plain \in BOOLEAN, NEW arrays \in BOOLEAN,
         NEW untyped \in BOOLEAN, f.arrays => arrays,
         null = 1 /\ ~arrays => 2 \notin f.nulls /\ \A row \in Rows : otherwise[row] # Null
  PROVE  [CaseNode(f, type, null, otherwise) EXCEPT
            !.plain = plain, !.arrays = arrays, !.untyped = untyped] \in SoundNode
<1> DEFINE node == CaseNode(f, type, null, otherwise)
           changed == [node EXCEPT !.plain = plain, !.arrays = arrays, !.untyped = untyped]
<1>1. node \in Nodes /\ node.null = null /\ node.int = None /\ node.bool = None /\ ~node.literal
  BY CaseNodeTyped
<1>2. null = 1 /\ ~arrays => \A row \in Rows : node.value[row] # Null
  BY FrameHas DEF CaseNode
<1> HIDE DEF node
<1>3. /\ changed \in Nodes /\ changed.null = null /\ changed.arrays = arrays
      /\ changed.value = node.value /\ changed.int = None /\ changed.bool = None
      /\ ~changed.literal
  BY <1>1 DEF Nodes
<1> HIDE DEF changed
<1>4. changed \in SoundNode
  BY <1>2, <1>3 DEF SoundNode, NotNullHolds, FoldHolds, LiteralHolds
<1> QED BY <1>4 DEF changed, node

LEMMA LeaveElseSound == ASSUME IInv, LeaveElse PROVE IInv'
<1> DEFINE type == Coerce(Open.type, Top.type)
           null == CombineNullableAny(Open.nulls \cup {Top.null})
           plain == Open.plain /\ Top.plain
           arrays == Open.arrays \/ Top.arrays
           untyped == Open.untyped \/ Top.untyped
           node == [CaseNode(Open, type, null, Top.value)
                      EXCEPT !.plain = plain, !.arrays = arrays, !.untyped = untyped]
<1>1. Part("else")
  BY DEF LeaveElse
<1>2. /\ cases # <<>> /\ Open \in SoundFrame /\ Top \in SoundNode
      /\ Popped \in Seq(SoundNode) /\ Open.height <= Len(Popped) /\ Open.height \in Nat
  BY <1>1, PartVisited, FrameHas
<1>3. stack' = Append(Popped, node)
  <2>1. node = [CaseNode(Open, Coerce(Open.type, Top.type),
                         CombineNullableAny(Open.nulls \cup {Top.null}), Top.value)
                  EXCEPT !.plain = @ /\ Top.plain, !.arrays = @ \/ Top.arrays,
                         !.untyped = @ \/ Top.untyped]
    BY DEF CaseNode
  <2> HIDE DEF node
  <2> QED BY <2>1 DEF LeaveElse
<1>4. /\ cases' = SubSeq(cases, 1, Len(cases) - 1)
      /\ div0Suppress' = div0Suppress - (IF Open.dead THEN 1 ELSE 0)
      /\ UNCHANGED <<warnings, leaves>>
  BY DEF LeaveElse
<1>5. type \in Types /\ plain \in BOOLEAN /\ arrays \in BOOLEAN /\ untyped \in BOOLEAN
  BY <1>2, NodeHas, FrameHas, CoercedTyped
<1>6. null \in {1, 2} /\ (null = 1 => 2 \notin Open.nulls /\ Top.null = 1)
  <2> DEFINE nulls == Open.nulls \cup {Top.null}
  <2>1. nulls \subseteq {1, 2} /\ nulls # {} /\ Open.nulls \subseteq nulls /\ Top.null \in nulls
    BY <1>2, NodeHas, FrameHas
  <2>2. null = CombineNullableAny(nulls)
    OBVIOUS
  <2> HIDE DEF nulls, null
  <2> QED BY <2>1, <2>2, Combined
<1>7. null = 1 /\ ~arrays => 2 \notin Open.nulls /\ \A row \in Rows : Top.value[row] # Null
  BY <1>2, <1>6, NodeHas
<1>8. Top.value \in [Rows -> Values] /\ (Open.arrays => arrays)
  BY <1>2 DEF SoundNode, Nodes
<1> HIDE DEF type, null, plain, arrays, untyped
<1>9. node \in SoundNode
  BY <1>2, <1>5, <1>6, <1>7, <1>8, CaseNodeIsSound
<1> HIDE DEF node
<1>10. stack' \in Seq(SoundNode) /\ Len(stack') = Len(Popped) + 1 /\ Len(Popped) \in Nat
  BY <1>2, <1>3, <1>9, AppendProperties
<1>11. Open.height <= Len(stack')
  BY <1>2, <1>10
<1> QED BY <1>2, <1>4, <1>10, <1>11, FramePopped

LEMMA EndCaseSound == ASSUME IInv, EndCase PROVE IInv'
<1> DEFINE node == CaseNode(Open, Open.type, 2, Constant(Null))
<1>1. /\ cases # <<>> /\ Open.phase = "guard" /\ Len(stack) = Open.height
      /\ stack' = Append(stack, node) /\ cases' = SubSeq(cases, 1, Len(cases) - 1)
      /\ UNCHANGED <<div0Suppress, warnings, leaves>>
  BY DEF EndCase
<1>2. Open \in SoundFrame /\ ~Open.dead /\ Open.height \in Nat
  BY <1>1, OpenIsSound, FrameHas
<1>3. Open.type \in Types /\ Open.plain \in BOOLEAN /\ Open.arrays \in BOOLEAN
  BY <1>2, FrameHas
<1>4. Constant(Null) \in [Rows -> Values]
  BY DEF Constant, Values
<1>5. node \in Nodes /\ node.null = 2 /\ node.int = None /\ node.bool = None /\ ~node.literal
  BY <1>2, <1>3, <1>4, CaseNodeTyped
<1>6. node \in SoundNode
  BY <1>5 DEF SoundNode, NotNullHolds, FoldHolds, LiteralHolds
<1> HIDE DEF node
<1>7. stack \in Seq(SoundNode) /\ Len(stack) \in Nat
  BY DEF IInv, Typed
<1>8. stack' \in Seq(SoundNode) /\ Len(stack') = Len(stack) + 1
  BY <1>1, <1>6, <1>7, AppendProperties
<1>9. Open.height <= Len(stack') /\ div0Suppress' = div0Suppress - 0
  <2>1. div0Suppress \in Nat
    BY DeadArmsFinite, FS_CardinalityType DEF IInv
  <2> QED BY <1>1, <1>2, <1>7, <1>8, <2>1
<1> QED BY <1>1, <1>2, <1>8, <1>9, FramePopped

-----------------------------------------------------------------------------
(* How a step changes the stack.                                            *)

\* The stack after a step: the nodes up to k are as before.
Kept(k) ==
  /\ k \in 0 .. Len(stack) /\ Len(stack) \in Nat
  /\ k <= Len(stack')
  /\ \A i \in 1 .. k : stack'[i] = stack[i]

Above(k) == (k + 1) .. Len(stack)

\* The nodes above the operands, and the node that takes their place.
LEMMA ReplaceShape ==
  ASSUME IInv, NEW n \in Nat, Has(n), NEW node, Replace(n, node)
  PROVE  LET k == Len(stack) - n
         IN  /\ Kept(k) /\ Base <= k /\ Len(stack') = k + 1 /\ stack'[k + 1] = node
             /\ DOMAIN stack' = 1 .. k + 1
             /\ \A j \in Above(k) : \E i \in 1 .. n : stack[j] = Operand(n, i)
<1> DEFINE k == Len(stack) - n
           rest == SubSeq(stack, 1, k)
           S == SoundNode \cup {node}
<1>1. Len(stack) \in Nat /\ Base \in Nat /\ k >= Base /\ stack \in Seq(S)
  BY BaseIsHeight DEF Has, Typed, IInv
<1>2. k \in Nat /\ k <= Len(stack)
  BY <1>1
<1>3. stack' = Append(rest, node)
  BY DEF Replace
<1>4. \A i \in 1 .. k : stack[i] \in S
  BY <1>1, <1>2
<1> HIDE DEF k, S
<1>5. rest \in Seq(S) /\ Len(rest) = k /\ \A i \in 1 .. k : rest[i] = stack[i]
  <2>1. k \in Int /\ 1 \in Int
    BY <1>2
  <2>2. /\ SubSeq(stack, 1, k) \in Seq(S)
        /\ Len(SubSeq(stack, 1, k)) = IF 1 <= k THEN k - 1 + 1 ELSE 0
        /\ \A i \in 1 .. k - 1 + 1 : SubSeq(stack, 1, k)[i] = stack[1 + i - 1]
    BY <1>4, <2>1, SubSeqProperties
  <2> QED BY <1>2, <2>2
<1> HIDE DEF rest
<1>6. /\ Len(stack') = k + 1 /\ DOMAIN stack' = 1 .. k + 1 /\ stack'[k + 1] = node
      /\ \A i \in 1 .. k : stack'[i] = stack[i]
  <2>1. node \in S
    BY DEF S
  <2>2. Append(rest, node) \in Seq(S) /\ Len(Append(rest, node)) = k + 1
        /\ (\A i \in 1 .. k : Append(rest, node)[i] = rest[i])
        /\ Append(rest, node)[k + 1] = node
    BY <1>2, <1>5, <2>1, AppendProperties
  <2> QED BY <1>2, <1>3, <1>5, <2>2
<1>7. Kept(k)
  BY <1>1, <1>2, <1>6 DEF Kept
<1>8. ASSUME NEW j \in Above(k) PROVE \E i \in 1 .. n : stack[j] = Operand(n, i)
  <2>1. j - k \in 1 .. n /\ Len(stack) - n + (j - k) = j
    BY <1>1, <1>8 DEF Above, k
  <2>2. stack[j] = Operand(n, j - k)
    BY <2>1 DEF Operand
  <2> QED BY <2>1, <2>2
<1> QED BY <1>1, <1>6, <1>7, <1>8 DEF k

\* A node on top of the others.
LEMMA AppendShape ==
  ASSUME IInv, NEW k \in Nat, k = Len(stack), NEW node, stack' = Append(stack, node)
  PROVE  /\ Kept(k) /\ Above(k) = {} /\ Len(stack') = k + 1 /\ stack'[k + 1] = node
         /\ DOMAIN stack' = 1 .. k + 1
<1> DEFINE S == SoundNode \cup {node}
<1>1. stack \in Seq(S) /\ node \in S
  BY DEF Typed, IInv
<1> HIDE DEF S
<1>2. /\ Append(stack, node) \in Seq(S) /\ Len(Append(stack, node)) = k + 1
      /\ \A i \in 1 .. k : Append(stack, node)[i] = stack[i]
      /\ Append(stack, node)[k + 1] = node
  BY <1>1, AppendProperties
<1> QED BY <1>2 DEF Kept, Above

\* What is visited of the open CASE is taken from the stack.
LEMMA PoppedShape ==
  ASSUME IInv, NEW h \in Nat, Len(stack) = h + 1, stack' = Popped
  PROVE  /\ Kept(h) /\ DOMAIN stack' = 1 .. h
         /\ Above(h) = {h + 1} /\ stack[h + 1] = Top
         /\ h + 1 \in DOMAIN stack /\ Top \in SoundNode
<1>1. Len(stack) >= 1
  OBVIOUS
<1>2. \A i \in 1 .. h : stack[i] \in SoundNode
  BY DEF IInv, Typed
<1>3. h \in Int /\ 1 \in Int /\ Popped = SubSeq(stack, 1, h)
  BY DEF Popped
<1>4. /\ Popped \in Seq(SoundNode) /\ Len(Popped) = h
      /\ \A i \in 1 .. h - 1 + 1 : SubSeq(stack, 1, h)[i] = stack[1 + i - 1]
  BY <1>1, <1>2, <1>3, PoppedTyped, SubSeqProperties
<1>5. \A i \in 1 .. h : stack'[i] = stack[i]
  BY <1>3, <1>4
<1>6. Kept(h) /\ DOMAIN stack' = 1 .. h
  BY <1>4, <1>5 DEF Kept
<1>7. Above(h) = {h + 1}
  BY DEF Above
<1>8. stack[h + 1] = Top /\ h + 1 \in DOMAIN stack
  BY DEF Top, IInv, Typed
<1> QED BY <1>6, <1>7, <1>8 DEF IInv, Typed

-----------------------------------------------------------------------------
(* The invariant, and what it says.                                         *)

LEMMA StepSound == IInv /\ [Next]_vars => IInv'
<1> SUFFICES ASSUME IInv, [Next]_vars PROVE IInv'
  OBVIOUS
<1>1. CASE UNCHANGED vars
  BY <1>1 DEF vars, IInv, Typed, Nested, DeadArms
<1>2. CASE \/ \E n \in Literals : IntegerLiteral(n)
           \/ \E b \in {0, 1} : BooleanLiteral(b)
           \/ NullLiteral
           \/ \E c \in Column : ColumnRef(c)
           \/ \E v \in Outcomes, type \in OpaqueTypes : Parameter(type, v)
           \/ \E b \in Answers : Exists(b)
  BY <1>2, LeavesSound
<1>3. CASE \E v \in Outcomes : UnknownFunction(v)
  BY <1>3, UnknownFunctionSound
<1>4. CASE Not \/ Minus
  BY <1>4, NotSound, MinusSound
<1>5. CASE \E of \in {Null, 0, 1} : Test(of)
  BY <1>5, TestSound
<1>6. CASE \E type \in CastTypes : Cast(type)
  BY <1>6, CastSound
<1>7. CASE \E name \in {"COUNT", "MAX"}, group \in {{}, Rows} : Aggregate(name, group)
  BY <1>7, AggregateSound
<1>8. CASE \E op \in ArithmeticOps : Arithmetic(op)
  BY <1>8, ArithmeticSound
<1>9. CASE (\E op \in {"=", "<="} : Comparison(op)) \/ (\E op \in {"AND", "OR"} : Logical(op))
  BY <1>9, ComparisonSound, LogicalSound
<1>10. CASE DistinctFrom \/ NullIf \/ Between
  BY <1>10, DistinctFromSound, NullIfSound, BetweenSound
<1>11. CASE \E name \in {"COALESCE", "GREATEST"} : Coalesce(name)
  BY <1>11, CoalesceSound
<1>12. CASE \E n \in 2 .. 3 : InList(n) \/ EqualsAnyArray(n)
  BY <1>12, InListSound, EqualsAnyArraySound
<1>13. CASE \E result \in SubqueryResults, nullable \in BOOLEAN : InSubquery(result, nullable)
  BY <1>13, InSubquerySound
<1>14. CASE OpenCase \/ OpenSimpleCase
  BY <1>14, OpenCaseSound, OpenSimpleCaseSound
<1>15. CASE EnterArm \/ LeaveArm \/ EnterElse \/ LeaveElse \/ EndCase
  BY <1>15, EnterArmSound, LeaveArmSound, EnterElseSound, LeaveElseSound, EndCaseSound
<1> QED BY <1>1, <1>2, <1>3, <1>4, <1>5, <1>6, <1>7, <1>8, <1>9, <1>10, <1>11, <1>12, <1>13,
           <1>14, <1>15 DEF Next

LEMMA InitSound == Init => IInv
<1> SUFFICES ASSUME Init PROVE IInv
  OBVIOUS
<1>1. Typed /\ Nested
  BY DEF Init, Typed, Nested
<1>2. DeadArms = {}
  BY DEF Init, DeadArms
<1>3. leaves \in 0 .. MaxLeaves
  BY InferAssumption DEF Init
<1> QED BY <1>1, <1>2, <1>3, FS_EmptySet DEF Init, IInv

LEMMA InvariantHolds == Spec => []IInv
BY InitSound, StepSound, PTL DEF Spec

(* The inference's state stays in its types, and its suppression counter is *)
(* the number of dead CASE arms around the node, for every expression.      *)
THEOREM TypeCorrect == Spec => []TypeOK
<1>1. IInv => TypeOK
  <2> SUFFICES ASSUME IInv PROVE TypeOK
    OBVIOUS
  <2>1. \A i \in DOMAIN stack : stack[i] \in SoundNode
    BY DEF IInv, Typed
  <2>2. \A i \in DOMAIN stack :
          /\ stack[i].type \in Types /\ stack[i].null \in {1, 2}
          /\ \A row \in Rows : stack[i].value[row] \in Values
    BY <2>1, NodeHas
  <2>3. \A d \in DOMAIN cases : cases[d].height \in 0 .. Len(stack)
    <3>1. Len(stack) \in Nat
      BY DEF IInv, Typed
    <3> QED BY <3>1, HeightsTyped DEF IInv, Nested
  <2> QED BY <2>2, <2>3 DEF TypeOK, IInv, Types, DeadArms
<1> QED BY <1>1, InvariantHolds, PTL

(* An expression that infer_expr calls NOT NULL is NULL in no row its       *)
(* columns' constraints admit, however deep it is and whatever operators,   *)
(* CASE arms and subqueries it is made of. Arrays searched with ANY, where  *)
(* the analyzer is wrong, are excepted.                                     *)
THEOREM NotNullSound == Spec => []NotNullIsSound
<1>1. IInv => NotNullIsSound
  BY DEF IInv, Typed, SoundNode, NotNullIsSound
<1> QED BY <1>1, InvariantHolds, PTL

(* What the analyzer folds an expression to is its value in every row in    *)
(* which it has one, so that no branch is called dead on a wrong constant.  *)
THEOREM FoldedSound == Spec => []FoldedIsValue
<1>1. IInv => FoldedIsValue
  BY DEF IInv, Typed, SoundNode, FoldHolds, FoldedIsValue
<1> QED BY <1>1, InvariantHolds, PTL

-----------------------------------------------------------------------------
(* What a type holds. A value of no known type goes in only where the       *)
(* analyzer knows none (`untyped`); every other value is in its node's type *)
(* because Coerce gives a type that holds what both of its operands' do.    *)

Held(type) ==
  CASE type \in {"Integer", "BigInt"} -> IntegerRange(type)
    [] type \in Wildcard -> {}
    [] OTHER -> Int

Fits(value, type) == \A row \in Rows : value[row] \in Int => value[row] \in Held(type)

NodeFits(x) == ~x.untyped => Fits(x.value, x.type)

Fitting ==
  /\ \A i \in DOMAIN stack : NodeFits(stack[i])
  /\ \A d \in DOMAIN cases : NodeFits(cases[d])

LEMMA HeldTyped ==
  /\ Held("Integer") = MinInt .. MaxInt /\ Held("BigInt") = MinBig .. MaxBig
  /\ Held("Decimal") = Int /\ Held("Boolean") = Int /\ Held("Null") = {} /\ Held("Unknown") = {}
  /\ MinInt .. MaxInt \subseteq MinBig .. MaxBig /\ MinBig .. MaxBig \subseteq Int
<1>1. /\ Held("Integer") = MinInt .. MaxInt /\ Held("BigInt") = MinBig .. MaxBig
      /\ Held("Decimal") = Int /\ Held("Boolean") = Int
      /\ Held("Null") = {} /\ Held("Unknown") = {}
  BY DEF Held, IntegerRange, Wildcard
<1>2. MinInt .. MaxInt \subseteq MinBig .. MaxBig /\ MinBig .. MaxBig \subseteq Int
  BY InferAssumption DEF MinInt, MinBig
<1> QED BY <1>1, <1>2

LEMMA CoercedHolds ==
  ASSUME NEW a \in Types, NEW b \in Types, Compatible(a, b)
  PROVE  Held(a) \subseteq Held(Coerce(a, b)) /\ Held(b) \subseteq Held(Coerce(a, b))
<1>1. CASE a = b
  BY <1>1 DEF Coerce
<1>2. CASE a # b /\ b \in Wildcard
  BY <1>2, HeldTyped DEF Coerce, Wildcard
<1>3. CASE a # b /\ b \notin Wildcard /\ a \in Wildcard
  BY <1>3, HeldTyped DEF Coerce, Wildcard
<1>4. CASE a # b /\ b \notin Wildcard /\ a \notin Wildcard
  <2>1. {a, b} \subseteq Numeric /\ Coerce(a, b) = Promote(a, b)
    BY <1>4 DEF Compatible, Coerce
  <2>2. /\ Held("Integer") \subseteq Held("BigInt") /\ Held("BigInt") \subseteq Held("Decimal")
        /\ Held("Integer") \subseteq Held("Decimal")
    BY HeldTyped
  <2>3. /\ Rank("Integer") = 1 /\ Rank("BigInt") = 2 /\ Rank("Decimal") = 3
        /\ a \in {"Integer", "BigInt", "Decimal"} /\ b \in {"Integer", "BigInt", "Decimal"}
    BY <2>1 DEF Rank, Numeric
  <2>4. Held(a) \subseteq Held(Promote(a, b)) /\ Held(b) \subseteq Held(Promote(a, b))
    <3>1. CASE Rank(a) >= Rank(b)
      <4>1. Promote(a, b) = a
        BY <3>1 DEF Promote
      <4> QED BY <2>2, <2>3, <3>1, <4>1
    <3>2. CASE ~(Rank(a) >= Rank(b))
      <4>1. Promote(a, b) = b
        BY <3>2 DEF Promote
      <4> QED BY <2>2, <2>3, <3>2, <4>1
    <3> QED BY <3>1, <3>2
  <2> QED BY <2>1, <2>4
<1> QED BY <1>1, <1>2, <1>3, <1>4

LEMMA WithinFits ==
  ASSUME NEW type \in {"Integer", "BigInt", "Decimal"}, NEW v, Within(type, v) \in Int
  PROVE  Within(type, v) \in Held(type)
BY MarksAreApart, InferAssumption, HeldTyped DEF Within, Held, IntegerRange, Marks

\* A Boolean is no number, and a node of unknown type is untyped.
LEMMA BooleanFits == \A x : x.type = "Boolean" => NodeFits(x)
BY HeldTyped DEF NodeFits, Fits

LEMMA VisitFits ==
  ASSUME IInv, Fitting, NEW n \in Nat, Has(n), NEW node, Replace(n, node), cases' = cases,
         NodeFits(node)
  PROVE  Fitting'
<1>1. PICK k \in Nat : k = Len(stack) - n
  BY BaseIsHeight DEF IInv, Typed, Has
<1>2. Kept(k) /\ stack'[k + 1] = node /\ DOMAIN stack' = 1 .. k + 1
  BY <1>1, ReplaceShape
<1>3. DOMAIN stack = 1 .. Len(stack)
  BY DEF IInv, Typed
<1>4. \A i \in DOMAIN stack' : i \in 1 .. k \/ i = k + 1
  BY <1>2
<1>5. \A i \in 1 .. k : i \in DOMAIN stack /\ stack'[i] = stack[i]
  BY <1>2, <1>3 DEF Kept
<1> QED BY <1>2, <1>4, <1>5 DEF Fitting, NodeFits, Fits

LEMMA LeafFits ==
  ASSUME IInv, Fitting, NEW node, stack' = Append(stack, node),
         \A d \in DOMAIN cases' : NodeFits(cases'[d]), NodeFits(node)
  PROVE  Fitting'
<1>1. PICK k \in Nat : k = Len(stack)
  BY DEF IInv, Typed
<1>2. Kept(k) /\ stack'[k + 1] = node /\ DOMAIN stack' = 1 .. k + 1
  BY <1>1, AppendShape
<1>3. DOMAIN stack = 1 .. k
  BY <1>1 DEF IInv, Typed
<1>4. \A i \in DOMAIN stack' : i \in 1 .. k \/ i = k + 1
  BY <1>2
<1>5. \A i \in 1 .. k : i \in DOMAIN stack /\ stack'[i] = stack[i]
  BY <1>2, <1>3 DEF Kept
<1> QED BY <1>2, <1>4, <1>5 DEF Fitting, NodeFits, Fits

LEMMA OperandFits ==
  ASSUME IInv, Fitting, NEW n \in Nat, Has(n), NEW i \in 1 .. n
  PROVE  Operand(n, i) \in SoundNode /\ NodeFits(Operand(n, i))
<1>1. Len(stack) \in Nat /\ Len(stack) - n >= 0 /\ DOMAIN stack = 1 .. Len(stack)
  BY BaseIsHeight DEF Has, IInv, Typed
<1>2. Len(stack) - n + i \in DOMAIN stack
  BY <1>1
<1> QED BY <1>2, OperandIsSound DEF Operand, Fitting, IInv

\* The analyzer's tests answer with a truth value.
LEMMA TestsFit ==
  ASSUME IInv, Fitting,
         \/ Not
         \/ \E of \in {Null, 0, 1} : Test(of)
         \/ \E op \in {"=", "<="} : Comparison(op)
         \/ \E op \in {"AND", "OR"} : Logical(op)
         \/ DistinctFrom
         \/ Between
         \/ \E n \in 2 .. 3 : InList(n) \/ EqualsAnyArray(n)
         \/ \E result \in SubqueryResults, nullable \in BOOLEAN : InSubquery(result, nullable)
  PROVE  Fitting'
<1>1. ASSUME NEW n \in Nat, Has(n), NEW node, Visit(n, node), node.type = "Boolean"
      PROVE  Fitting'
  BY <1>1, BooleanFits, VisitFits DEF Visit
<1>2. \A null, value, operands : Node("Boolean", null, value, operands).type = "Boolean"
  BY DEF Node
<1>3. CASE Not \/ (\E of \in {Null, 0, 1} : Test(of))
           \/ (\E result \in SubqueryResults, nullable \in BOOLEAN : InSubquery(result, nullable))
  <2>1. \E null, value, operands : Has(1) /\ Visit(1, Node("Boolean", null, value, operands))
    BY <1>3 DEF Not, Test, InSubquery
  <2> QED BY <1>1, <1>2, <2>1
<1>4. CASE (\E op \in {"AND", "OR"} : Logical(op)) \/ DistinctFrom
  <2>1. \E null, value, operands : Has(2) /\ Visit(2, Node("Boolean", null, value, operands))
    BY <1>4 DEF Logical, DistinctFrom
  <2> QED BY <1>1, <1>2, <2>1
<1>5. CASE Between
  <2>1. \E null, value, operands : Has(3) /\ Visit(3, Node("Boolean", null, value, operands))
    BY <1>5 DEF Between
  <2> QED BY <1>1, <1>2, <2>1
<1>6. ASSUME NEW n \in 2 .. 3, InList(n) PROVE Fitting'
  <2>1. \E null, value, operands : Has(n) /\ Visit(n, Node("Boolean", null, value, operands))
    BY <1>6 DEF InList, Comparable
  <2> QED BY <1>1, <1>2, <2>1
<1>7. ASSUME NEW n \in 2 .. 3, EqualsAnyArray(n) PROVE Fitting'
  <2> DEFINE bare == Node("Boolean", CombineNullableAny({Operand(n, 1).null, 1}),
                          [row \in Rows |-> Found(n, row)], {})
             node == [bare EXCEPT !.arrays = TRUE]
  <2>1. Has(n) /\ Visit(n, node)
    BY <1>7 DEF EqualsAnyArray, Comparable
  <2>2. node.type = "Boolean"
    BY DEF Node
  <2> HIDE DEF node
  <2> QED BY <1>1, <2>1, <2>2
<1>8. ASSUME NEW op \in {"=", "<="}, Comparison(op) PROVE Fitting'
  <2> DEFINE x == Operand(2, 1)
             y == Operand(2, 2)
             term(v, w) == IF op = "=" THEN Equals(v, w) ELSE LessEqual(v, w)
             node == [Node("Boolean", CombineNullableAny({x.null, y.null}),
                           [row \in Rows |-> term(x.value[row], y.value[row])], {x, y}) EXCEPT
                        !.bool = FoldComparison(op, x.int, y.int),
                        !.plain = x.literal /\ y.literal]
  <2>1. Has(2) /\ Visit(2, node)
    BY <1>8 DEF Comparison
  <2>2. node.type = "Boolean"
    BY DEF Node
  <2> HIDE DEF node
  <2> QED BY <1>1, <2>1, <2>2
<1> QED BY <1>3, <1>4, <1>5, <1>6, <1>7, <1>8

LEMMA LeavesFit ==
  ASSUME IInv, Fitting,
         \/ \E n \in Literals : IntegerLiteral(n)
         \/ \E b \in {0, 1} : BooleanLiteral(b)
         \/ NullLiteral
         \/ \E c \in Column : ColumnRef(c)
         \/ \E v \in Outcomes, type \in OpaqueTypes : Parameter(type, v)
         \/ \E b \in Answers : Exists(b)
  PROVE  Fitting'
<1>1. ASSUME NEW node, Leaf(node), NodeFits(node) PROVE Fitting'
  BY <1>1, LeafFits DEF Leaf, Fitting
<1>2. ASSUME NEW type, NEW null, NEW value,
             type # "Unknown" => Fits(value, type)
      PROVE  NodeFits(Node(type, null, value, {}))
  BY <1>2 DEF NodeFits, Node
<1>3. ASSUME NEW n \in Literals, IntegerLiteral(n) PROVE Fitting'
  <2> DEFINE folded == IF n \in MinBig .. MaxBig THEN n ELSE None
             node == [Node(LiteralType(n), 1, Constant(n), {}) EXCEPT
                        !.int = folded, !.literal = folded # None, !.plain = TRUE]
  <2>1. Leaf(node)
    BY <1>3 DEF IntegerLiteral
  <2>2. node.type = LiteralType(n) /\ node.value = Constant(n)
    BY DEF Node
  <2>3. n \in Held(LiteralType(n))
    <3>1. n \in Int
      BY InferAssumption
    <3>2. CASE LiteralType(n) = "Integer"
      <4>1. Magnitude(n) <= MaxInt + (IF n < 0 THEN 1 ELSE 0)
        BY <3>2 DEF LiteralType
      <4> QED BY <3>1, <3>2, <4>1, InferAssumption, HeldTyped DEF Magnitude, MinInt
    <3>3. CASE LiteralType(n) = "BigInt"
      <4>1. Magnitude(n) <= MaxBig + (IF n < 0 THEN 1 ELSE 0)
        BY <3>3 DEF LiteralType
      <4> QED BY <3>1, <3>3, <4>1, InferAssumption, HeldTyped DEF Magnitude, MinBig
    <3>4. LiteralType(n) \in {"Integer", "BigInt", "Decimal"}
      BY DEF LiteralType
    <3> QED BY <3>1, <3>2, <3>3, <3>4, HeldTyped
  <2> HIDE DEF node
  <2>4. NodeFits(node)
    BY <2>2, <2>3 DEF NodeFits, Fits, Constant
  <2> QED BY <1>1, <2>1, <2>4
<1>4. ASSUME NEW b \in {0, 1}, BooleanLiteral(b) PROVE Fitting'
  <2> DEFINE node == [Node("Boolean", 1, Constant(b), {}) EXCEPT !.bool = b, !.plain = TRUE]
  <2>1. Leaf(node) /\ node.type = "Boolean"
    BY <1>4 DEF BooleanLiteral, Node
  <2> HIDE DEF node
  <2> QED BY <1>1, <2>1, BooleanFits
<1>5. ASSUME NullLiteral PROVE Fitting'
  <2>1. Fits(Constant(Null), "Null")
    BY MarksAreApart DEF Fits, Constant
  <2> QED BY <1>1, <1>2, <1>5, <2>1 DEF NullLiteral
<1>6. ASSUME NEW v \in Domain \cup {Null}, v \in Int PROVE v \in Held("Integer")
  BY <1>6, InferAssumption, HeldTyped, MarksAreApart
<1>7. ASSUME NEW c \in Column, ColumnRef(c) PROVE Fitting'
  <2> DEFINE value == [row \in Rows |-> row[c]]
  <2>1. Fits(value, "Integer")
    BY <1>6 DEF Fits, Rows
  <2> HIDE DEF value
  <2>2. NodeFits(Node("Integer", IF c \in NullableColumn THEN 2 ELSE 1, value, {}))
    BY <1>2, <2>1
  <2> QED BY <1>1, <1>7, <2>2 DEF ColumnRef, value
<1>8. ASSUME NEW v \in Outcomes, NEW type \in OpaqueTypes, Parameter(type, v) PROVE Fitting'
  <2>1. type \in {"Unknown", "Integer"} /\ v \in Domain \cup {Null}
    BY InferAssumption
  <2>2. type # "Unknown" => Fits(Constant(v), type)
    BY <1>6, <2>1 DEF Fits, Constant
  <2> QED BY <1>1, <1>2, <1>8, <2>2 DEF Parameter
<1>9. ASSUME NEW b \in Answers, Exists(b) PROVE Fitting'
  <2>1. Node("Boolean", 1, Constant(b), {}).type = "Boolean"
    BY DEF Node
  <2> QED BY <1>1, <1>9, <2>1, BooleanFits DEF Exists
<1> QED BY <1>3, <1>4, <1>5, <1>7, <1>8, <1>9

LEMMA MinusFits == ASSUME IInv, Fitting, Minus PROVE Fitting'
<1> DEFINE x == Operand(1, 1)
           value == [row \in Rows |-> Within(x.type, Negated(x.value[row]))]
           node == [Node(x.type, x.null, value, {x}) EXCEPT
                      !.int = FoldMinus(x.int), !.literal = x.literal, !.plain = x.plain]
<1>1. Has(1) /\ Visit(1, node) /\ x.type \in {"Integer", "BigInt", "Decimal"}
  BY DEF Minus, Numeric
<1>2. node.type = x.type /\ node.value = value
  BY DEF Node
<1> HIDE DEF node
<1>3. Fits(value, x.type)
  BY <1>1, WithinFits DEF Fits
<1>4. NodeFits(node)
  BY <1>2, <1>3 DEF NodeFits
<1> QED BY <1>1, <1>4, VisitFits DEF Visit

LEMMA CastFits == ASSUME IInv, Fitting, NEW type \in CastTypes, Cast(type) PROVE Fitting'
<1> DEFINE x == Operand(1, 1)
           value == [row \in Rows |-> Within(type, x.value[row])]
           node == [Node(type, x.null, value, {x}) EXCEPT !.untyped = FALSE]
<1>1. Has(1) /\ Visit(1, node) /\ type \in {"Integer", "BigInt", "Decimal"}
  BY InferAssumption DEF Cast
<1>2. node.type = type /\ node.value = value
  BY DEF Node
<1> HIDE DEF node
<1>3. Fits(value, type)
  BY <1>1, WithinFits DEF Fits
<1>4. NodeFits(node)
  BY <1>2, <1>3 DEF NodeFits
<1> QED BY <1>1, <1>4, VisitFits DEF Visit

LEMMA UnknownFunctionFits ==
  ASSUME IInv, Fitting, NEW v \in Outcomes, UnknownFunction(v)
  PROVE  Fitting'
<1>1. Has(1) /\ Visit(1, Node("Unknown", 2, Constant(v), {Operand(1, 1)}))
  BY DEF UnknownFunction
<1>2. NodeFits(Node("Unknown", 2, Constant(v), {Operand(1, 1)}))
  BY DEF NodeFits, Node
<1> QED BY <1>1, <1>2, VisitFits DEF Visit

LEMMA AggregateFits ==
  ASSUME IInv, Fitting, NEW name \in {"COUNT", "MAX"}, NEW group \in {{}, Rows},
         Aggregate(name, group)
  PROVE  Fitting'
<1> DEFINE x == Operand(1, 1)
           values == {x.value[row] : row \in group}
           count == Cardinality({row \in group : x.value[row] # Null})
           greatest == CHOOSE v \in values \ {Null} : \A w \in values \ {Null} : w <= v
           answer == CASE values \cap {Fault, Abort} # {} -> Failed(values)
                       [] values \cap {Fault, Abort} = {} /\ name = "COUNT" -> Within("BigInt", count)
                       [] OTHER -> IF values \subseteq {Null} THEN Null ELSE greatest
           type == IF name = "COUNT" THEN "BigInt" ELSE x.type
           null == IF name = "COUNT" THEN 1 ELSE 2
           node == Node(type, null, Constant(answer), {x})
<1>1. Has(1) /\ Visit(1, node)
  BY DEF Aggregate
<1>2. x \in SoundNode /\ NodeFits(x)
  BY <1>1, OperandFits
<1>3. node.type = type /\ node.value = Constant(answer) /\ (~node.untyped => ~x.untyped)
  BY DEF Node
<1> HIDE DEF node, x
<1>4. /\ values \subseteq Values
      /\ values \cap {Fault, Abort} = {} /\ ~(values \subseteq {Null}) => greatest \in values
  BY <1>2, GroupValues
<1>5. ~x.untyped => \A v \in values : v \in Int => v \in Held(x.type)
  BY <1>2 DEF NodeFits, Fits
<1>6. Failed(values) \notin Int /\ Null \notin Int
  BY MarksAreApart DEF Failed
<1>7. Within("BigInt", count) \in Int => Within("BigInt", count) \in Held("BigInt")
  BY WithinFits
<1> HIDE DEF values, count, greatest
<1>8. ~x.untyped /\ answer \in Int => answer \in Held(type)
  BY <1>4, <1>5, <1>6, <1>7
<1> HIDE DEF answer, type
<1>9. NodeFits(node)
  BY <1>3, <1>8 DEF NodeFits, Fits, Constant
<1> QED BY <1>1, <1>9, VisitFits DEF Visit

\* A node whose type and value are those its two operands have together.
LEMMA BinaryFits ==
  ASSUME IInv, Fitting, Has(2), NEW node, Replace(2, node), cases' = cases,
         NEW type \in Types, node.type = type,
         ~node.untyped => ~Operand(2, 1).untyped /\ ~Operand(2, 2).untyped,
         Held(Operand(2, 1).type) \subseteq Held(type),
         Held(Operand(2, 2).type) \subseteq Held(type),
         \A row \in Rows : node.value[row] \in Int =>
           \/ node.value[row] \in {Operand(2, 1).value[row], Operand(2, 2).value[row]}
           \/ node.value[row] \in Held(type)
  PROVE  Fitting'
<1>1. NodeFits(Operand(2, 1)) /\ NodeFits(Operand(2, 2))
  BY OperandFits
<1>2. NodeFits(node)
  BY <1>1 DEF NodeFits, Fits
<1> QED BY <1>2, VisitFits

LEMMA CoalesceFits ==
  ASSUME IInv, Fitting, NEW name \in {"COALESCE", "GREATEST"}, Coalesce(name)
  PROVE  Fitting'
<1> DEFINE x == Operand(2, 1)
           y == Operand(2, 2)
           term(a, b) ==
             IF a \in {Fault, Abort} THEN a
             ELSE IF (name = "COALESCE" /\ a # Null) \/ b = Null THEN a
             ELSE IF a \notin Int \/ b \notin Int THEN b
             ELSE IF a <= b THEN b ELSE a
           type == Coerce(x.type, y.type)
           node == Node(type, CoalesceNullability({x.null, y.null}),
                        [row \in Rows |-> term(x.value[row], y.value[row])], {x, y})
<1>1. Has(2) /\ Visit(2, node) /\ Compatible(x.type, y.type)
  BY DEF Coalesce
<1>2. x \in SoundNode /\ y \in SoundNode
  BY <1>1, OperandFits
<1>3. x.type \in Types /\ y.type \in Types
  BY <1>2, NodeHas
<1>4. type \in Types /\ Held(x.type) \subseteq Held(type) /\ Held(y.type) \subseteq Held(type)
  BY <1>1, <1>3, CoercedTyped, CoercedHolds
<1>5. \A row \in Rows : node.value[row] \in {x.value[row], y.value[row]}
  BY DEF Node
<1>6. node.type = type /\ (~node.untyped => ~x.untyped /\ ~y.untyped)
  BY DEF Node
<1> HIDE DEF node, type
<1> QED BY <1>1, <1>4, <1>5, <1>6, BinaryFits DEF Visit

LEMMA NullIfFits == ASSUME IInv, Fitting, NullIf PROVE Fitting'
<1> DEFINE x == Operand(2, 1)
           y == Operand(2, 2)
           term(a, b) == IF {a, b} \cap {Fault, Abort} # {} THEN Failed({a, b})
                         ELSE IF a = b THEN Null ELSE a
           node == Node(x.type, 2, [row \in Rows |-> term(x.value[row], y.value[row])], {x, y})
<1>1. Has(2) /\ Visit(2, node)
  BY DEF NullIf
<1>2. NodeFits(x)
  BY <1>1, OperandFits
<1>3. \A row \in Rows : node.value[row] \in Int => node.value[row] = x.value[row]
  BY MarksAreApart DEF Node, Failed
<1>4. node.type = x.type /\ (~node.untyped => ~x.untyped)
  BY DEF Node
<1> HIDE DEF node
<1>5. NodeFits(node)
  BY <1>2, <1>3, <1>4 DEF NodeFits, Fits
<1> QED BY <1>1, <1>5, VisitFits DEF Visit

LEMMA ArithmeticFits ==
  ASSUME IInv, Fitting, NEW op \in ArithmeticOps, Arithmetic(op)
  PROVE  Fitting'
<1> DEFINE x == Operand(2, 1)
           y == Operand(2, 2)
           type == Coerce(x.type, y.type)
           divides == op \in {"/", "%"}
           result(a, b) == IF divides /\ b = 0 THEN (IF y.literal THEN Fault ELSE Abort)
                           ELSE IF Exact(op, a, b) \in IntegerRange(type) THEN Exact(op, a, b)
                           ELSE IF x.literal /\ y.literal /\ ~divides THEN Fault ELSE Abort
           term(a, b) == IF {a, b} \subseteq Int THEN result(a, b) ELSE Strict({a, b}, Null)
           value == [row \in Rows |-> term(x.value[row], y.value[row])]
           node == [Node(type, CombineNullableAny({x.null, y.null}), value, {x, y})
                      EXCEPT !.int = FoldArithmetic(op, x.int, y.int),
                             !.literal = x.literal /\ y.literal /\ ~divides,
                             !.plain = /\ x.plain /\ y.plain
                                       /\ \A row \in Rows : Null \notin {x.value[row], y.value[row]}]
<1>1. /\ Has(2) /\ Replace(2, node) /\ cases' = cases
      /\ {x.type, y.type} \subseteq Numeric \cup Wildcard
  BY DEF Arithmetic
<1>2. x \in SoundNode /\ y \in SoundNode /\ NodeFits(x) /\ NodeFits(y)
  BY <1>1, OperandFits
<1>3. node.type = type /\ node.value = value /\ (~node.untyped => ~x.untyped /\ ~y.untyped)
  BY DEF Node
<1> HIDE DEF node
<1>4. type \in Numeric \cup Wildcard
  BY <1>1 DEF Coerce, Promote
<1>5. \A a, b : term(a, b) \in Int => {a, b} \subseteq Int /\ term(a, b) \in IntegerRange(type)
  <2>1. \A a, b : Strict({a, b}, Null) \notin Int
    BY MarksAreApart DEF Strict, Failed
  <2>2. \A a, b : result(a, b) \in Int => result(a, b) \in IntegerRange(type)
    BY MarksAreApart
  <2> HIDE DEF result
  <2> QED BY <2>1, <2>2
<1> HIDE DEF term
<1>6. CASE type \in Wildcard
  <2>1. x.type \in Wildcard
    BY <1>6 DEF Coerce, Promote, Wildcard, Rank, Numeric
  <2>2. ~x.untyped => \A row \in Rows : x.value[row] \notin Int
    BY <1>2, <2>1, HeldTyped DEF NodeFits, Fits, Wildcard
  <2>3. NodeFits(node)
    BY <1>3, <1>5, <2>2 DEF NodeFits, Fits
  <2> QED BY <1>1, <2>3, VisitFits
<1>7. CASE type \in Numeric
  <2>1. IntegerRange(type) \subseteq Held(type)
    BY <1>7, RangesAreIntegers DEF Held, Numeric, Wildcard
  <2>2. NodeFits(node)
    BY <1>3, <1>5, <2>1 DEF NodeFits, Fits
  <2> QED BY <1>1, <2>2, VisitFits
<1> QED BY <1>4, <1>6, <1>7

(* CASE: a frame's values are the results so far, and so is its type.       *)

LEMMA PendingFits == \A type : Fits(Constant(Pending), type) /\ Fits(Constant(Null), type)
BY MarksAreApart DEF Fits, Constant

\* The open CASE in a new state, its part taken from the stack or not.
LEMMA ChangeFits ==
  ASSUME IInv, Fitting, cases # <<>>, NEW frame, Change(frame), NodeFits(frame),
         stack' = stack \/ (Len(stack) >= 1 /\ stack' = Popped)
  PROVE  Fitting'
<1>1. \A d \in DOMAIN cases' : d \in DOMAIN cases /\ cases'[d] \in {cases[d], frame}
  <2>1. cases' = [cases EXCEPT ![Len(cases)] = frame]
    BY DEF Change
  <2> QED BY <2>1, OpenIsSound
<1>2. \A i \in DOMAIN stack' : i \in DOMAIN stack /\ stack'[i] = stack[i]
  <2>1. CASE stack' = stack
    BY <2>1
  <2>2. CASE Len(stack) >= 1 /\ stack' = Popped
    <3> DEFINE h == Len(stack) - 1
    <3>1. h \in Nat /\ Len(stack) = h + 1 /\ DOMAIN stack = 1 .. h + 1
      BY <2>2 DEF IInv, Typed
    <3> HIDE DEF h
    <3>2. Kept(h) /\ DOMAIN stack' = 1 .. h
      BY <2>2, <3>1, PoppedShape
    <3> QED BY <3>1, <3>2 DEF Kept
  <2> QED BY <2>1, <2>2
<1>3. \A d \in DOMAIN cases' : NodeFits(cases'[d])
  BY <1>1 DEF Fitting
<1>4. \A i \in DOMAIN stack' : NodeFits(stack'[i])
  BY <1>2 DEF Fitting
<1> QED BY <1>3, <1>4 DEF Fitting

LEMMA OpenFits == ASSUME IInv, Fitting, cases # <<>> PROVE NodeFits(Open)
<1>1. Len(cases) \in DOMAIN cases
  BY OpenIsSound
<1> QED BY <1>1 DEF Fitting, Open

LEMMA TopFits == ASSUME IInv, Fitting, Len(stack) >= 1 PROVE NodeFits(Top)
<1>1. Len(stack) \in DOMAIN stack
  BY DEF IInv, Typed
<1> QED BY <1>1 DEF Fitting, Top

\* What is due of the open CASE is on the stack.
LEMMA PartIsThere == ASSUME IInv, NEW phase, Part(phase) PROVE cases # <<>> /\ Len(stack) >= 1
<1>1. cases # <<>> /\ Len(stack) = Open.height + 1
  BY DEF Part
<1>2. Open.height \in Nat
  BY <1>1, OpenIsSound, FrameHas
<1> QED BY <1>1, <1>2

LEMMA OpeningFits == ASSUME IInv, Fitting, OpenCase \/ OpenSimpleCase PROVE Fitting'
<1>1. \A simple, operand, height : NodeFits(Frame(simple, operand, height))
  BY PendingFits DEF NodeFits, Frame
<1>2. PICK frame : cases' = Append(cases, frame) /\ NodeFits(frame)
  BY <1>1 DEF OpenCase, OpenSimpleCase
<1>3. \A d \in DOMAIN cases' : cases'[d] = frame \/ (d \in DOMAIN cases /\ cases'[d] = cases[d])
  <2> DEFINE S == SoundFrame \cup {frame}
  <2>1. cases \in Seq(S) /\ frame \in S
    BY DEF IInv, Typed
  <2> HIDE DEF S
  <2>2. PICK k \in Nat : k = Len(cases)
    BY <2>1
  <2>3. /\ cases' \in Seq(S) /\ Len(cases') = k + 1
        /\ \A d \in 1 .. k : cases'[d] = cases[d]
        /\ cases'[k + 1] = frame
    BY <1>2, <2>1, <2>2, AppendProperties
  <2>4. DOMAIN cases' = 1 .. k + 1 /\ DOMAIN cases = 1 .. k
    BY <2>1, <2>2, <2>3
  <2> QED BY <2>3, <2>4
<1>4. \A i \in DOMAIN stack' : i \in DOMAIN stack /\ stack'[i] = stack[i]
  <2>1. CASE stack' = stack
    BY <2>1
  <2>2. CASE Has(1) /\ stack' = Popped
    <3> DEFINE h == Len(stack) - 1
    <3>1. h \in Nat /\ Len(stack) = h + 1 /\ DOMAIN stack = 1 .. h + 1
      BY <2>2, BaseIsHeight DEF IInv, Typed, Has
    <3> HIDE DEF h
    <3>2. Kept(h) /\ DOMAIN stack' = 1 .. h
      BY <2>2, <3>1, PoppedShape
    <3> QED BY <3>1, <3>2 DEF Kept
  <2> QED BY <2>1, <2>2 DEF OpenCase, OpenSimpleCase
<1>5. \A d \in DOMAIN cases' : NodeFits(cases'[d])
  BY <1>2, <1>3 DEF Fitting
<1>6. \A i \in DOMAIN stack' : NodeFits(stack'[i])
  BY <1>4 DEF Fitting
<1> QED BY <1>5, <1>6 DEF Fitting

LEMMA EnterArmFits == ASSUME IInv, Fitting, EnterArm PROVE Fitting'
<1> DEFINE guard == Guard(Open, Top)
           folded == FoldGuard(Open, Top)
           dead == Open.priorTaken \/ folded = 0
           plain == /\ Open.plain /\ Top.plain /\ folded # None
                    /\ \A row \in Rows : Top.value[row] \in Int
           arrays == Open.arrays \/ Top.arrays
           frame == [Open EXCEPT !.phase = "result", !.guard = guard, !.folded = folded,
                                 !.dead = dead, !.plain = plain, !.arrays = arrays]
<1>1. cases # <<>> /\ Len(stack) >= 1
  BY PartIsThere DEF EnterArm
<1>2. Change(frame)
  <2>1. frame = [Open EXCEPT !.phase = "result", !.guard = Guard(Open, Top),
                   !.folded = FoldGuard(Open, Top),
                   !.dead = Open.priorTaken \/ FoldGuard(Open, Top) = 0,
                   !.plain = /\ @ /\ Top.plain /\ FoldGuard(Open, Top) # None
                             /\ \A row \in Rows : Top.value[row] \in Int,
                   !.arrays = @ \/ Top.arrays]
    OBVIOUS
  <2> HIDE DEF frame
  <2> QED BY <2>1 DEF EnterArm
<1>3. stack' = Popped
  BY DEF EnterArm
<1>4. Open \in SoundFrame /\ NodeFits(Open)
  BY <1>1, OpenIsSound, OpenFits
<1> HIDE DEF guard, folded, dead, plain, arrays
<1>5. frame.type = Open.type /\ frame.value = Open.value /\ frame.untyped = Open.untyped
  BY <1>4 DEF SoundFrame, Frames
<1> HIDE DEF frame
<1>6. NodeFits(frame)
  BY <1>4, <1>5 DEF NodeFits
<1> QED BY <1>1, <1>2, <1>3, <1>6, ChangeFits

LEMMA LeaveArmFits == ASSUME IInv, Fitting, LeaveArm PROVE Fitting'
<1> DEFINE type == Coerce(Open.type, Top.type)
           nulls == Open.nulls \cup {Top.null}
           taken == Open.priorTaken \/ Open.folded = 1
           value == Taken(Open, Top)
           guard == Constant(Pending)
           plain == Open.plain /\ Top.plain
           arrays == Open.arrays \/ Top.arrays
           untyped == Open.untyped \/ Top.untyped
           frame == [Open EXCEPT !.phase = "guard", !.dead = FALSE, !.guard = guard,
                                 !.folded = None, !.priorTaken = taken, !.type = type,
                                 !.nulls = nulls, !.value = value, !.plain = plain,
                                 !.arrays = arrays, !.untyped = untyped]
<1>1. cases # <<>> /\ Len(stack) >= 1 /\ Compatible(Open.type, Top.type)
  BY PartIsThere DEF LeaveArm
<1>2. Change(frame)
  <2>1. frame = [Open EXCEPT !.phase = "guard", !.dead = FALSE, !.guard = Constant(Pending),
                   !.folded = None, !.priorTaken = @ \/ Open.folded = 1,
                   !.type = Coerce(@, Top.type), !.nulls = @ \cup {Top.null},
                   !.value = Taken(Open, Top), !.plain = @ /\ Top.plain,
                   !.arrays = @ \/ Top.arrays, !.untyped = @ \/ Top.untyped]
    OBVIOUS
  <2> HIDE DEF frame
  <2> QED BY <2>1 DEF LeaveArm
<1>3. stack' = Popped
  BY DEF LeaveArm
<1>4. Open \in SoundFrame /\ NodeFits(Open) /\ Top \in SoundNode /\ NodeFits(Top)
  BY <1>1, OpenIsSound, OpenFits, PoppedTyped, TopFits
<1>5. Held(Open.type) \subseteq Held(type) /\ Held(Top.type) \subseteq Held(type)
  BY <1>1, <1>4, NodeHas, FrameHas, CoercedHolds
<1>6. \A row \in Rows : value[row] \in Int =>
        value[row] \in {Open.value[row], Top.value[row]}
  BY MarksAreApart DEF Taken
<1>7. untyped \in BOOLEAN /\ (untyped <=> Open.untyped \/ Top.untyped)
  BY <1>4, NodeHas, FrameHas
<1> HIDE DEF type, nulls, taken, value, guard, plain, arrays, untyped
<1>8. frame.type = type /\ frame.value = value /\ frame.untyped = untyped
  <2> DEFINE ended == [Open EXCEPT !.phase = "guard", !.dead = FALSE, !.guard = guard,
                                   !.folded = None, !.priorTaken = taken]
  <2>1. DOMAIN ended = DOMAIN Open
    OBVIOUS
  <2>2. frame = [ended EXCEPT !.type = type, !.nulls = nulls, !.value = value, !.plain = plain,
                              !.arrays = arrays, !.untyped = untyped]
    OBVIOUS
  <2>3. {"type", "value", "untyped"} \subseteq DOMAIN Open
    BY <1>4 DEF SoundFrame, Frames
  <2> HIDE DEF ended, frame
  <2> QED BY <2>1, <2>2, <2>3
<1> HIDE DEF frame
<1>9. NodeFits(frame)
  BY <1>4, <1>5, <1>6, <1>7, <1>8 DEF NodeFits, Fits
<1> QED BY <1>1, <1>2, <1>3, <1>9, ChangeFits

LEMMA EnterElseFits == ASSUME IInv, Fitting, EnterElse PROVE Fitting'
<1> DEFINE frame == [Open EXCEPT !.phase = "else", !.dead = Open.priorTaken]
<1>1. cases # <<>> /\ Change(frame) /\ stack' = stack
  BY DEF EnterElse
<1>2. Open \in SoundFrame /\ NodeFits(Open)
  BY <1>1, OpenIsSound, OpenFits
<1>3. frame.type = Open.type /\ frame.value = Open.value /\ frame.untyped = Open.untyped
  BY <1>2 DEF SoundFrame, Frames
<1> HIDE DEF frame
<1>4. NodeFits(frame)
  BY <1>2, <1>3 DEF NodeFits
<1> QED BY <1>1, <1>4, ChangeFits

\* The CASE is complete: the frames around it are as before.
LEMMA FramesPopped ==
  ASSUME IInv, Fitting, cases # <<>>, cases' = SubSeq(cases, 1, Len(cases) - 1)
  PROVE  \A d \in DOMAIN cases' : NodeFits(cases'[d])
<1>1. PICK n \in Nat \ {0} : n = Len(cases)
  BY OpenIsSound
<1>2. DOMAIN cases = 1 .. n /\ cases \in Seq(SoundFrame) /\ n - 1 \in Int /\ 1 \in Int
  BY <1>1, OpenIsSound DEF IInv, Typed
<1>3. \A d \in 1 .. n - 1 : cases[d] \in SoundFrame
  BY <1>2
<1>4. /\ cases' \in Seq(SoundFrame)
      /\ Len(cases') = IF 1 <= n - 1 THEN n - 1 - 1 + 1 ELSE 0
      /\ \A d \in 1 .. n - 1 - 1 + 1 : cases'[d] = cases[1 + d - 1]
  BY <1>1, <1>2, <1>3, SubSeqProperties
<1>5. DOMAIN cases' = 1 .. n - 1 /\ \A d \in 1 .. n - 1 : cases'[d] = cases[d]
  BY <1>4
<1> QED BY <1>2, <1>5 DEF Fitting

LEMMA LeaveElseFits == ASSUME IInv, Fitting, LeaveElse PROVE Fitting'
<1> DEFINE type == Coerce(Open.type, Top.type)
           null == CombineNullableAny(Open.nulls \cup {Top.null})
           plain == Open.plain /\ Top.plain
           arrays == Open.arrays \/ Top.arrays
           untyped == Open.untyped \/ Top.untyped
           bare == CaseNode(Open, type, null, Top.value)
           node == [bare EXCEPT !.plain = plain, !.arrays = arrays, !.untyped = untyped]
<1>1. cases # <<>> /\ Len(stack) >= 1 /\ Compatible(Open.type, Top.type)
  BY PartIsThere DEF LeaveElse
<1>2. stack' = Append(Popped, node) /\ cases' = SubSeq(cases, 1, Len(cases) - 1)
  <2>1. node = [CaseNode(Open, Coerce(Open.type, Top.type),
                         CombineNullableAny(Open.nulls \cup {Top.null}), Top.value)
                  EXCEPT !.plain = @ /\ Top.plain, !.arrays = @ \/ Top.arrays,
                         !.untyped = @ \/ Top.untyped]
    BY DEF CaseNode
  <2> HIDE DEF node
  <2> QED BY <2>1 DEF LeaveElse
<1>3. Open \in SoundFrame /\ NodeFits(Open) /\ Top \in SoundNode /\ NodeFits(Top)
  BY <1>1, OpenIsSound, OpenFits, PoppedTyped, TopFits
<1>4. Held(Open.type) \subseteq Held(type) /\ Held(Top.type) \subseteq Held(type)
  BY <1>1, <1>3, NodeHas, FrameHas, CoercedHolds
<1>5. /\ bare.type = type
      /\ \A row \in Rows : bare.value[row] \in {Open.value[row], Top.value[row]}
  BY DEF CaseNode
<1>6. node.type = bare.type /\ node.value = bare.value /\ (node.untyped <=> untyped)
  BY DEF CaseNode
<1>7. untyped <=> Open.untyped \/ Top.untyped
  OBVIOUS
<1> HIDE DEF node, bare, type, untyped
<1>8. NodeFits(node)
  BY <1>3, <1>4, <1>5, <1>6, <1>7 DEF NodeFits, Fits
<1>9. PICK h \in Nat : Len(stack) = h + 1
  <2>1. Len(stack) - 1 \in Nat /\ Len(stack) = (Len(stack) - 1) + 1
    BY <1>1 DEF IInv, Typed
  <2> QED BY <2>1
<1>10. /\ DOMAIN stack' = 1 .. h + 1 /\ stack'[h + 1] = node
       /\ \A i \in 1 .. h : i \in DOMAIN stack /\ stack'[i] = stack[i]
  <2>1. Popped \in Seq(SoundNode \cup {node}) /\ Len(Popped) = h
    <3>1. Popped \in Seq(SoundNode) /\ Len(Popped) = h
      BY <1>1, <1>9, PoppedTyped
    <3> QED BY <3>1
  <2>2. \A i \in 1 .. h : i \in DOMAIN stack /\ Popped[i] = stack[i]
    <3>1. \A i \in 1 .. h : stack[i] \in SoundNode /\ i \in DOMAIN stack
      BY <1>9 DEF IInv, Typed
    <3>2. h \in Int /\ 1 \in Int /\ Popped = SubSeq(stack, 1, h)
      BY <1>9 DEF Popped
    <3>3. \A i \in 1 .. h - 1 + 1 : SubSeq(stack, 1, h)[i] = stack[1 + i - 1]
      BY <3>1, <3>2, SubSeqProperties
    <3> QED BY <3>1, <3>2, <3>3
  <2> DEFINE S == SoundNode \cup {node}
  <2>3. node \in S /\ Popped \in Seq(S)
    BY <2>1
  <2> HIDE DEF S
  <2>4. /\ Append(Popped, node) \in Seq(S) /\ Len(Append(Popped, node)) = h + 1
        /\ \A i \in 1 .. h : Append(Popped, node)[i] = Popped[i]
        /\ Append(Popped, node)[h + 1] = node
    BY <2>1, <2>3, AppendProperties
  <2> QED BY <1>2, <2>2, <2>4
<1>11. \A i \in DOMAIN stack' : NodeFits(stack'[i])
  <2>1. \A i \in DOMAIN stack' : i \in 1 .. h \/ i = h + 1
    BY <1>10
  <2> QED BY <1>8, <1>10, <2>1 DEF Fitting
<1> QED BY <1>1, <1>2, <1>11, FramesPopped DEF Fitting

LEMMA EndCaseFits == ASSUME IInv, Fitting, EndCase PROVE Fitting'
<1> DEFINE node == CaseNode(Open, Open.type, 2, Constant(Null))
<1>1. /\ cases # <<>> /\ stack' = Append(stack, node)
      /\ cases' = SubSeq(cases, 1, Len(cases) - 1)
  BY DEF EndCase
<1>2. NodeFits(Open)
  BY <1>1, OpenFits
<1>3. /\ node.type = Open.type /\ node.untyped = Open.untyped
      /\ \A row \in Rows : node.value[row] \in {Open.value[row], Null}
  BY DEF CaseNode, Constant
<1> HIDE DEF node
<1>4. NodeFits(node)
  BY <1>2, <1>3, MarksAreApart DEF NodeFits, Fits
<1> QED BY <1>1, <1>4, FramesPopped, LeafFits

LEMMA FittingInit == Init => Fitting
BY DEF Init, Fitting

LEMMA FittingStep == IInv /\ Fitting /\ [Next]_vars => Fitting'
<1> SUFFICES ASSUME IInv, Fitting, [Next]_vars PROVE Fitting'
  OBVIOUS
<1>1. CASE UNCHANGED vars
  BY <1>1 DEF vars, Fitting, NodeFits, Fits
<1>2. CASE \/ \E n \in Literals : IntegerLiteral(n)
           \/ \E b \in {0, 1} : BooleanLiteral(b)
           \/ NullLiteral
           \/ \E c \in Column : ColumnRef(c)
           \/ \E v \in Outcomes, type \in OpaqueTypes : Parameter(type, v)
           \/ \E b \in Answers : Exists(b)
  BY <1>2, LeavesFit
<1>3. CASE (\E v \in Outcomes : UnknownFunction(v)) \/ Minus
           \/ (\E type \in CastTypes : Cast(type))
  BY <1>3, UnknownFunctionFits, MinusFits, CastFits
<1>4. CASE \/ Not
           \/ \E of \in {Null, 0, 1} : Test(of)
           \/ \E op \in {"=", "<="} : Comparison(op)
           \/ \E op \in {"AND", "OR"} : Logical(op)
           \/ DistinctFrom
           \/ Between
           \/ \E n \in 2 .. 3 : InList(n) \/ EqualsAnyArray(n)
           \/ \E result \in SubqueryResults, nullable \in BOOLEAN : InSubquery(result, nullable)
  BY <1>4, TestsFit
<1>5. CASE \E name \in {"COUNT", "MAX"}, group \in {{}, Rows} : Aggregate(name, group)
  BY <1>5, AggregateFits
<1>6. CASE \E op \in ArithmeticOps : Arithmetic(op)
  BY <1>6, ArithmeticFits
<1>7. CASE (\E name \in {"COALESCE", "GREATEST"} : Coalesce(name)) \/ NullIf
  BY <1>7, CoalesceFits, NullIfFits
<1>8. CASE OpenCase \/ OpenSimpleCase
  BY <1>8, OpeningFits
<1>9. CASE EnterArm \/ LeaveArm \/ EnterElse \/ LeaveElse \/ EndCase
  BY <1>9, EnterArmFits, LeaveArmFits, EnterElseFits, LeaveElseFits, EndCaseFits
<1> QED BY <1>1, <1>2, <1>3, <1>4, <1>5, <1>6, <1>7, <1>8, <1>9 DEF Next

(* The integer type infer_expr gives an expression holds every value the    *)
(* expression has in any row, through literals at the ends of a width, the  *)
(* common types of COALESCE and CASE, and the widths casts and arithmetic   *)
(* fail beyond. What values of no known type go into is excepted.           *)
THEOREM TypesHoldValues == Spec => []TypeHoldsValues
<1>1. Spec => [](IInv /\ Fitting)
  <2>1. Init => IInv /\ Fitting
    BY InitSound, FittingInit
  <2>2. (IInv /\ Fitting) /\ [Next]_vars => (IInv /\ Fitting)'
    BY StepSound, FittingStep
  <2> QED BY <2>1, <2>2, PTL DEF Spec
<1>2. IInv /\ Fitting => TypeHoldsValues
  <2> SUFFICES ASSUME Fitting PROVE TypeHoldsValues
    OBVIOUS
  <2> QED BY DEF Fitting, NodeFits, Fits, Held, TypeHoldsValues
<1> QED BY <1>1, <1>2, PTL

-----------------------------------------------------------------------------
(* Warnings: literal arithmetic that fails is warned of exactly where the   *)
(* failure can be met. What carries the one half over the steps is that     *)
(* every part of the expression so far, nodes and open CASEs, is free of    *)
(* such failures unless it lies in a dead arm; what carries the other is    *)
(* that after a warning some part outside the dead arms is either not made  *)
(* of literals or fails in every row. Both rest on what an open CASE knows  *)
(* of its arms (ArmHolds).                                                  *)

Failing == {Fault, Abort}

\* A node the analyzer takes for a literal is built of literals, and never NULL.
Literally(x) == x.literal => x.plain /\ \A row \in Rows : x.value[row] # Null

\* What an open CASE knows of its arms is so.
ArmHolds(f) ==
  /\ f.priorTaken => \A row \in Rows : f.value[row] # Pending
  /\ f.folded # None => \A row \in Rows : f.guard[row] \in {f.folded} \cup Failing
  /\ f.phase = "result" => /\ f.dead <=> f.priorTaken \/ f.folded = 0
                           /\ f.plain => f.folded # None
  /\ f.phase = "else" => f.nulls # {} /\ (f.dead <=> f.priorTaken)
  /\ f.plain /\ ~f.priorTaken => \A row \in Rows : f.value[row] \in {Pending} \cup Failing

Arms ==
  /\ \A i \in DOMAIN stack : Literally(stack[i])
  /\ \A d \in DOMAIN cases : ArmHolds(cases[d])

\* Position i of the stack, or the CASE d, is in a dead arm.
NodeDead(i) == \E e \in DOMAIN cases : cases[e].dead /\ cases[e].height < i
CaseDead(d) == \E e \in DOMAIN cases : cases[e].dead /\ e < d

\* No literal arithmetic fails.
Quiet(value) == \A row \in Rows : value[row] # Fault

QuietFrame(f) == Quiet(f.operand.value) /\ Quiet(f.guard) /\ Quiet(f.value)

NoFaultUnseen ==
  warnings = {} =>
    /\ \A i \in DOMAIN stack : NodeDead(i) \/ Quiet(stack[i].value)
    /\ \A d \in DOMAIN cases : CaseDead(d) \/ QuietFrame(cases[d])

Fails(value) == \A row \in Rows : value[row] \in Failing

FrameFails(f) ==
  \A row \in Rows :
    \/ f.value[row] \in Failing
    \/ /\ f.value[row] = Pending /\ f.nulls = {} /\ f.simple
       /\ f.operand.value[row] \in Failing
       /\ f.phase = "result" => f.guard[row] \in Failing

Suspect(i) == ~stack[i].plain \/ (~NodeDead(i) /\ Fails(stack[i].value))

SuspectCase(d) == ~cases[d].plain \/ (~CaseDead(d) /\ FrameFails(cases[d]))

WarnedFails ==
  Rows # {} /\ warnings # {} =>
    \/ \E i \in DOMAIN stack : Suspect(i)
    \/ \E d \in DOMAIN cases : SuspectCase(d)

Warned == Arms /\ NoFaultUnseen /\ WarnedFails

-----------------------------------------------------------------------------
(* Which parts lie in a dead arm.                                           *)

\* Warnings are suppressed while some arm is dead.
LEMMA SuppressedInDeadArm ==
  ASSUME IInv
  PROVE  div0Suppress = 0 <=> \A e \in DOMAIN cases : ~cases[e].dead
<1>1. IsFiniteSet(DeadArms) /\ div0Suppress = Cardinality(DeadArms)
  BY DeadArmsFinite DEF IInv
<1>2. div0Suppress = 0 <=> DeadArms = {}
  BY <1>1, FS_EmptySet
<1> QED BY <1>2 DEF DeadArms

\* What is visited lies in every arm that is open.
LEMMA VisitedIsInside ==
  ASSUME IInv, NEW i \in Int, Base < i
  PROVE  NodeDead(i) <=> div0Suppress # 0
<1>1. \A e \in DOMAIN cases : cases[e].height \in Nat /\ cases[e].height <= Base
  BY HeightsTyped
<1>2. Base \in Nat
  BY BaseIsHeight DEF IInv
<1>3. \A e \in DOMAIN cases : cases[e].height < i
  BY <1>1, <1>2
<1> QED BY <1>3, SuppressedInDeadArm DEF NodeDead

\* A node that takes the place of the nodes above k keeps the invariant if it is
\* quiet and fails as they do.
LEMMA NodeKeeps ==
  ASSUME IInv, Warned, NEW k, Kept(k), Base <= k, NEW node,
         Len(stack') = k + 1, stack'[k + 1] = node, DOMAIN stack' = 1 .. k + 1,
         cases' = cases, Literally(node), warnings \subseteq warnings',
         div0Suppress = 0 /\ warnings' = {} =>
           ((\A j \in Above(k) : Quiet(stack[j].value)) => Quiet(node.value)),
         warnings' # warnings => div0Suppress = 0 /\ (node.plain => Fails(node.value)),
         node.plain => \A j \in Above(k) :
                         stack[j].plain /\ (Fails(stack[j].value) => Fails(node.value))
  PROVE  Warned'
<1>1. DOMAIN stack = 1 .. Len(stack) /\ Base \in Nat
  BY BaseIsHeight DEF IInv, Typed
<1>2. k \in Nat /\ k <= Len(stack) /\ Len(stack) \in Nat
  BY DEF Kept
<1>3. /\ \A i : NodeDead(i)' <=> NodeDead(i)
      /\ \A d : CaseDead(d)' <=> CaseDead(d)
  BY DEF NodeDead, CaseDead
<1>4. \A j \in (k + 1) .. Len(stack) + 1 : NodeDead(j) <=> div0Suppress # 0
  <2> SUFFICES ASSUME NEW j \in (k + 1) .. Len(stack) + 1
               PROVE  NodeDead(j) <=> div0Suppress # 0
    OBVIOUS
  <2>1. j \in Int /\ Base < j
    BY <1>1, <1>2
  <2> QED BY <2>1, VisitedIsInside
<1>5. \A i \in 1 .. Len(stack) : i \in 1 .. k \/ i \in Above(k)
  BY <1>2 DEF Above
<1>6. \A i \in DOMAIN stack' : i \in 1 .. k \/ i = k + 1
  BY <1>2
<1>7. /\ \A i \in 1 .. k : i \in DOMAIN stack /\ i \in DOMAIN stack' /\ stack'[i] = stack[i]
      /\ k + 1 \in DOMAIN stack'
      /\ \A j \in Above(k) : NodeDead(j) <=> div0Suppress # 0
      /\ NodeDead(k + 1) <=> div0Suppress # 0
  BY <1>1, <1>2, <1>4 DEF Kept, Above
<1>8. Arms'
  BY <1>6, <1>7 DEF Arms, Warned, ArmHolds
<1>9. NoFaultUnseen'
  <2> SUFFICES ASSUME warnings' = {}
               PROVE  /\ \A i \in DOMAIN stack' : NodeDead(i)' \/ Quiet(stack'[i].value)
                      /\ \A d \in DOMAIN cases : CaseDead(d)' \/ QuietFrame(cases[d])
    BY DEF NoFaultUnseen, Quiet, QuietFrame
  <2>1. /\ \A i \in DOMAIN stack : NodeDead(i) \/ Quiet(stack[i].value)
        /\ \A d \in DOMAIN cases : CaseDead(d) \/ QuietFrame(cases[d])
    BY DEF Warned, NoFaultUnseen
  <2>2. \A j \in Above(k) : div0Suppress = 0 => Quiet(stack[j].value)
    BY <1>1, <1>2, <1>7, <2>1 DEF Above
  <2>3. NodeDead(k + 1) \/ Quiet(node.value)
    BY <1>7, <2>2
  <2> QED BY <1>3, <1>6, <1>7, <2>1, <2>3
<1>10. WarnedFails'
  <2> SUFFICES ASSUME Rows # {}, warnings' # {}
               PROVE  \/ \E i \in DOMAIN stack' : Suspect(i)'
                      \/ \E d \in DOMAIN cases : SuspectCase(d)'
    BY DEF WarnedFails
  <2>1. \A d \in DOMAIN cases : SuspectCase(d) => SuspectCase(d)'
    BY <1>3 DEF SuspectCase, FrameFails
  <2>2. \A i \in 1 .. k : Suspect(i) => Suspect(i)'
    BY <1>3, <1>7 DEF Suspect, Fails
  <2>3. Suspect(k + 1)' <=> (node.plain => div0Suppress = 0 /\ Fails(node.value))
    BY <1>3, <1>7 DEF Suspect, Fails
  <2>4. CASE warnings' # warnings
    BY <1>7, <2>3, <2>4
  <2>5. CASE warnings' = warnings
    <3>1. CASE \E d \in DOMAIN cases : SuspectCase(d)
      BY <2>1, <3>1
    <3>2. CASE \E i \in 1 .. k : Suspect(i)
      BY <1>7, <2>2, <3>2
    <3>3. CASE \E j \in Above(k) : Suspect(j)
      BY <1>7, <2>3, <3>3 DEF Suspect
    <3> QED BY <1>1, <1>5, <2>5, <3>1, <3>2, <3>3 DEF Warned, WarnedFails
  <2> QED BY <2>4, <2>5
<1> QED BY <1>8, <1>9, <1>10 DEF Warned

\* A node visited with n operands.
LEMMA VisitKeeps ==
  ASSUME IInv, Warned, NEW n \in Nat, Has(n), NEW node, Replace(n, node),
         cases' = cases, Literally(node), warnings \subseteq warnings',
         div0Suppress = 0 /\ warnings' = {} =>
           ((\A i \in 1 .. n : Quiet(Operand(n, i).value)) => Quiet(node.value)),
         warnings' # warnings => div0Suppress = 0 /\ (node.plain => Fails(node.value)),
         node.plain => \A i \in 1 .. n : /\ Operand(n, i).plain
                                         /\ Fails(Operand(n, i).value) => Fails(node.value)
  PROVE  Warned'
<1> DEFINE k == Len(stack) - n
<1>1. /\ Kept(k) /\ Base <= k /\ Len(stack') = k + 1 /\ stack'[k + 1] = node
      /\ DOMAIN stack' = 1 .. k + 1
      /\ \A j \in Above(k) : \E i \in 1 .. n : stack[j] = Operand(n, i)
  BY ReplaceShape
<1>2. \A i \in 1 .. n : \E j \in Above(k) : stack[j] = Operand(n, i)
  <2> SUFFICES ASSUME NEW i \in 1 .. n PROVE \E j \in Above(k) : stack[j] = Operand(n, i)
    OBVIOUS
  <2>1. k + i \in Above(k) /\ k + i = Len(stack) - n + i
    BY <1>1 DEF Kept, Above
  <2> QED BY <2>1 DEF Operand
<1> HIDE DEF k
<1>3. (\A j \in Above(k) : Quiet(stack[j].value)) => \A i \in 1 .. n : Quiet(Operand(n, i).value)
  BY <1>2
<1>4. node.plain => \A j \in Above(k) :
                      stack[j].plain /\ (Fails(stack[j].value) => Fails(node.value))
  BY <1>1
<1> QED BY <1>1, <1>3, <1>4, NodeKeeps

\* A node that is not made of literals, and warns of nothing.
LEMMA ComposedKeeps ==
  ASSUME IInv, Warned, NEW n \in Nat, Has(n), NEW node, Visit(n, node),
         ~node.plain, ~node.literal,
         (\A i \in 1 .. n : Quiet(Operand(n, i).value)) => Quiet(node.value)
  PROVE  Warned'
BY VisitKeeps DEF Visit, Literally

LEMMA LeafKeeps ==
  ASSUME IInv, Warned, NEW node, Leaf(node), Literally(node), Quiet(node.value)
  PROVE  Warned'
<1>1. PICK k \in Nat : k = Len(stack)
  BY DEF IInv, Typed
<1>2. Base <= k
  BY <1>1, BaseIsHeight DEF IInv
<1>3. stack' = Append(stack, node) /\ cases' = cases /\ warnings' = warnings
  BY DEF Leaf
<1>4. /\ Kept(k) /\ Above(k) = {} /\ Len(stack') = k + 1 /\ stack'[k + 1] = node
      /\ DOMAIN stack' = 1 .. k + 1
  BY <1>1, <1>3, AppendShape
<1> QED BY <1>2, <1>3, <1>4, NodeKeeps

-----------------------------------------------------------------------------
(* Opening a CASE, a change of the open one, and its end.                   *)

LEMMA PushKeeps ==
  ASSUME IInv, Warned, NEW h, Kept(h), Base <= h, DOMAIN stack' = 1 .. h,
         NEW frame, cases' = Append(cases, frame), frame.height = h, ~frame.dead,
         ArmHolds(frame), warnings' = warnings,
         (\A j \in Above(h) : Quiet(stack[j].value)) => QuietFrame(frame),
         frame.plain => \A j \in Above(h) :
                          stack[j].plain /\ (Fails(stack[j].value) => FrameFails(frame))
  PROVE  Warned'
<1> DEFINE S == SoundFrame \cup {frame}
<1>0. PICK n \in Nat : n = Len(cases)
  BY DEF IInv, Typed
<1>1. n \in Nat /\ DOMAIN cases = 1 .. n /\ cases \in Seq(S) /\ frame \in S
  BY <1>0 DEF IInv, Typed
<1> HIDE DEF S
<1>2. DOMAIN cases' = 1 .. n + 1
      /\ (\A d \in 1 .. n : cases'[d] = cases[d]) /\ cases'[n + 1] = frame
  BY <1>0, <1>1, AppendProperties
<1>3. /\ DOMAIN stack = 1 .. Len(stack) /\ Base \in Nat
      /\ h \in Nat /\ h <= Len(stack) /\ Len(stack) \in Nat
  BY BaseIsHeight DEF IInv, Typed, Kept
<1>4. \A d \in DOMAIN cases' : d \in 1 .. n \/ d = n + 1
  BY <1>1, <1>2
<1>5. \A d \in 1 .. n : d \in DOMAIN cases /\ d \in DOMAIN cases'
  BY <1>1, <1>2
<1>6. n + 1 \in DOMAIN cases' /\ \A d \in 1 .. n : d < n + 1
  BY <1>1, <1>2
<1>7. \A i : NodeDead(i)' <=> NodeDead(i)
  BY <1>1, <1>2, <1>4, <1>5 DEF NodeDead
<1>8. ASSUME NEW d \in 1 .. n PROVE CaseDead(d)' <=> CaseDead(d)
  BY <1>1, <1>2, <1>4, <1>5, <1>6 DEF CaseDead
<1>9. CaseDead(n + 1)' <=> div0Suppress # 0
  BY <1>1, <1>2, <1>4, <1>5, <1>6, SuppressedInDeadArm DEF CaseDead
<1>10. \A j \in Above(h) : NodeDead(j) <=> div0Suppress # 0
  <2> SUFFICES ASSUME NEW j \in Above(h) PROVE NodeDead(j) <=> div0Suppress # 0
    OBVIOUS
  <2>1. j \in Int /\ Base < j
    BY <1>3 DEF Above
  <2> QED BY <2>1, VisitedIsInside
<1>11. \A i \in 1 .. h : i \in DOMAIN stack /\ i \in DOMAIN stack' /\ stack'[i] = stack[i]
  BY <1>3 DEF Kept
<1>12. \A i \in DOMAIN stack : i \in 1 .. h \/ i \in Above(h)
  BY <1>3 DEF Above
<1>13. Arms'
  BY <1>1, <1>2, <1>4, <1>5, <1>11 DEF Arms, Warned, ArmHolds
<1>14. NoFaultUnseen'
  <2> SUFFICES ASSUME warnings = {}
               PROVE  /\ \A i \in 1 .. h : NodeDead(i)' \/ Quiet(stack'[i].value)
                      /\ \A d \in DOMAIN cases' : CaseDead(d)' \/ QuietFrame(cases'[d])
    BY DEF NoFaultUnseen, Quiet, QuietFrame
  <2>1. /\ \A i \in DOMAIN stack : NodeDead(i) \/ Quiet(stack[i].value)
        /\ \A d \in DOMAIN cases : CaseDead(d) \/ QuietFrame(cases[d])
    BY DEF Warned, NoFaultUnseen
  <2>2. \A i \in 1 .. h : NodeDead(i)' \/ Quiet(stack'[i].value)
    BY <1>7, <1>11, <2>1
  <2>3. \A d \in 1 .. n : CaseDead(d)' \/ QuietFrame(cases'[d])
    BY <1>2, <1>5, <1>8, <2>1
  <2>4. \A j \in Above(h) : div0Suppress = 0 => Quiet(stack[j].value)
    BY <1>3, <1>10, <2>1 DEF Above
  <2>5. CaseDead(n + 1)' \/ QuietFrame(frame)
    BY <1>9, <2>4
  <2> QED BY <1>2, <1>4, <2>2, <2>3, <2>5
<1>15. WarnedFails'
  <2> SUFFICES ASSUME Rows # {}, warnings # {}
               PROVE  \/ \E i \in DOMAIN stack' : Suspect(i)'
                      \/ \E d \in DOMAIN cases' : SuspectCase(d)'
    BY DEF WarnedFails
  <2>1. \A d \in 1 .. n : SuspectCase(d) => SuspectCase(d)'
    BY <1>2, <1>8 DEF SuspectCase, FrameFails
  <2>2. \A i \in 1 .. h : Suspect(i) => Suspect(i)'
    BY <1>7, <1>11 DEF Suspect, Fails
  <2>3. SuspectCase(n + 1)' <=> (frame.plain => div0Suppress = 0 /\ FrameFails(frame))
    <3>1. SuspectCase(n + 1)' <=> (cases'[n + 1].plain =>
                                     ~CaseDead(n + 1)' /\ FrameFails(cases'[n + 1]))
      BY DEF SuspectCase, FrameFails
    <3> QED BY <1>2, <1>9, <3>1
  <2>4. CASE \E d \in DOMAIN cases : SuspectCase(d)
    BY <1>1, <1>5, <2>1, <2>4
  <2>5. CASE \E i \in 1 .. h : Suspect(i)
    BY <1>11, <2>2, <2>5
  <2>6. CASE \E j \in Above(h) : Suspect(j)
    <3>1. PICK j \in Above(h) : ~stack[j].plain \/ (~NodeDead(j) /\ Fails(stack[j].value))
      BY <2>6 DEF Suspect
    <3>2. SuspectCase(n + 1)'
      BY <1>10, <2>3, <3>1
    <3> QED BY <1>6, <3>2
  <2> QED BY <1>12, <2>4, <2>5, <2>6 DEF Warned, WarnedFails
<1> QED BY <1>13, <1>14, <1>15 DEF Warned

\* Of the open CASE and the part of it that has been visited, what is dead.
LEMMA OpenParts ==
  ASSUME IInv, cases # <<>>, NEW h, h = Open.height, Kept(h)
  PROVE  /\ Len(cases) \in Nat \ {0} /\ DOMAIN cases = 1 .. Len(cases)
         /\ DOMAIN stack = 1 .. Len(stack) /\ Len(stack) \in Nat /\ h \in 0 .. Len(stack)
         /\ \A i \in 1 .. h : NodeDead(i) <=>
              \E e \in 1 .. Len(cases) - 1 : cases[e].dead /\ cases[e].height < i
         /\ \A j \in Int : h < j => (NodeDead(j) <=> CaseDead(Len(cases)) \/ Open.dead)
<1> DEFINE n == Len(cases)
<1>1. /\ n \in Nat \ {0} /\ DOMAIN cases = 1 .. n /\ Open = cases[n]
      /\ DOMAIN stack = 1 .. Len(stack) /\ Len(stack) \in Nat /\ h \in 0 .. Len(stack)
  BY OpenIsSound DEF IInv, Typed, Kept, Open
<1>2. \A e \in 1 .. n : cases[e].height \in Nat /\ cases[e].height <= h
  <2>1. Base = h
    BY DEF Base, Open
  <2> QED BY <1>1, <2>1, HeightsTyped
<1> HIDE DEF n
<1>3. \A e \in 1 .. n : e \in 1 .. n - 1 \/ e = n
  BY <1>1
<1>4. (\A e \in 1 .. n - 1 : e \in 1 .. n /\ e < n) /\ n \in 1 .. n /\ ~(n < n)
  BY <1>1
<1>5. ASSUME NEW i \in 1 .. h
      PROVE  NodeDead(i) <=> \E e \in 1 .. n - 1 : cases[e].dead /\ cases[e].height < i
  <2>1. ~(cases[n].height < i)
    BY <1>1, <1>5
  <2> QED BY <1>1, <1>3, <1>4, <2>1 DEF NodeDead
<1>6. ASSUME NEW j \in Int, h < j
      PROVE  NodeDead(j) <=> CaseDead(n) \/ Open.dead
  <2>1. \A e \in 1 .. n : cases[e].height < j
    BY <1>1, <1>2, <1>6
  <2> QED BY <1>1, <1>3, <1>4, <2>1 DEF NodeDead, CaseDead
<1> QED BY <1>1, <1>5, <1>6 DEF n

\* The open CASE goes on to its next part, taking up what has been visited of it.
LEMMA ChangeKeeps ==
  ASSUME IInv, Warned, cases # <<>>, NEW h, h = Open.height, Kept(h),
         DOMAIN stack' = 1 .. h, NEW frame, Change(frame), frame.height = h,
         ArmHolds(frame), warnings' = warnings,
         QuietFrame(Open) /\ (Open.dead \/ \A j \in Above(h) : Quiet(stack[j].value)) =>
           QuietFrame(frame),
         frame.plain => /\ Open.plain /\ (FrameFails(Open) => FrameFails(frame))
                        /\ \A j \in Above(h) :
                             /\ stack[j].plain
                             /\ ~Open.dead /\ Fails(stack[j].value) => FrameFails(frame)
  PROVE  Warned'
<1>1. PICK n \in Nat \ {0} : n = Len(cases)
  BY OpenParts
<1>2. /\ n \in Nat \ {0} /\ DOMAIN cases = 1 .. n /\ DOMAIN stack = 1 .. Len(stack)
      /\ Len(stack) \in Nat /\ h \in 0 .. Len(stack)
      /\ \A i \in 1 .. h : NodeDead(i) <=>
           \E e \in 1 .. n - 1 : cases[e].dead /\ cases[e].height < i
      /\ \A j \in Int : h < j => (NodeDead(j) <=> CaseDead(n) \/ Open.dead)
  BY <1>1, OpenParts
<1>3. /\ DOMAIN cases' = 1 .. n /\ cases'[n] = frame /\ cases[n] = Open
      /\ \A d \in 1 .. n - 1 : cases'[d] = cases[d]
  BY <1>1, <1>2 DEF Change, Open
<1>4. /\ \A d \in 1 .. n : d \in 1 .. n - 1 \/ d = n
      /\ \A d \in 1 .. n - 1 : d \in 1 .. n /\ d # n /\ d < n
      /\ n \in 1 .. n /\ ~(n < n)
  BY <1>2
<1>5. ASSUME NEW d \in 1 .. n PROVE CaseDead(d)' <=> CaseDead(d)
  <2>1. \A e \in 1 .. n : e < d => e # n
    BY <1>2
  <2> QED BY <1>2, <1>3, <1>4, <2>1 DEF CaseDead
<1>6. ASSUME NEW i \in 1 .. h PROVE NodeDead(i)' <=> NodeDead(i)
  <2>1. ~(frame.height < i)
    BY <1>2
  <2>2. NodeDead(i)' <=> \E e \in 1 .. n : cases'[e].dead /\ cases'[e].height < i
    BY <1>3 DEF NodeDead
  <2> QED BY <1>2, <1>3, <1>4, <2>1, <2>2
<1>7. \A j \in Above(h) : NodeDead(j) <=> CaseDead(n) \/ Open.dead
  BY <1>2 DEF Above
<1>8. \A i \in 1 .. h : i \in DOMAIN stack /\ i \in DOMAIN stack' /\ stack'[i] = stack[i]
  BY <1>2 DEF Kept
<1>9. /\ \A i \in DOMAIN stack : i \in 1 .. h \/ i \in Above(h)
      /\ \A j \in Above(h) : j \in DOMAIN stack
  BY <1>2 DEF Above
<1>10. Arms'
  BY <1>2, <1>3, <1>4, <1>8 DEF Arms, Warned, ArmHolds
<1>11. NoFaultUnseen'
  <2> SUFFICES ASSUME warnings = {}
               PROVE  /\ \A i \in 1 .. h : NodeDead(i)' \/ Quiet(stack'[i].value)
                      /\ \A d \in 1 .. n : CaseDead(d)' \/ QuietFrame(cases'[d])
    BY <1>3 DEF NoFaultUnseen, Quiet, QuietFrame
  <2>1. /\ \A i \in DOMAIN stack : NodeDead(i) \/ Quiet(stack[i].value)
        /\ \A d \in DOMAIN cases : CaseDead(d) \/ QuietFrame(cases[d])
    BY DEF Warned, NoFaultUnseen
  <2>2. \A i \in 1 .. h : NodeDead(i)' \/ Quiet(stack'[i].value)
    BY <1>6, <1>8, <2>1
  <2>3. \A d \in 1 .. n - 1 : CaseDead(d)' \/ QuietFrame(cases'[d])
    BY <1>2, <1>3, <1>4, <1>5, <2>1
  <2>4. CaseDead(n) \/ Open.dead \/ \A j \in Above(h) : Quiet(stack[j].value)
    BY <1>7, <1>9, <2>1
  <2>5. CaseDead(n) \/ QuietFrame(Open)
    BY <1>2, <1>3, <1>4, <2>1
  <2>6. CaseDead(n) \/ QuietFrame(frame)
    BY <2>4, <2>5
  <2> QED BY <1>3, <1>4, <1>5, <2>2, <2>3, <2>6
<1>12. WarnedFails'
  <2> SUFFICES ASSUME Rows # {}, warnings # {}
               PROVE  \/ \E i \in DOMAIN stack' : Suspect(i)'
                      \/ \E d \in 1 .. n : SuspectCase(d)'
    BY <1>3 DEF WarnedFails
  <2>1. ASSUME NEW d \in 1 .. n - 1, SuspectCase(d) PROVE SuspectCase(d)'
    <3>1. cases'[d] = cases[d] /\ (CaseDead(d)' <=> CaseDead(d))
      BY <1>3, <1>4, <1>5, <2>1
    <3> QED BY <2>1, <3>1 DEF SuspectCase, FrameFails
  <2>2. ASSUME NEW i \in 1 .. h, Suspect(i) PROVE Suspect(i)'
    BY <1>6, <1>8, <2>2 DEF Suspect, Fails
  <2>3. SuspectCase(n)' <=> (frame.plain => ~CaseDead(n) /\ FrameFails(frame))
    <3>1. SuspectCase(n)' <=> (cases'[n].plain => ~CaseDead(n)' /\ FrameFails(cases'[n]))
      BY DEF SuspectCase, FrameFails
    <3>2. CaseDead(n)' <=> CaseDead(n)
      BY <1>4, <1>5
    <3> QED BY <1>3, <3>1, <3>2
  <2>4. CASE \E d \in DOMAIN cases : SuspectCase(d)
    <3>1. PICK d \in 1 .. n : SuspectCase(d)
      BY <1>2, <2>4
    <3>2. CASE d \in 1 .. n - 1
      BY <1>4, <2>1, <3>1, <3>2
    <3>3. CASE d = n
      <4>1. Open.plain => ~CaseDead(n) /\ FrameFails(Open)
        BY <1>3, <3>1, <3>3 DEF SuspectCase
      <4>2. SuspectCase(n)'
        BY <2>3, <4>1
      <4> QED BY <1>4, <4>2
    <3> QED BY <1>4, <3>2, <3>3
  <2>5. CASE \E i \in 1 .. h : Suspect(i)
    BY <1>8, <2>2, <2>5
  <2>6. CASE \E j \in Above(h) : Suspect(j)
    <3>1. PICK j \in Above(h) : stack[j].plain => ~NodeDead(j) /\ Fails(stack[j].value)
      BY <2>6 DEF Suspect
    <3>2. SuspectCase(n)'
      BY <1>7, <2>3, <3>1
    <3> QED BY <1>4, <3>2
  <2> QED BY <1>9, <2>4, <2>5, <2>6 DEF Warned, WarnedFails
<1> QED BY <1>10, <1>11, <1>12 DEF Warned

\* The open CASE ends, and is a node.
LEMMA PopKeeps ==
  ASSUME IInv, Warned, cases # <<>>, NEW h, h = Open.height, Kept(h),
         NEW node, Literally(node), DOMAIN stack' = 1 .. h + 1, stack'[h + 1] = node,
         cases' = SubSeq(cases, 1, Len(cases) - 1), warnings' = warnings,
         QuietFrame(Open) /\ (Open.dead \/ \A j \in Above(h) : Quiet(stack[j].value)) =>
           Quiet(node.value),
         node.plain => /\ Open.plain /\ (FrameFails(Open) => Fails(node.value))
                       /\ \A j \in Above(h) :
                            /\ stack[j].plain
                            /\ ~Open.dead /\ Fails(stack[j].value) => Fails(node.value)
  PROVE  Warned'
<1>1. PICK n \in Nat \ {0} : n = Len(cases)
  BY OpenParts
<1>2. /\ n \in Nat \ {0} /\ DOMAIN cases = 1 .. n /\ DOMAIN stack = 1 .. Len(stack)
      /\ Len(stack) \in Nat /\ h \in 0 .. Len(stack)
      /\ \A i \in 1 .. h : NodeDead(i) <=>
           \E e \in 1 .. n - 1 : cases[e].dead /\ cases[e].height < i
      /\ \A j \in Int : h < j => (NodeDead(j) <=> CaseDead(n) \/ Open.dead)
  BY <1>1, OpenParts
<1>3. /\ DOMAIN cases' = 1 .. n - 1 /\ cases[n] = Open
      /\ \A d \in 1 .. n - 1 : cases'[d] = cases[d]
  <2> DEFINE m == n - 1
  <2>1. \A d \in 1 .. m : cases[d] \in SoundFrame
    BY <1>2 DEF IInv, Typed
  <2>2. m \in Nat /\ 1 \in Int
    BY <1>2
  <2>3. cases' = SubSeq(cases, 1, m)
    BY <1>1
  <2> HIDE DEF m
  <2>4. /\ SubSeq(cases, 1, m) \in Seq(SoundFrame)
        /\ Len(SubSeq(cases, 1, m)) = IF 1 <= m THEN m - 1 + 1 ELSE 0
        /\ \A d \in 1 .. m - 1 + 1 : SubSeq(cases, 1, m)[d] = cases[1 + d - 1]
    BY <2>1, <2>2, SubSeqProperties
  <2>5. /\ cases' \in Seq(SoundFrame) /\ Len(cases') = m
        /\ \A d \in 1 .. m : cases'[d] = cases[d]
    BY <2>2, <2>3, <2>4
  <2> QED BY <1>1, <2>5 DEF Open, m
<1>4. /\ \A d \in 1 .. n : d \in 1 .. n - 1 \/ d = n
      /\ \A d \in 1 .. n - 1 : d \in 1 .. n /\ d # n /\ d < n
      /\ n \in 1 .. n /\ h + 1 \in DOMAIN stack' /\ h + 1 \in Int /\ h < h + 1
      /\ \A i \in DOMAIN stack' : i \in 1 .. h \/ i = h + 1
  BY <1>2
<1>5. ASSUME NEW d \in 1 .. n - 1 PROVE CaseDead(d)' <=> CaseDead(d)
  <2>1. \A e \in 1 .. n : e < d => e \in 1 .. n - 1
    BY <1>2
  <2> QED BY <1>2, <1>3, <1>4, <2>1 DEF CaseDead
<1>6. \A i \in 1 .. h : NodeDead(i)' <=> NodeDead(i)
  BY <1>2, <1>3 DEF NodeDead
<1>7. NodeDead(h + 1)' <=> CaseDead(n)
  <2>1. \A e \in 1 .. n - 1 : cases[e].height < h + 1
    <3>1. Base = h
      BY <1>1 DEF Base, Open
    <3>2. \A e \in 1 .. n - 1 : cases[e].height \in Nat /\ cases[e].height <= h
      BY <1>2, <1>4, <3>1, HeightsTyped
    <3> QED BY <1>2, <3>2
  <2>2. NodeDead(h + 1)' <=> \E e \in 1 .. n - 1 : cases[e].dead
    BY <1>3, <2>1 DEF NodeDead
  <2>3. CaseDead(n) <=> \E e \in 1 .. n - 1 : cases[e].dead
    <3>1. \A e \in 1 .. n : e < n <=> e \in 1 .. n - 1
      BY <1>2
    <3> QED BY <1>2, <1>4, <3>1 DEF CaseDead
  <2> QED BY <2>2, <2>3
<1>8. \A j \in Above(h) : NodeDead(j) <=> CaseDead(n) \/ Open.dead
  BY <1>2 DEF Above
<1>9. \A i \in 1 .. h : i \in DOMAIN stack /\ i \in DOMAIN stack' /\ stack'[i] = stack[i]
  BY <1>2 DEF Kept
<1>10. /\ \A i \in DOMAIN stack : i \in 1 .. h \/ i \in Above(h)
       /\ \A j \in Above(h) : j \in DOMAIN stack
  BY <1>2 DEF Above
<1>11. Arms'
  <2>1. \A i \in DOMAIN stack' : Literally(stack'[i])
    BY <1>4, <1>9 DEF Arms, Warned
  <2>2. \A d \in DOMAIN cases' : ArmHolds(cases'[d])
    BY <1>2, <1>3, <1>4 DEF Arms, Warned
  <2> QED BY <2>1, <2>2 DEF Arms, Literally, ArmHolds
<1>12. NoFaultUnseen'
  <2> SUFFICES ASSUME warnings = {}
               PROVE  /\ \A i \in DOMAIN stack' : NodeDead(i)' \/ Quiet(stack'[i].value)
                      /\ \A d \in 1 .. n - 1 : CaseDead(d)' \/ QuietFrame(cases'[d])
    BY <1>3 DEF NoFaultUnseen, Quiet, QuietFrame
  <2>1. /\ \A i \in DOMAIN stack : NodeDead(i) \/ Quiet(stack[i].value)
        /\ \A d \in DOMAIN cases : CaseDead(d) \/ QuietFrame(cases[d])
    BY DEF Warned, NoFaultUnseen
  <2>2. \A i \in 1 .. h : NodeDead(i)' \/ Quiet(stack'[i].value)
    BY <1>6, <1>9, <2>1
  <2>3. \A d \in 1 .. n - 1 : CaseDead(d)' \/ QuietFrame(cases'[d])
    BY <1>2, <1>3, <1>4, <1>5, <2>1
  <2>4. CaseDead(n) \/ Open.dead \/ \A j \in Above(h) : Quiet(stack[j].value)
    BY <1>8, <1>10, <2>1
  <2>5. CaseDead(n) \/ QuietFrame(Open)
    BY <1>2, <1>3, <1>4, <2>1
  <2>6. NodeDead(h + 1)' \/ Quiet(node.value)
    BY <1>7, <2>4, <2>5
  <2> QED BY <1>4, <2>2, <2>3, <2>6
<1>13. WarnedFails'
  <2> SUFFICES ASSUME Rows # {}, warnings # {}
               PROVE  \/ \E i \in DOMAIN stack' : Suspect(i)'
                      \/ \E d \in 1 .. n - 1 : SuspectCase(d)'
    BY <1>3 DEF WarnedFails
  <2>1. ASSUME NEW d \in 1 .. n - 1, SuspectCase(d) PROVE SuspectCase(d)'
    <3>1. cases'[d] = cases[d] /\ (CaseDead(d)' <=> CaseDead(d))
      BY <1>3, <1>5, <2>1
    <3> QED BY <2>1, <3>1 DEF SuspectCase, FrameFails
  <2>2. ASSUME NEW i \in 1 .. h, Suspect(i) PROVE Suspect(i)'
    BY <1>6, <1>9, <2>2 DEF Suspect, Fails
  <2>3. Suspect(h + 1)' <=> (node.plain => ~CaseDead(n) /\ Fails(node.value))
    <3>1. Suspect(h + 1)' <=>
            (stack'[h + 1].plain => ~NodeDead(h + 1)' /\ Fails(stack'[h + 1].value))
      BY DEF Suspect, Fails
    <3> QED BY <1>7, <3>1
  <2>4. CASE \E d \in DOMAIN cases : SuspectCase(d)
    <3>1. PICK d \in 1 .. n : SuspectCase(d)
      BY <1>2, <2>4
    <3>2. CASE d \in 1 .. n - 1
      BY <2>1, <3>1, <3>2
    <3>3. CASE d = n
      <4>1. Open.plain => ~CaseDead(n) /\ FrameFails(Open)
        BY <1>3, <3>1, <3>3 DEF SuspectCase
      <4>2. Suspect(h + 1)'
        BY <2>3, <4>1
      <4> QED BY <1>4, <4>2
    <3> QED BY <1>4, <3>2, <3>3
  <2>5. CASE \E i \in 1 .. h : Suspect(i)
    BY <1>9, <2>2, <2>5
  <2>6. CASE \E j \in Above(h) : Suspect(j)
    <3>1. PICK j \in Above(h) : stack[j].plain => ~NodeDead(j) /\ Fails(stack[j].value)
      BY <2>6 DEF Suspect
    <3>2. Suspect(h + 1)'
      BY <1>8, <2>3, <3>1
    <3> QED BY <1>4, <3>2
  <2> QED BY <1>10, <2>4, <2>5, <2>6 DEF Warned, WarnedFails
<1> QED BY <1>11, <1>12, <1>13 DEF Warned

-----------------------------------------------------------------------------
(* What SQL computes of quiet operands is quiet.                            *)

LEMMA StrictQuiet ==
  \A operands, r : Fault \notin operands /\ r # Fault => Strict(operands, r) # Fault
BY MarksAreApart, InferAssumption DEF Strict, Failed

LEMMA TruthQuiet == \A p : Truth(p) # Fault
BY MarksAreApart DEF Truth

LEMMA FailedQuiet ==
  \A operands : operands \cap Failing # {} /\ Fault \notin operands => Failed(operands) # Fault
BY InferAssumption DEF Failed, Failing

LEMMA AndOrQuiet ==
  \A operands : Fault \notin operands => And(operands) # Fault /\ Or(operands) # Fault
BY StrictQuiet, MarksAreApart DEF And, Or

LEMMA ComparedQuiet ==
  \A v, w : v # Fault /\ w # Fault => Equals(v, w) # Fault /\ LessEqual(v, w) # Fault
<1> SUFFICES ASSUME NEW v, NEW w, v # Fault, w # Fault
             PROVE  Equals(v, w) # Fault /\ LessEqual(v, w) # Fault
  OBVIOUS
<1>1. (IF {v, w} \subseteq Int THEN Truth(v <= w) ELSE 0) # Fault
  BY TruthQuiet, MarksAreApart
<1> QED BY <1>1, TruthQuiet, StrictQuiet DEF Equals, LessEqual

LEMMA WithinQuiet == \A type, v : v # Fault => Within(type, v) # Fault
BY InferAssumption DEF Within

LEMMA DomainQuiet == Fault \notin Domain \cup {Null}
<1>1. MinInt .. MaxInt \subseteq Int
  BY InferAssumption DEF MinInt
<1> QED BY <1>1, InferAssumption, MarksAreApart

LEMMA NodeParts ==
  ASSUME NEW type, NEW null, NEW value, NEW operands
  PROVE  /\ Node(type, null, value, operands).value = value
         /\ ~Node(type, null, value, operands).plain
         /\ ~Node(type, null, value, operands).literal
BY DEF Node

\* One operand, and a value computed row by row.
LEMMA UnaryKeeps ==
  ASSUME IInv, Warned, NEW type, NEW null, NEW value, Has(1),
         Visit(1, Node(type, null, value, {Operand(1, 1)})),
         Quiet(Operand(1, 1).value) => Quiet(value)
  PROVE  Warned'
<1> DEFINE node == Node(type, null, value, {Operand(1, 1)})
<1>1. node.value = value /\ ~node.plain /\ ~node.literal
  BY NodeParts
<1> HIDE DEF node
<1>2. (\A i \in 1 .. 1 : Quiet(Operand(1, i).value)) => Quiet(node.value)
  BY <1>1
<1>3. Visit(1, node)
  BY DEF node
<1> QED BY <1>1, <1>2, <1>3, ComposedKeeps

LEMMA BinaryKeeps ==
  ASSUME IInv, Warned, NEW type, NEW null, NEW value, Has(2),
         Visit(2, Node(type, null, value, {Operand(2, 1), Operand(2, 2)})),
         Quiet(Operand(2, 1).value) /\ Quiet(Operand(2, 2).value) => Quiet(value)
  PROVE  Warned'
<1> DEFINE node == Node(type, null, value, {Operand(2, 1), Operand(2, 2)})
<1>1. node.value = value /\ ~node.plain /\ ~node.literal
  BY NodeParts
<1> HIDE DEF node
<1>2. (\A i \in 1 .. 2 : Quiet(Operand(2, i).value)) => Quiet(node.value)
  BY <1>1
<1>3. Visit(2, node)
  BY DEF node
<1> QED BY <1>1, <1>2, <1>3, ComposedKeeps

-----------------------------------------------------------------------------
(* Nodes that are not made of literals.                                     *)

LEMMA NotKeeps == ASSUME IInv, Warned, Not PROVE Warned'
<1> DEFINE x == Operand(1, 1)
           value == [row \in Rows |-> Strict({x.value[row]}, Truth(x.value[row] = 0))]
<1>1. Has(1) /\ Visit(1, Node("Boolean", x.null, value, {x}))
  BY DEF Not
<1>2. Quiet(x.value) => Quiet(value)
  BY StrictQuiet, TruthQuiet DEF Quiet
<1> HIDE DEF value
<1> QED BY <1>1, <1>2, UnaryKeeps

LEMMA TestKeeps == ASSUME IInv, Warned, NEW of \in {Null, 0, 1}, Test(of) PROVE Warned'
<1> DEFINE x == Operand(1, 1)
           answer(v) == IF v \in {Fault, Abort} THEN v ELSE Truth(v = of)
           value == [row \in Rows |-> answer(x.value[row])]
<1>1. Has(1) /\ Visit(1, Node("Boolean", 1, value, {x}))
  BY DEF Test
<1>2. Quiet(x.value) => Quiet(value)
  BY TruthQuiet DEF Quiet
<1> HIDE DEF value
<1> QED BY <1>1, <1>2, UnaryKeeps

LEMMA CastKeeps == ASSUME IInv, Warned, NEW type \in CastTypes, Cast(type) PROVE Warned'
<1> DEFINE x == Operand(1, 1)
           value == [row \in Rows |-> Within(type, x.value[row])]
           node == [Node(type, x.null, value, {x}) EXCEPT !.untyped = FALSE]
<1>1. Has(1) /\ Visit(1, node)
  BY DEF Cast
<1>2. Quiet(x.value) => Quiet(value)
  BY WithinQuiet DEF Quiet
<1>3. node.value = value /\ ~node.plain /\ ~node.literal
  BY DEF Node
<1> HIDE DEF value, node
<1>4. (\A i \in 1 .. 1 : Quiet(Operand(1, i).value)) => Quiet(node.value)
  BY <1>2, <1>3
<1> QED BY <1>1, <1>3, <1>4, ComposedKeeps

LEMMA UnknownFunctionKeeps ==
  ASSUME IInv, Warned, NEW v \in Outcomes, UnknownFunction(v) PROVE Warned'
<1>1. Has(1) /\ Visit(1, Node("Unknown", 2, Constant(v), {Operand(1, 1)}))
  BY DEF UnknownFunction
<1>2. Quiet(Constant(v))
  BY DomainQuiet, InferAssumption DEF Quiet, Constant
<1> QED BY <1>1, <1>2, UnaryKeeps

LEMMA AggregateKeeps ==
  ASSUME IInv, Warned, NEW name \in {"COUNT", "MAX"}, NEW group \in {{}, Rows},
         Aggregate(name, group)
  PROVE  Warned'
<1> DEFINE x == Operand(1, 1)
           values == {x.value[row] : row \in group}
           count == Cardinality({row \in group : x.value[row] # Null})
           greatest == CHOOSE v \in values \ {Null} : \A w \in values \ {Null} : w <= v
           answer == CASE values \cap {Fault, Abort} # {} -> Failed(values)
                       [] values \cap {Fault, Abort} = {} /\ name = "COUNT" -> Within("BigInt", count)
                       [] OTHER -> IF values \subseteq {Null} THEN Null ELSE greatest
           type == IF name = "COUNT" THEN "BigInt" ELSE x.type
           null == IF name = "COUNT" THEN 1 ELSE 2
<1>1. Has(1) /\ Visit(1, Node(type, null, Constant(answer), {x}))
  BY DEF Aggregate
<1>2. x \in SoundNode
  BY <1>1, OperandIsSound DEF IInv
<1>3. /\ count \in Nat
      /\ values \cap {Fault, Abort} = {} /\ ~(values \subseteq {Null}) =>
           greatest \in values \ {Null}
  <2> HIDE DEF x
  <2> QED BY <1>2, GroupValues
<1>4. Quiet(x.value) => Fault \notin values
  BY DEF Quiet
<1>5. Within("BigInt", count) # Fault
  BY <1>3, WithinQuiet, MarksAreApart
<1>6. Fault \notin values => answer # Fault
  <2> HIDE DEF values, count, greatest
  <2> QED BY <1>3, <1>5, FailedQuiet, MarksAreApart DEF Failing
<1> HIDE DEF answer, values
<1>7. Quiet(x.value) => Quiet(Constant(answer))
  BY <1>4, <1>6 DEF Quiet, Constant
<1> HIDE DEF type, null
<1> QED BY <1>1, <1>7, UnaryKeeps

LEMMA LogicalKeeps == ASSUME IInv, Warned, NEW op, Logical(op) PROVE Warned'
<1> DEFINE x == Operand(2, 1)
           y == Operand(2, 2)
           term(operands) == IF op = "AND" THEN And(operands) ELSE Or(operands)
           value == [row \in Rows |-> term({x.value[row], y.value[row]})]
           null == CombineNullableAny({x.null, y.null})
<1>1. Has(2) /\ Visit(2, Node("Boolean", null, value, {x, y}))
  BY DEF Logical
<1>2. Quiet(x.value) /\ Quiet(y.value) => Quiet(value)
  BY AndOrQuiet DEF Quiet
<1> HIDE DEF value, null
<1> QED BY <1>1, <1>2, BinaryKeeps

LEMMA DistinctFromKeeps == ASSUME IInv, Warned, DistinctFrom PROVE Warned'
<1> DEFINE x == Operand(2, 1)
           y == Operand(2, 2)
           term(v, w) == IF {v, w} \cap {Fault, Abort} # {} THEN Failed({v, w}) ELSE Truth(v # w)
           value == [row \in Rows |-> term(x.value[row], y.value[row])]
<1>1. Has(2) /\ Visit(2, Node("Boolean", 1, value, {x, y}))
  BY DEF DistinctFrom
<1>2. \A v, w : v # Fault /\ w # Fault => term(v, w) # Fault
  BY FailedQuiet, TruthQuiet DEF Failing
<1> HIDE DEF term
<1>3. Quiet(x.value) /\ Quiet(y.value) => Quiet(value)
  BY <1>2 DEF Quiet
<1> HIDE DEF value
<1> QED BY <1>1, <1>3, BinaryKeeps

LEMMA CoalesceKeeps == ASSUME IInv, Warned, NEW name, Coalesce(name) PROVE Warned'
<1> DEFINE x == Operand(2, 1)
           y == Operand(2, 2)
           term(v, w) ==
             IF v \in {Fault, Abort} THEN v
             ELSE IF (name = "COALESCE" /\ v # Null) \/ w = Null THEN v
             ELSE IF v \notin Int \/ w \notin Int THEN w
             ELSE IF v <= w THEN w ELSE v
           value == [row \in Rows |-> term(x.value[row], y.value[row])]
           type == Coerce(x.type, y.type)
           null == CoalesceNullability({x.null, y.null})
<1>1. Has(2) /\ Visit(2, Node(type, null, value, {x, y}))
  BY DEF Coalesce
<1>2. \A v, w : v # Fault /\ w # Fault => term(v, w) # Fault
  OBVIOUS
<1> HIDE DEF term
<1>3. Quiet(x.value) /\ Quiet(y.value) => Quiet(value)
  BY <1>2 DEF Quiet
<1> HIDE DEF value, type, null
<1> QED BY <1>1, <1>3, BinaryKeeps

LEMMA NullIfKeeps == ASSUME IInv, Warned, NullIf PROVE Warned'
<1> DEFINE x == Operand(2, 1)
           y == Operand(2, 2)
           term(v, w) == IF {v, w} \cap {Fault, Abort} # {} THEN Failed({v, w})
                         ELSE IF v = w THEN Null ELSE v
           value == [row \in Rows |-> term(x.value[row], y.value[row])]
<1>1. Has(2) /\ Visit(2, Node(x.type, 2, value, {x, y}))
  BY DEF NullIf
<1>2. \A v, w : v # Fault /\ w # Fault => term(v, w) # Fault
  BY FailedQuiet, MarksAreApart DEF Failing
<1> HIDE DEF term
<1>3. Quiet(x.value) /\ Quiet(y.value) => Quiet(value)
  BY <1>2 DEF Quiet
<1> HIDE DEF value
<1> QED BY <1>1, <1>3, BinaryKeeps

LEMMA BetweenKeeps == ASSUME IInv, Warned, Between PROVE Warned'
<1> DEFINE x == Operand(3, 1)
           low == Operand(3, 2)
           high == Operand(3, 3)
           value == [row \in Rows |-> And({LessEqual(low.value[row], x.value[row]),
                                           LessEqual(x.value[row], high.value[row])})]
           node == Node("Boolean", CombineNullableAny({x.null, low.null, high.null}), value,
                        {x, low, high})
<1>1. Has(3) /\ Visit(3, node)
  BY DEF Between
<1>2. node.value = value /\ ~node.plain /\ ~node.literal
  BY NodeParts
<1>3. Quiet(x.value) /\ Quiet(low.value) /\ Quiet(high.value) => Quiet(value)
  BY ComparedQuiet, AndOrQuiet DEF Quiet
<1> HIDE DEF node, value
<1>4. (\A i \in 1 .. 3 : Quiet(Operand(3, i).value)) => Quiet(node.value)
  BY <1>2, <1>3
<1> QED BY <1>1, <1>2, <1>4, ComposedKeeps

\* A search of a list or an array of n - 1 elements.
LEMMA SearchQuiet ==
  ASSUME NEW n \in 2 .. 3, \A i \in 1 .. n : Quiet(Operand(n, i).value)
  PROVE  Quiet([row \in Rows |-> Found(n, row)])
<1> SUFFICES ASSUME NEW row \in Rows PROVE Found(n, row) # Fault
  BY DEF Quiet
<1> DEFINE hits == {Equals(Operand(n, 1).value[row], e.value[row]) : e \in Elements(n)}
<1>1. 1 \in 1 .. n /\ \A i \in 2 .. n : i \in 1 .. n
  OBVIOUS
<1>2. Operand(n, 1).value[row] # Fault /\ \A e \in Elements(n) : e.value[row] # Fault
  BY <1>1 DEF Elements, Quiet
<1>3. Fault \notin hits
  BY <1>2, ComparedQuiet
<1>4. Found(n, row) = Or(hits)
  BY DEF Found
<1> HIDE DEF hits
<1> QED BY <1>3, <1>4, AndOrQuiet

LEMMA InListKeeps == ASSUME IInv, Warned, NEW n \in 2 .. 3, InList(n) PROVE Warned'
<1> DEFINE value == [row \in Rows |-> Found(n, row)]
           node == Node("Boolean", CombineNullableAny({Operand(n, i).null : i \in 1 .. n}),
                        value, {Operand(n, 1)} \cup Elements(n))
<1>1. n \in Nat /\ Has(n) /\ Visit(n, node)
  BY DEF InList, Comparable
<1>2. node.value = value /\ ~node.plain /\ ~node.literal
  BY NodeParts
<1>3. (\A i \in 1 .. n : Quiet(Operand(n, i).value)) => Quiet(value)
  BY SearchQuiet
<1> HIDE DEF node, value
<1> QED BY <1>1, <1>2, <1>3, ComposedKeeps

LEMMA EqualsAnyArrayKeeps ==
  ASSUME IInv, Warned, NEW n \in 2 .. 3, EqualsAnyArray(n) PROVE Warned'
<1> DEFINE value == [row \in Rows |-> Found(n, row)]
           bare == Node("Boolean", CombineNullableAny({Operand(n, 1).null, 1}), value, {})
           node == [bare EXCEPT !.arrays = TRUE]
<1>1. n \in Nat /\ Has(n) /\ Visit(n, node)
  BY DEF EqualsAnyArray, Comparable
<1>2. node.value = value /\ ~node.plain /\ ~node.literal
  BY DEF Node
<1>3. (\A i \in 1 .. n : Quiet(Operand(n, i).value)) => Quiet(value)
  BY SearchQuiet
<1> HIDE DEF node, value
<1> QED BY <1>1, <1>2, <1>3, ComposedKeeps

LEMMA InSubqueryKeeps ==
  ASSUME IInv, Warned, NEW result \in SubqueryResults, NEW nullable \in BOOLEAN,
         InSubquery(result, nullable)
  PROVE  Warned'
<1> DEFINE x == Operand(1, 1)
           hits(row) == {Equals(x.value[row], v) : v \in result}
           value == [row \in Rows |-> Or(hits(row))]
           null == CombineNullableAny({x.null, IF nullable THEN 2 ELSE 1})
<1>1. Has(1) /\ Visit(1, Node("Boolean", null, value, {x}))
  BY DEF InSubquery
<1>2. Fault \notin result
  BY DomainQuiet, InferAssumption
<1>3. \A row \in Rows : x.value[row] # Fault => Fault \notin hits(row)
  BY <1>2, ComparedQuiet
<1> HIDE DEF hits
<1>4. Quiet(x.value) => Quiet(value)
  BY <1>3, AndOrQuiet DEF Quiet
<1> HIDE DEF value, null
<1> QED BY <1>1, <1>4, UnaryKeeps

-----------------------------------------------------------------------------
(* Leaves.                                                                  *)

LEMMA LeavesKeep ==
  ASSUME IInv, Warned,
         \/ \E n \in Literals : IntegerLiteral(n)
         \/ \E b \in {0, 1} : BooleanLiteral(b)
         \/ NullLiteral
         \/ \E c \in Column : ColumnRef(c)
         \/ \E v \in Outcomes, type \in OpaqueTypes : Parameter(type, v)
         \/ \E b \in Answers : Exists(b)
  PROVE  Warned'
<1>1. ASSUME NEW v, v # Fault PROVE Quiet(Constant(v))
  BY <1>1 DEF Quiet, Constant
<1>2. ASSUME NEW type, NEW null, NEW value, Quiet(value), Leaf(Node(type, null, value, {}))
      PROVE  Warned'
  <2> DEFINE node == Node(type, null, value, {})
  <2>1. node.value = value /\ ~node.plain /\ ~node.literal
    BY NodeParts
  <2>2. Leaf(node)
    BY <1>2
  <2> HIDE DEF node
  <2> QED BY <1>2, <2>1, <2>2, LeafKeeps DEF Literally
<1>3. ASSUME NEW n \in Literals, IntegerLiteral(n) PROVE Warned'
  <2> DEFINE folded == IF n \in MinBig .. MaxBig THEN n ELSE None
             value == Constant(n)
             node == [Node(LiteralType(n), 1, value, {}) EXCEPT
                        !.int = folded, !.literal = folded # None, !.plain = TRUE]
  <2>1. Leaf(node)
    BY <1>3 DEF IntegerLiteral
  <2>2. node.value = value /\ node.plain
    BY DEF Node
  <2>3. Quiet(value)
    BY <1>1, InferAssumption, MarksAreApart
  <2>4. \A row \in Rows : value[row] # Null
    BY InferAssumption, MarksAreApart DEF Constant
  <2> HIDE DEF node, value
  <2> QED BY <2>1, <2>2, <2>3, <2>4, LeafKeeps DEF Literally
<1>4. ASSUME NEW b \in {0, 1}, BooleanLiteral(b) PROVE Warned'
  <2> DEFINE value == Constant(b)
             node == [Node("Boolean", 1, value, {}) EXCEPT !.bool = b, !.plain = TRUE]
  <2>1. Leaf(node)
    BY <1>4 DEF BooleanLiteral
  <2>2. node.value = value /\ node.plain /\ ~node.literal
    BY DEF Node
  <2>3. Quiet(value)
    BY <1>1, MarksAreApart
  <2> HIDE DEF node, value
  <2> QED BY <2>1, <2>2, <2>3, LeafKeeps DEF Literally
<1>5. ASSUME NullLiteral PROVE Warned'
  <2>1. Quiet(Constant(Null))
    BY <1>1, MarksAreApart
  <2> QED BY <1>2, <1>5, <2>1 DEF NullLiteral
<1>6. ASSUME NEW c \in Column, ColumnRef(c) PROVE Warned'
  <2> DEFINE value == [row \in Rows |-> row[c]]
             null == IF c \in NullableColumn THEN 2 ELSE 1
  <2>1. Leaf(Node("Integer", null, value, {}))
    BY <1>6 DEF ColumnRef
  <2>2. \A row \in Rows : row[c] \in Domain \cup {Null}
    BY DEF Rows
  <2>3. Quiet(value)
    BY <2>2, DomainQuiet DEF Quiet
  <2> HIDE DEF value, null
  <2> QED BY <1>2, <2>1, <2>3
<1>7. ASSUME NEW v \in Outcomes, NEW type \in OpaqueTypes, Parameter(type, v) PROVE Warned'
  <2>1. Quiet(Constant(v))
    BY <1>1, DomainQuiet, InferAssumption
  <2> QED BY <1>2, <1>7, <2>1 DEF Parameter
<1>8. ASSUME NEW b \in Answers, Exists(b) PROVE Warned'
  <2>1. Quiet(Constant(b))
    BY <1>1, InferAssumption, MarksAreApart
  <2> QED BY <1>2, <1>8, <2>1 DEF Exists
<1> QED BY <1>3, <1>4, <1>5, <1>6, <1>7, <1>8

-----------------------------------------------------------------------------
(* Nodes made of literals.                                                  *)

LEMMA OperandIsLiterally ==
  ASSUME IInv, Warned, NEW n \in Nat, Has(n), NEW i \in 1 .. n
  PROVE  Operand(n, i) \in SoundNode /\ Literally(Operand(n, i))
<1>1. Len(stack) \in Nat /\ Len(stack) - n >= 0 /\ DOMAIN stack = 1 .. Len(stack)
  BY BaseIsHeight DEF Has, IInv, Typed
<1>2. Len(stack) - n + i \in DOMAIN stack
  BY <1>1
<1>3. Literally(Operand(n, i))
  BY <1>2 DEF Operand, Warned, Arms
<1> QED BY <1>3, OperandIsSound DEF IInv

LEMMA MinusKeeps == ASSUME IInv, Warned, Minus PROVE Warned'
<1> DEFINE x == Operand(1, 1)
           value == [row \in Rows |-> Within(x.type, Negated(x.value[row]))]
           node == [Node(x.type, x.null, value, {x}) EXCEPT
                      !.int = FoldMinus(x.int), !.literal = x.literal, !.plain = x.plain]
<1>1. Has(1) /\ Visit(1, node)
  BY DEF Minus
<1>2. x \in SoundNode /\ Literally(x)
  BY <1>1, OperandIsLiterally
<1>3. node.value = value /\ node.literal = x.literal /\ node.plain = x.plain
  BY DEF Node
<1> HIDE DEF node
<1>4. Quiet(x.value) => Quiet(value)
  <2>1. \A v : v # Fault => Negated(v) # Fault
    BY MarksAreApart DEF Negated
  <2> QED BY <2>1, WithinQuiet DEF Quiet
<1>5. Fails(x.value) => Fails(value)
  <2>1. \A v \in Failing : Within(x.type, Negated(v)) = v
    BY MarksAreApart DEF Failing, Negated, Within, Marks
  <2> QED BY <2>1 DEF Fails
<1>6. Literally(node)
  <2>1. \A row \in Rows : x.value[row] \in Values
    BY <1>2, NodeHas
  <2>2. \A row \in Rows : x.value[row] # Null => value[row] # Null
    BY <2>1, NegatedValue, WithinValue DEF NotNull
  <2> HIDE DEF value
  <2> QED BY <1>2, <1>3, <2>2 DEF Literally
<1> HIDE DEF value
<1>7. (\A i \in 1 .. 1 : Quiet(Operand(1, i).value)) => Quiet(node.value)
  BY <1>3, <1>4
<1>8. node.plain => \A i \in 1 .. 1 : /\ Operand(1, i).plain
                                      /\ Fails(Operand(1, i).value) => Fails(node.value)
  BY <1>3, <1>5
<1>9. Replace(1, node) /\ cases' = cases /\ warnings' = warnings
  BY <1>1 DEF Visit
<1> QED BY <1>1, <1>6, <1>7, <1>8, <1>9, VisitKeeps

\* A failed operand fails.
LEMMA StrictFails ==
  \A operands, r : operands \cap Failing # {} => Strict(operands, r) \in Failing
BY DEF Strict, Failed, Failing

LEMMA ComparisonKeeps == ASSUME IInv, Warned, NEW op, Comparison(op) PROVE Warned'
<1> DEFINE x == Operand(2, 1)
           y == Operand(2, 2)
           term(v, w) == IF op = "=" THEN Equals(v, w) ELSE LessEqual(v, w)
           value == [row \in Rows |-> term(x.value[row], y.value[row])]
           node == [Node("Boolean", CombineNullableAny({x.null, y.null}), value, {x, y}) EXCEPT
                      !.bool = FoldComparison(op, x.int, y.int),
                      !.plain = x.literal /\ y.literal]
<1>1. Has(2) /\ Visit(2, node)
  BY DEF Comparison
<1>2. Literally(x) /\ Literally(y)
  BY <1>1, OperandIsLiterally
<1>3. node.value = value /\ ~node.literal /\ (node.plain <=> x.literal /\ y.literal)
  BY DEF Node
<1> HIDE DEF node
<1>4. Quiet(x.value) /\ Quiet(y.value) => Quiet(value)
  BY ComparedQuiet DEF Quiet
<1>5. Fails(x.value) \/ Fails(y.value) => Fails(value)
  <2>1. \A v, w : v \in Failing \/ w \in Failing => term(v, w) \in Failing
    BY StrictFails DEF Equals, LessEqual
  <2> HIDE DEF term
  <2> QED BY <2>1 DEF Fails
<1> HIDE DEF value
<1>6. Literally(node)
  BY <1>3 DEF Literally
<1>7. (\A i \in 1 .. 2 : Quiet(Operand(2, i).value)) => Quiet(node.value)
  BY <1>3, <1>4
<1>8. node.plain => \A i \in 1 .. 2 : /\ Operand(2, i).plain
                                      /\ Fails(Operand(2, i).value) => Fails(node.value)
  BY <1>2, <1>3, <1>5 DEF Literally
<1>9. Replace(2, node) /\ cases' = cases /\ warnings' = warnings
  BY <1>1 DEF Visit
<1> QED BY <1>1, <1>6, <1>7, <1>8, <1>9, VisitKeeps

\* Arithmetic is warned of exactly when it fails and all of it is literals.
LEMMA ArithmeticKeeps ==
  ASSUME IInv, Warned, NEW op \in ArithmeticOps, Arithmetic(op) PROVE Warned'
<1> DEFINE x == Operand(2, 1)
           y == Operand(2, 2)
           type == Coerce(x.type, y.type)
           divides == op \in {"/", "%"}
           result(v, w) == IF divides /\ w = 0 THEN (IF y.literal THEN Fault ELSE Abort)
                           ELSE IF Exact(op, v, w) \in IntegerRange(type) THEN Exact(op, v, w)
                           ELSE IF x.literal /\ y.literal /\ ~divides THEN Fault ELSE Abort
           term(v, w) == IF {v, w} \subseteq Int THEN result(v, w) ELSE Strict({v, w}, Null)
           value == [row \in Rows |-> term(x.value[row], y.value[row])]
           warned == {c \in {"DivisionByZero", "IntegerOverflow"} :
                        /\ div0Suppress = 0
                        /\ IF c = "DivisionByZero" THEN divides /\ y.int = 0
                           ELSE ConstantIntArithOverflows(op, x.int, y.int, type)}
           literal == x.literal /\ y.literal /\ ~divides
           plain == /\ x.plain /\ y.plain
                    /\ \A row \in Rows : Null \notin {x.value[row], y.value[row]}
           node == [Node(type, CombineNullableAny({x.null, y.null}), value, {x, y}) EXCEPT
                      !.int = FoldArithmetic(op, x.int, y.int),
                      !.literal = literal, !.plain = plain]
<1>1. Has(2) /\ Replace(2, node) /\ cases' = cases /\ warnings' = warnings \cup warned
  BY DEF Arithmetic
<1>2. x \in SoundNode /\ y \in SoundNode /\ Literally(x) /\ Literally(y)
  BY <1>1, OperandIsLiterally
<1>3. node.value = value /\ (node.literal <=> literal) /\ (node.plain <=> plain)
  BY DEF Node
<1> HIDE DEF node
<1>4. warned = {} <=>
        (div0Suppress = 0 => /\ ~(divides /\ y.int = 0)
                             /\ ~ConstantIntArithOverflows(op, x.int, y.int, type))
  OBVIOUS
<1>5. warned # {} => div0Suppress = 0
  OBVIOUS
<1> HIDE DEF warned
<1>6. \A row \in Rows : x.value[row] \in Values /\ y.value[row] \in Values
  BY <1>2, NodeHas
<1>7. literal => type \in {"Integer", "BigInt"}
  BY <1>2, NodeHas DEF LiteralHolds, Coerce, Promote, Wildcard
<1> HIDE DEF x, y, type
<1>8. ASSUME div0Suppress = 0, warned = {}, Quiet(x.value), Quiet(y.value)
      PROVE  Quiet(value)
  <2> SUFFICES ASSUME NEW row \in Rows PROVE value[row] # Fault
    BY DEF Quiet
  <2>1. PICK v, w : v = x.value[row] /\ w = y.value[row]
    OBVIOUS
  <2>2. v # Fault /\ w # Fault /\ value[row] = term(v, w)
    BY <1>8, <2>1 DEF Quiet
  <2>3. /\ x.literal /\ v \in Int => x.int = v
        /\ y.literal /\ w \in Int => y.int = w
    BY <1>2, <2>1, NodeHas DEF LiteralHolds
  <2> HIDE DEF value
  <2>4. CASE {v, w} \subseteq Int
    <3>1. divides /\ w = 0 => ~y.literal
      BY <1>4, <1>8, <2>3, <2>4
    <3>2. Exact(op, v, w) \in IntegerRange(type) => Exact(op, v, w) # Fault
      BY RangesAreIntegers, MarksAreApart
    <3>3. literal => Exact(op, v, w) \in IntegerRange(type)
      <4>1. literal => x.int = v /\ y.int = w /\ None \notin {v, w} /\ op \in {"+", "-", "*"}
        BY <2>3, <2>4, MarksAreApart, InferAssumption
      <4> QED BY <1>4, <1>7, <1>8, <4>1 DEF ConstantIntArithOverflows
    <3>4. result(v, w) # Fault
      BY <3>1, <3>2, <3>3, InferAssumption
    <3> QED BY <2>2, <2>4, <3>4
  <2>5. CASE ~({v, w} \subseteq Int)
    BY <2>2, <2>5, StrictQuiet, MarksAreApart
  <2> QED BY <2>4, <2>5
<1>9. ASSUME Fails(x.value) \/ Fails(y.value) PROVE Fails(value)
  <2> SUFFICES ASSUME NEW row \in Rows PROVE value[row] \in Failing
    BY DEF Fails
  <2>1. PICK v, w : v = x.value[row] /\ w = y.value[row]
    OBVIOUS
  <2>2. (v \in Failing \/ w \in Failing) /\ value[row] = term(v, w)
    BY <1>9, <2>1 DEF Fails
  <2>3. ~({v, w} \subseteq Int)
    BY <2>2, MarksAreApart DEF Failing
  <2> QED BY <2>2, <2>3, StrictFails
<1>10. ASSUME warned # {}, plain PROVE Fails(value)
  <2> SUFFICES ASSUME NEW row \in Rows PROVE value[row] \in Failing
    BY DEF Fails
  <2>1. PICK v, w : v = x.value[row] /\ w = y.value[row]
    OBVIOUS
  <2>2. v \in Values \ {Null} /\ w \in Values \ {Null} /\ value[row] = term(v, w)
    BY <1>6, <1>10, <2>1
  <2>3. /\ v \in Int => x.int \in {None, v}
        /\ w \in Int => y.int \in {None, w}
    BY <1>2, <2>1, NodeHas, MarksAreApart DEF FoldHolds
  <2>4. \/ divides /\ y.int = 0
        \/ ConstantIntArithOverflows(op, x.int, y.int, type)
    BY <1>4, <1>10
  <2> HIDE DEF value
  <2>5. CASE {v, w} \subseteq Int
    <3>1. CASE divides /\ y.int = 0
      <4>1. w = 0
        BY <2>3, <2>5, <3>1, MarksAreApart
      <4> QED BY <2>2, <2>5, <3>1, <4>1 DEF Failing
    <3>2. CASE ConstantIntArithOverflows(op, x.int, y.int, type)
      <4>1. x.int = v /\ y.int = w /\ ~divides
        BY <2>3, <2>5, <3>2 DEF ConstantIntArithOverflows
      <4>2. Exact(op, v, w) \notin IntegerRange(type)
        BY <3>2, <4>1 DEF ConstantIntArithOverflows
      <4> QED BY <2>2, <2>5, <4>1, <4>2 DEF Failing
    <3> QED BY <2>4, <3>1, <3>2
  <2>6. CASE ~({v, w} \subseteq Int)
    <3>1. {v, w} \cap Failing # {}
      BY <2>2, <2>6 DEF Values, Failing
    <3> QED BY <2>2, <2>6, <3>1, StrictFails
  <2> QED BY <2>5, <2>6
<1>11. \A row \in Rows : x.value[row] # Null /\ y.value[row] # Null => value[row] # Null
  <2> SUFFICES ASSUME NEW row \in Rows, x.value[row] # Null, y.value[row] # Null
               PROVE  value[row] # Null
    OBVIOUS
  <2>1. PICK v, w : v = x.value[row] /\ w = y.value[row]
    OBVIOUS
  <2>2. v \in Values /\ w \in Values /\ value[row] = term(v, w)
    BY <1>6, <2>1
  <2> HIDE DEF value
  <2>3. result(v, w) \in IntegerRange(type) \cup {Fault, Abort}
    OBVIOUS
  <2> HIDE DEF result
  <2> QED BY <2>1, <2>2, <2>3, ArithmeticValue
<1> HIDE DEF value
<1>12. Literally(node)
  BY <1>2, <1>3, <1>11 DEF Literally
<1>13. div0Suppress = 0 /\ warnings' = {} =>
         ((\A i \in 1 .. 2 : Quiet(Operand(2, i).value)) => Quiet(node.value))
  BY <1>1, <1>3, <1>8 DEF x, y
<1>14. warnings' # warnings => div0Suppress = 0 /\ (node.plain => Fails(node.value))
  BY <1>1, <1>3, <1>5, <1>10
<1>15. node.plain => \A i \in 1 .. 2 : /\ Operand(2, i).plain
                                       /\ Fails(Operand(2, i).value) => Fails(node.value)
  BY <1>3, <1>9 DEF x, y
<1>16. warnings \subseteq warnings'
  BY <1>1
<1> QED BY <1>1, <1>12, <1>13, <1>14, <1>15, <1>16, VisitKeeps

-----------------------------------------------------------------------------
(* CASE.                                                                    *)

\* A CASE that has just been opened.
LEMMA FrameParts ==
  ASSUME NEW f, f.phase = "guard", f.guard = Constant(Pending), f.folded = None,
         ~f.priorTaken, f.nulls = {}, f.value = Constant(Pending)
  PROVE  /\ ArmHolds(f)
         /\ Quiet(f.operand.value) => QuietFrame(f)
         /\ f.simple /\ Fails(f.operand.value) => FrameFails(f)
<1>1. \A row \in Rows : Constant(Pending)[row] = Pending
  BY DEF Constant
<1>2. ArmHolds(f)
  BY <1>1 DEF ArmHolds
<1>3. Quiet(f.operand.value) => QuietFrame(f)
  BY <1>1, MarksAreApart DEF QuietFrame, Quiet
<1>4. f.simple /\ Fails(f.operand.value) => FrameFails(f)
  BY <1>1 DEF FrameFails, Fails
<1> QED BY <1>2, <1>3, <1>4

LEMMA OpenHolds ==
  ASSUME IInv, Warned, cases # <<>>
  PROVE  Open \in SoundFrame /\ Open.height \in Nat /\ ArmHolds(Open)
<1>1. Open \in SoundFrame /\ Len(cases) \in DOMAIN cases
  BY OpenIsSound
<1> QED BY <1>1, FrameHas DEF Open, Warned, Arms

LEMMA OpenCaseKeeps == ASSUME IInv, Warned, OpenCase PROVE Warned'
<1> DEFINE h == Len(stack)
           operand == Node("Boolean", 1, Constant(1), {})
           frame == Frame(FALSE, operand, h)
<1>1. /\ h \in Nat /\ Base <= h /\ DOMAIN stack = 1 .. h
      /\ stack' = stack /\ warnings' = warnings
  BY BaseIsHeight DEF OpenCase, IInv, Typed
<1>2. cases' = Append(cases, frame)
  BY DEF OpenCase
<1>3. Kept(h) /\ DOMAIN stack' = 1 .. h /\ Above(h) = {}
  BY <1>1 DEF Kept, Above
<1>4. operand.value = Constant(1)
  BY NodeParts
<1>5. Quiet(operand.value)
  BY <1>4, MarksAreApart DEF Quiet, Constant
<1> HIDE DEF operand
<1>6. /\ frame.phase = "guard" /\ frame.guard = Constant(Pending) /\ frame.folded = None
      /\ ~frame.priorTaken /\ frame.nulls = {} /\ frame.value = Constant(Pending)
      /\ frame.height = h /\ ~frame.dead /\ frame.operand = operand
  BY DEF Frame
<1> HIDE DEF frame, h
<1>7. ArmHolds(frame) /\ QuietFrame(frame)
  BY <1>5, <1>6, FrameParts
<1> QED BY <1>1, <1>2, <1>3, <1>6, <1>7, PushKeeps

LEMMA OpenSimpleCaseKeeps == ASSUME IInv, Warned, OpenSimpleCase PROVE Warned'
<1> DEFINE frame == Frame(TRUE, Top, Len(stack) - 1)
<1>1. Base \in Nat /\ Len(stack) \in Nat /\ Len(stack) - 1 >= Base
  BY BaseIsHeight DEF OpenSimpleCase, Has, IInv, Typed
<1>2. PICK h \in Nat : h = Len(stack) - 1
  BY <1>1
<1>3. Len(stack) = h + 1 /\ Base <= h
  BY <1>1, <1>2
<1>4. stack' = Popped /\ warnings' = warnings /\ cases' = Append(cases, frame)
  BY DEF OpenSimpleCase
<1>5. /\ Kept(h) /\ DOMAIN stack' = 1 .. h /\ Above(h) = {h + 1} /\ stack[h + 1] = Top
      /\ Literally(Top)
  BY <1>3, <1>4, PoppedShape DEF Warned, Arms
<1>6. /\ frame.phase = "guard" /\ frame.guard = Constant(Pending) /\ frame.folded = None
      /\ ~frame.priorTaken /\ frame.nulls = {} /\ frame.value = Constant(Pending)
      /\ frame.height = Len(stack) - 1 /\ ~frame.dead /\ frame.operand = Top
      /\ frame.simple /\ (frame.plain => Top.literal)
  BY DEF Frame
<1> HIDE DEF frame
<1>7. /\ ArmHolds(frame) /\ frame.height = h
      /\ Quiet(Top.value) => QuietFrame(frame)
      /\ Fails(Top.value) => FrameFails(frame)
  BY <1>2, <1>6, FrameParts
<1>8. (\A j \in Above(h) : Quiet(stack[j].value)) => QuietFrame(frame)
  BY <1>5, <1>7
<1>9. frame.plain => \A j \in Above(h) :
                       stack[j].plain /\ (Fails(stack[j].value) => FrameFails(frame))
  BY <1>5, <1>6, <1>7 DEF Literally
<1> QED BY <1>3, <1>4, <1>5, <1>6, <1>7, <1>8, <1>9, PushKeeps

\* A guard that is folded is what it is folded to, where it does not fail.
LEMMA GuardHolds ==
  ASSUME NEW f \in SoundFrame, NEW x \in SoundNode, FoldGuard(f, x) # None, NEW row \in Rows
  PROVE  Guard(f, x)[row] \in {FoldGuard(f, x)} \cup Failing
<1>1. f.operand \in SoundNode
  BY FrameHas
<1>2. FoldHolds(f.operand) /\ FoldHolds(x)
  BY <1>1 DEF SoundNode
<1> DEFINE a == f.operand.value[row]
           b == x.value[row]
<1>3. CASE f.simple
  <2>1. /\ f.operand.int # None /\ x.int # None
        /\ FoldGuard(f, x) = Truth(f.operand.int = x.int)
    BY <1>3 DEF FoldGuard, FoldComparison
  <2>2. f.operand.int \in Int /\ x.int \in Int
    BY <1>1, <2>1, NodeHas DEF SoundNode, Nodes
  <2>3. a \in Failing \/ a = f.operand.int
    BY <1>2, <2>1 DEF FoldHolds, Failing
  <2>4. b \in Failing \/ b = x.int
    BY <1>2, <2>1 DEF FoldHolds, Failing
  <2>5. Guard(f, x)[row] = Strict({a, b}, Truth(a = b))
    BY <1>3 DEF Guard, Equals
  <2> HIDE DEF a, b
  <2>6. CASE a \in Failing \/ b \in Failing
    BY <2>5, <2>6, StrictFails
  <2>7. CASE a = f.operand.int /\ b = x.int
    BY <2>1, <2>2, <2>5, <2>7, MarksAreApart DEF Strict
  <2> QED BY <2>3, <2>4, <2>6, <2>7
<1>4. CASE ~f.simple
  BY <1>2, <1>4 DEF FoldGuard, Guard, FoldHolds, Failing
<1> QED BY <1>3, <1>4

LEMMA EnterArmKeeps == ASSUME IInv, Warned, EnterArm PROVE Warned'
<1> DEFINE folded == FoldGuard(Open, Top)
           dead == Open.priorTaken \/ folded = 0
           guard == Guard(Open, Top)
           plain == /\ Open.plain /\ Top.plain /\ folded # None
                    /\ \A row \in Rows : Top.value[row] \in Int
           arrays == Open.arrays \/ Top.arrays
           frame == [Open EXCEPT !.phase = "result", !.guard = guard, !.folded = folded,
                                 !.dead = dead, !.plain = plain, !.arrays = arrays]
<1>1. /\ cases # <<>> /\ Open.phase = "guard" /\ Len(stack) = Open.height + 1
      /\ stack' = Popped /\ warnings' = warnings
  BY DEF EnterArm, Part
<1>2. Open \in SoundFrame /\ Open.height \in Nat /\ ArmHolds(Open) /\ ~Open.dead
  BY <1>1, OpenHolds, FrameHas
<1>3. PICK h \in Nat : h = Open.height
  BY <1>2
<1>4. /\ Kept(h) /\ DOMAIN stack' = 1 .. h /\ Above(h) = {h + 1} /\ stack[h + 1] = Top
      /\ Top \in SoundNode
  BY <1>1, <1>3, PoppedShape
<1>5. Change(frame)
  <2>1. frame = [Open EXCEPT !.phase = "result", !.guard = Guard(Open, Top),
                   !.folded = FoldGuard(Open, Top),
                   !.dead = Open.priorTaken \/ FoldGuard(Open, Top) = 0,
                   !.plain = /\ @ /\ Top.plain /\ FoldGuard(Open, Top) # None
                             /\ \A row \in Rows : Top.value[row] \in Int,
                   !.arrays = @ \/ Top.arrays]
    OBVIOUS
  <2> HIDE DEF frame
  <2> QED BY <2>1 DEF EnterArm
<1>6. folded # None => \A row \in Rows : guard[row] \in {folded} \cup Failing
  BY <1>2, <1>4, GuardHolds
<1>7. Quiet(Open.operand.value) /\ Quiet(Top.value) => Quiet(guard)
  BY ComparedQuiet DEF Guard, Quiet
<1>8. \A row \in Rows : Open.simple /\ Open.operand.value[row] \in Failing => guard[row] \in Failing
  BY StrictFails DEF Guard, Equals
<1>9. plain => /\ Open.plain /\ Top.plain /\ folded # None
               /\ \A row \in Rows : Top.value[row] \notin Failing
  BY MarksAreApart DEF Failing
<1> HIDE DEF folded, guard, plain, arrays
<1>10. /\ frame.phase = "result" /\ frame.guard = guard /\ frame.folded = folded
       /\ (frame.dead <=> dead) /\ (frame.plain <=> plain) /\ frame.height = h
       /\ frame.simple = Open.simple /\ frame.operand = Open.operand
       /\ frame.priorTaken = Open.priorTaken /\ frame.nulls = Open.nulls
       /\ frame.value = Open.value
  BY <1>2, <1>3 DEF SoundFrame, Frames
<1> HIDE DEF frame
<1>11. ArmHolds(frame)
  BY <1>2, <1>6, <1>9, <1>10 DEF ArmHolds
<1>12. QuietFrame(Open) /\ (Open.dead \/ \A j \in Above(h) : Quiet(stack[j].value)) =>
         QuietFrame(frame)
  BY <1>2, <1>4, <1>7, <1>10 DEF QuietFrame
<1>13. FrameFails(Open) => FrameFails(frame)
  BY <1>8, <1>10 DEF FrameFails
<1>14. plain /\ Fails(Top.value) => FrameFails(frame)
  BY <1>9 DEF Fails, FrameFails
<1>15. frame.plain => /\ Open.plain /\ (FrameFails(Open) => FrameFails(frame))
                      /\ \A j \in Above(h) :
                           /\ stack[j].plain
                           /\ ~Open.dead /\ Fails(stack[j].value) => FrameFails(frame)
  BY <1>4, <1>9, <1>10, <1>13, <1>14
<1> QED BY <1>1, <1>3, <1>4, <1>5, <1>10, <1>11, <1>12, <1>15, ChangeKeeps

\* The value of the CASE once the result of an arm has been visited.
LEMMA TakenHolds ==
  ASSUME NEW f \in SoundFrame, ArmHolds(f), f.phase = "result", NEW x \in SoundNode,
         NEW row \in Rows
  PROVE  /\ f.priorTaken \/ f.folded = 1 => Taken(f, x)[row] # Pending
         /\ f.plain /\ ~f.priorTaken /\ f.folded # 1 => Taken(f, x)[row] \in {Pending} \cup Failing
         /\ f.value[row] # Fault /\ f.guard[row] # Fault /\ (f.dead \/ x.value[row] # Fault) =>
              Taken(f, x)[row] # Fault
         /\ \/ f.value[row] \in Failing
            \/ f.value[row] = Pending /\ f.guard[row] \in Failing
            => Taken(f, x)[row] \in Failing
         /\ f.plain /\ ~f.dead /\ x.value[row] \in Failing => Taken(f, x)[row] \in Failing
<1> DEFINE v == f.value[row]
           g == f.guard[row]
           r == x.value[row]
           t == Taken(f, x)[row]
<1>1. t = IF v # Pending THEN v ELSE IF g \in Failing THEN g ELSE IF g = 1 THEN r ELSE Pending
  BY DEF Taken, Failing
<1>2. /\ f.folded \in {0, 1, None}
      /\ f.priorTaken => v # Pending
      /\ f.folded # None => g \in {f.folded} \cup Failing
      /\ f.dead <=> f.priorTaken \/ f.folded = 0
      /\ f.plain => f.folded # None
      /\ f.plain /\ ~f.priorTaken => v \in {Pending} \cup Failing
  BY FrameHas DEF ArmHolds
<1>3. r \in Values /\ Pending \notin Values /\ Pending \notin Failing /\ Pending # Fault
      /\ 0 \notin Failing /\ 1 \notin Failing /\ None \notin Int
  BY NodeHas, MarksAreApart DEF Values, Failing
<1> HIDE DEF v, g, r, t
<1>4. f.priorTaken \/ f.folded = 1 => t # Pending
  BY <1>1, <1>2, <1>3
<1>5. f.plain /\ ~f.priorTaken /\ f.folded # 1 => t \in {Pending} \cup Failing
  BY <1>1, <1>2, <1>3
<1>6. v # Fault /\ g # Fault /\ (f.dead \/ r # Fault) => t # Fault
  BY <1>1, <1>2, <1>3
<1>7. v \in Failing \/ (v = Pending /\ g \in Failing) => t \in Failing
  BY <1>1, <1>3
<1>8. f.plain /\ ~f.dead /\ r \in Failing => t \in Failing
  BY <1>1, <1>2, <1>3
<1> QED BY <1>4, <1>5, <1>6, <1>7, <1>8 DEF v, g, r, t

LEMMA LeaveArmKeeps == ASSUME IInv, Warned, LeaveArm PROVE Warned'
<1> DEFINE type == Coerce(Open.type, Top.type)
           nulls == Open.nulls \cup {Top.null}
           taken == Open.priorTaken \/ Open.folded = 1
           value == Taken(Open, Top)
           guard == Constant(Pending)
           plain == Open.plain /\ Top.plain
           arrays == Open.arrays \/ Top.arrays
           untyped == Open.untyped \/ Top.untyped
           frame == [Open EXCEPT !.phase = "guard", !.dead = FALSE, !.guard = guard,
                                 !.folded = None, !.priorTaken = taken, !.type = type,
                                 !.nulls = nulls, !.value = value, !.plain = plain,
                                 !.arrays = arrays, !.untyped = untyped]
<1>1. /\ cases # <<>> /\ Open.phase = "result" /\ Len(stack) = Open.height + 1
      /\ stack' = Popped /\ warnings' = warnings
  BY DEF LeaveArm, Part
<1>2. Open \in SoundFrame /\ Open.height \in Nat /\ ArmHolds(Open)
  BY <1>1, OpenHolds
<1>3. PICK h \in Nat : h = Open.height
  BY <1>2
<1>4. /\ Kept(h) /\ DOMAIN stack' = 1 .. h /\ Above(h) = {h + 1} /\ stack[h + 1] = Top
      /\ Top \in SoundNode
  BY <1>1, <1>3, PoppedShape
<1>5. Change(frame)
  <2>1. frame = [Open EXCEPT !.phase = "guard", !.dead = FALSE, !.guard = Constant(Pending),
                   !.folded = None, !.priorTaken = @ \/ Open.folded = 1,
                   !.type = Coerce(@, Top.type), !.nulls = @ \cup {Top.null},
                   !.value = Taken(Open, Top), !.plain = @ /\ Top.plain,
                   !.arrays = @ \/ Top.arrays, !.untyped = @ \/ Top.untyped]
    OBVIOUS
  <2> HIDE DEF frame
  <2> QED BY <2>1 DEF LeaveArm
<1>6. \A row \in Rows :
        /\ taken => value[row] # Pending
        /\ plain /\ ~taken => value[row] \in {Pending} \cup Failing
        /\ Open.value[row] # Fault /\ Open.guard[row] # Fault
             /\ (Open.dead \/ Top.value[row] # Fault) => value[row] # Fault
        /\ \/ Open.value[row] \in Failing
           \/ Open.value[row] = Pending /\ Open.guard[row] \in Failing
           => value[row] \in Failing
        /\ plain /\ ~Open.dead /\ Top.value[row] \in Failing => value[row] \in Failing
  BY <1>1, <1>2, <1>4, TakenHolds
<1>7. Quiet(guard)
  BY MarksAreApart DEF Constant, Quiet
<1>8. plain => Open.plain /\ Top.plain
  OBVIOUS
<1> HIDE DEF type, nulls, taken, value, guard, plain, arrays, untyped
<1>9. /\ frame.phase = "guard" /\ frame.guard = guard /\ frame.folded = None
      /\ (frame.plain <=> plain) /\ frame.height = h /\ (frame.priorTaken <=> taken)
      /\ frame.operand = Open.operand /\ frame.value = value
  BY <1>2, <1>3 DEF SoundFrame, Frames
<1> HIDE DEF frame
<1>10. ArmHolds(frame)
  BY <1>6, <1>9 DEF ArmHolds
<1>11. QuietFrame(Open) /\ (Open.dead \/ \A j \in Above(h) : Quiet(stack[j].value)) =>
         QuietFrame(frame)
  BY <1>4, <1>6, <1>7, <1>9 DEF QuietFrame, Quiet
<1>12. FrameFails(Open) => FrameFails(frame)
  BY <1>1, <1>6, <1>9 DEF FrameFails
<1>13. plain /\ ~Open.dead /\ Fails(Top.value) => FrameFails(frame)
  BY <1>6, <1>9 DEF Fails, FrameFails
<1>14. frame.plain => /\ Open.plain /\ (FrameFails(Open) => FrameFails(frame))
                      /\ \A j \in Above(h) :
                           /\ stack[j].plain
                           /\ ~Open.dead /\ Fails(stack[j].value) => FrameFails(frame)
  BY <1>4, <1>8, <1>9, <1>12, <1>13
<1> QED BY <1>1, <1>3, <1>4, <1>5, <1>9, <1>10, <1>11, <1>14, ChangeKeeps

LEMMA EnterElseKeeps == ASSUME IInv, Warned, EnterElse PROVE Warned'
<1> DEFINE frame == [Open EXCEPT !.phase = "else", !.dead = Open.priorTaken]
<1>1. /\ cases # <<>> /\ Open.phase = "guard" /\ Len(stack) = Open.height /\ Open.nulls # {}
      /\ Change(frame) /\ stack' = stack /\ warnings' = warnings
  BY DEF EnterElse
<1>2. Open \in SoundFrame /\ Open.height \in Nat /\ ArmHolds(Open) /\ ~Open.dead
  BY <1>1, OpenHolds, FrameHas
<1>3. PICK h \in Nat : h = Open.height
  BY <1>2
<1>4. Kept(h) /\ DOMAIN stack' = 1 .. h /\ Above(h) = {}
  BY <1>1, <1>3 DEF Kept, Above, IInv, Typed
<1>5. /\ frame.phase = "else" /\ (frame.dead <=> Open.priorTaken) /\ frame.height = h
      /\ frame.guard = Open.guard /\ frame.folded = Open.folded
      /\ (frame.plain <=> Open.plain) /\ (frame.priorTaken <=> Open.priorTaken)
      /\ frame.operand = Open.operand /\ frame.value = Open.value
      /\ frame.nulls = Open.nulls /\ (frame.simple <=> Open.simple)
  BY <1>2, <1>3 DEF SoundFrame, Frames
<1> HIDE DEF frame
<1>6. ArmHolds(frame)
  BY <1>1, <1>2, <1>5 DEF ArmHolds
<1>7. QuietFrame(Open) => QuietFrame(frame)
  BY <1>5 DEF QuietFrame
<1>8. FrameFails(Open) => FrameFails(frame)
  BY <1>1, <1>5 DEF FrameFails
<1> QED BY <1>1, <1>3, <1>4, <1>5, <1>6, <1>7, <1>8, ChangeKeeps

\* The node a CASE becomes: the rows no arm took have the value of ELSE, or NULL.
LEMMA CaseNodeParts ==
  ASSUME NEW f \in SoundFrame, ArmHolds(f), f.nulls # {},
         NEW type, NEW null, NEW otherwise, Quiet(f.value), Quiet(otherwise) \/ f.priorTaken
  PROVE  Quiet(CaseNode(f, type, null, otherwise).value)
BY DEF CaseNode, Quiet, ArmHolds

LEMMA CaseNodeFails ==
  ASSUME NEW f \in SoundFrame, ArmHolds(f), f.nulls # {},
         NEW type, NEW null, NEW otherwise,
         FrameFails(f) \/ (f.plain /\ ~f.priorTaken /\ Fails(otherwise))
  PROVE  Fails(CaseNode(f, type, null, otherwise).value)
<1>1. Pending \notin Failing
  BY MarksAreApart DEF Failing
<1>2. \A row \in Rows : f.value[row] \in Failing
                        \/ (f.value[row] = Pending /\ otherwise[row] \in Failing)
  BY DEF FrameFails, Fails, ArmHolds
<1> QED BY <1>1, <1>2 DEF CaseNode, Fails

LEMMA LeaveElseKeeps == ASSUME IInv, Warned, LeaveElse PROVE Warned'
<1> DEFINE type == Coerce(Open.type, Top.type)
           null == CombineNullableAny(Open.nulls \cup {Top.null})
           plain == Open.plain /\ Top.plain
           arrays == Open.arrays \/ Top.arrays
           untyped == Open.untyped \/ Top.untyped
           closed == CaseNode(Open, type, null, Top.value)
           node == [closed EXCEPT !.plain = plain, !.arrays = arrays, !.untyped = untyped]
<1>1. /\ cases # <<>> /\ Open.phase = "else" /\ Len(stack) = Open.height + 1
      /\ warnings' = warnings /\ cases' = SubSeq(cases, 1, Len(cases) - 1)
  BY DEF LeaveElse, Part
<1>2. Open \in SoundFrame /\ Open.height \in Nat /\ ArmHolds(Open)
  BY <1>1, OpenHolds
<1>3. PICK h \in Nat : h = Open.height
  BY <1>2
<1>4. stack' = Append(Popped, node)
  <2>1. node = [CaseNode(Open, Coerce(Open.type, Top.type),
                         CombineNullableAny(Open.nulls \cup {Top.null}), Top.value)
                  EXCEPT !.plain = @ /\ Top.plain, !.arrays = @ \/ Top.arrays,
                         !.untyped = @ \/ Top.untyped]
    BY DEF CaseNode
  <2> HIDE DEF node
  <2> QED BY <2>1 DEF LeaveElse
<1>5. Open.nulls # {} /\ (Open.dead <=> Open.priorTaken)
  BY <1>1, <1>2 DEF ArmHolds
<1>6. Quiet(Open.value) /\ (Open.dead \/ Quiet(Top.value)) => Quiet(closed.value)
  BY <1>2, <1>5, CaseNodeParts
<1>7. FrameFails(Open) \/ (Open.plain /\ ~Open.dead /\ Fails(Top.value)) => Fails(closed.value)
  BY <1>2, <1>5, CaseNodeFails
<1>8. node.value = closed.value /\ ~node.literal /\ (node.plain <=> Open.plain /\ Top.plain)
  BY DEF CaseNode
<1> HIDE DEF node, closed
<1>9. /\ Kept(h) /\ DOMAIN stack' = 1 .. h + 1 /\ stack'[h + 1] = node
      /\ Above(h) = {h + 1} /\ stack[h + 1] = Top
  <2>1. Len(stack) - 1 = h /\ Has(1)
    BY <1>1, <1>3, OpenIsSound DEF Has
  <2>2. Replace(1, node)
    BY <1>4 DEF Replace, Popped
  <2>3. Kept(h) /\ DOMAIN stack' = 1 .. h + 1 /\ stack'[h + 1] = node
    BY <2>1, <2>2, ReplaceShape
  <2>4. Above(h) = {h + 1} /\ stack[h + 1] = Top
    BY <1>1, <1>3 DEF Above, Top
  <2> QED BY <2>3, <2>4
<1>10. Literally(node)
  BY <1>8 DEF Literally
<1>11. QuietFrame(Open) /\ (Open.dead \/ \A j \in Above(h) : Quiet(stack[j].value)) =>
         Quiet(node.value)
  BY <1>6, <1>8, <1>9 DEF QuietFrame
<1>12. node.plain => /\ Open.plain /\ (FrameFails(Open) => Fails(node.value))
                     /\ \A j \in Above(h) :
                          /\ stack[j].plain
                          /\ ~Open.dead /\ Fails(stack[j].value) => Fails(node.value)
  BY <1>7, <1>8, <1>9
<1> QED BY <1>1, <1>3, <1>9, <1>10, <1>11, <1>12, PopKeeps

LEMMA EndCaseKeeps == ASSUME IInv, Warned, EndCase PROVE Warned'
<1> DEFINE node == CaseNode(Open, Open.type, 2, Constant(Null))
<1>1. /\ cases # <<>> /\ Open.nulls # {} /\ Len(stack) = Open.height
      /\ stack' = Append(stack, node) /\ cases' = SubSeq(cases, 1, Len(cases) - 1)
      /\ warnings' = warnings
  BY DEF EndCase
<1>2. Open \in SoundFrame /\ Open.height \in Nat /\ ArmHolds(Open)
  BY <1>1, OpenHolds
<1>3. PICK h \in Nat : h = Open.height
  BY <1>2
<1>4. Quiet(Constant(Null))
  BY MarksAreApart DEF Quiet, Constant
<1>5. Quiet(Open.value) => Quiet(node.value)
  BY <1>1, <1>2, <1>4, CaseNodeParts
<1>6. FrameFails(Open) => Fails(node.value)
  BY <1>1, <1>2, CaseNodeFails
<1>7. ~node.literal /\ (node.plain <=> Open.plain)
  BY DEF CaseNode
<1> HIDE DEF node
<1>8. /\ Kept(h) /\ DOMAIN stack' = 1 .. h + 1 /\ stack'[h + 1] = node /\ Above(h) = {}
  BY <1>1, <1>3, AppendShape
<1>9. Literally(node)
  BY <1>7 DEF Literally
<1>10. QuietFrame(Open) => Quiet(node.value)
  BY <1>5 DEF QuietFrame
<1> QED BY <1>1, <1>3, <1>6, <1>7, <1>8, <1>9, <1>10, PopKeeps

-----------------------------------------------------------------------------
(* The invariant, and what it says.                                         *)

LEMMA WarnedStep == IInv /\ Warned /\ [Next]_vars => Warned'
<1> SUFFICES ASSUME IInv, Warned, [Next]_vars PROVE Warned'
  OBVIOUS
<1>1. CASE UNCHANGED vars
  <2>1. stack' = stack /\ cases' = cases /\ warnings' = warnings
    BY <1>1 DEF vars
  <2>2. /\ \A i : (NodeDead(i)' <=> NodeDead(i)) /\ (Suspect(i)' <=> Suspect(i))
        /\ \A d : (CaseDead(d)' <=> CaseDead(d)) /\ (SuspectCase(d)' <=> SuspectCase(d))
    BY <2>1 DEF NodeDead, CaseDead, Suspect, SuspectCase, Fails, FrameFails
  <2>3. Arms'
    BY <2>1 DEF Warned, Arms, Literally, ArmHolds
  <2>4. NoFaultUnseen'
    BY <2>1, <2>2 DEF Warned, NoFaultUnseen, Quiet, QuietFrame
  <2>5. WarnedFails'
    BY <2>1, <2>2 DEF Warned, WarnedFails
  <2> QED BY <2>3, <2>4, <2>5 DEF Warned
<1>2. CASE \/ \E n \in Literals : IntegerLiteral(n)
           \/ \E b \in {0, 1} : BooleanLiteral(b)
           \/ NullLiteral
           \/ \E c \in Column : ColumnRef(c)
           \/ \E v \in Outcomes, type \in OpaqueTypes : Parameter(type, v)
           \/ \E b \in Answers : Exists(b)
  BY <1>2, LeavesKeep
<1>3. CASE \E v \in Outcomes : UnknownFunction(v)
  BY <1>3, UnknownFunctionKeeps
<1>4. CASE Not \/ Minus
  BY <1>4, NotKeeps, MinusKeeps
<1>5. CASE \E of \in {Null, 0, 1} : Test(of)
  BY <1>5, TestKeeps
<1>6. CASE \E type \in CastTypes : Cast(type)
  BY <1>6, CastKeeps
<1>7. CASE \E name \in {"COUNT", "MAX"}, group \in {{}, Rows} : Aggregate(name, group)
  BY <1>7, AggregateKeeps
<1>8. CASE \E op \in ArithmeticOps : Arithmetic(op)
  BY <1>8, ArithmeticKeeps
<1>9. CASE (\E op \in {"=", "<="} : Comparison(op)) \/ (\E op \in {"AND", "OR"} : Logical(op))
  BY <1>9, ComparisonKeeps, LogicalKeeps
<1>10. CASE DistinctFrom \/ NullIf \/ Between
  BY <1>10, DistinctFromKeeps, NullIfKeeps, BetweenKeeps
<1>11. CASE \E name \in {"COALESCE", "GREATEST"} : Coalesce(name)
  BY <1>11, CoalesceKeeps
<1>12. CASE \E n \in 2 .. 3 : InList(n) \/ EqualsAnyArray(n)
  BY <1>12, InListKeeps, EqualsAnyArrayKeeps
<1>13. CASE \E result \in SubqueryResults, nullable \in BOOLEAN : InSubquery(result, nullable)
  BY <1>13, InSubqueryKeeps
<1>14. CASE OpenCase \/ OpenSimpleCase
  BY <1>14, OpenCaseKeeps, OpenSimpleCaseKeeps
<1>15. CASE EnterArm \/ LeaveArm \/ EnterElse \/ LeaveElse \/ EndCase
  BY <1>15, EnterArmKeeps, LeaveArmKeeps, EnterElseKeeps, LeaveElseKeeps, EndCaseKeeps
<1> QED BY <1>1, <1>2, <1>3, <1>4, <1>5, <1>6, <1>7, <1>8, <1>9, <1>10, <1>11, <1>12, <1>13,
           <1>14, <1>15 DEF Next

LEMMA WarnedInit == Init => Warned
BY DEF Init, Warned, Arms, NoFaultUnseen, WarnedFails

LEMMA WarnedHolds == Spec => [](IInv /\ Warned)
<1>1. IInv /\ Warned /\ [Next]_vars => (IInv /\ Warned)'
  BY StepSound, WarnedStep
<1>2. Init => IInv /\ Warned
  BY InitSound, WarnedInit
<1> QED BY <1>1, <1>2, PTL DEF Spec

\* No arm is open around a finished expression.
LEMMA CompleteIsLive ==
  ASSUME IInv, Complete
  PROVE  /\ DOMAIN stack = {1} /\ DOMAIN cases = {}
         /\ \A i : ~NodeDead(i)
<1>1. DOMAIN stack = 1 .. 1 /\ DOMAIN cases = {}
  BY DEF Complete, IInv, Typed
<1> QED BY <1>1 DEF NodeDead

(* Arithmetic of literals that fails where an evaluation gets to it is      *)
(* warned of, however deep it lies: what check_const_arith_overflow and the *)
(* division check leave out in dead arms of CASE is never evaluated.        *)
THEOREM FailuresAreWarned == Spec => []FaultsAreWarned
<1>1. IInv /\ Warned => FaultsAreWarned
  <2> SUFFICES ASSUME IInv, Warned, Complete, warnings = {}
               PROVE  \A row \in Rows : stack[1].value[row] # Fault
    BY DEF FaultsAreWarned
  <2>1. Quiet(stack[1].value)
    BY CompleteIsLive DEF Warned, NoFaultUnseen
  <2> QED BY <2>1 DEF Quiet
<1> QED BY <1>1, WarnedHolds, PTL

(* A warning about an expression that is made of literals alone means that  *)
(* it fails: the analyzer does not warn of an arm behind a guard it knows   *)
(* to be false, or behind one it knows to be taken earlier.                 *)
THEOREM WarningsAreMeant == Spec => []DeadArmsAreSilent
<1>1. IInv /\ Warned => DeadArmsAreSilent
  <2> SUFFICES ASSUME IInv, Warned, Complete, stack[1].plain, warnings # {}, Rows # {}
               PROVE  \A row \in Rows : stack[1].value[row] \in Failing
    BY DEF DeadArmsAreSilent, Failing
  <2>1. Suspect(1)
    BY CompleteIsLive DEF Warned, WarnedFails
  <2> QED BY <2>1 DEF Suspect, Fails
<1> QED BY <1>1, WarnedHolds, PTL

=============================================================================
