----------------------------- MODULE RowChecks -----------------------------
(***************************************************************************)
(* INSERT and UPDATE of a table with NOT NULL columns, defaults and CHECK  *)
(* constraints: the violations the analyzer reports before the statement   *)
(* runs (analyze_insert, analyze_update, analyze_set_clause and            *)
(* check_row_against_checks), beside what the statement then does.         *)
(*                                                                         *)
(* `table` is the catalog's entry and `row` the stored row the statements  *)
(* meet, or no row. Of the last statement, `alarms` are the codes reported *)
(* for the parts of it that ran, `reason` is why it was refused, or "none", *)
(* and `sure` whether all it stored was known before.                      *)
(*                                                                         *)
(* The other rows of the table, types, RETURNING and INSERT ... SELECT,     *)
(* whose values are never known, are left out.                             *)
(***************************************************************************)
EXTENDS CheckEval, RowSemantics

CONSTANTS
  Tables,          \* [order: Seq of columns, column: [order -> description], checks: set of trees]
  Given(_),        \* the expressions given to a column of a type, of those in Expr
  Lists(_),        \* the column lists of INSERTs into a table; <<>> is no list
  SetLists(_),     \* the assignments <<column, expression>> of SET clauses
  Outcomes         \* the values an opaque expression may have

ASSUME TablesAssumption ==
  /\ Outcomes \subseteq RowValues
  /\ Given("Int") \subseteq Expr
  /\ \A t \in Tables :
       /\ t.checks \subseteq Expr
       /\ DOMAIN t.order \subseteq Nat /\ \A list \in Lists(t) : DOMAIN list \subseteq Nat
       /\ \A c \in DOMAIN t.column :
            /\ t.column[c].type \in {"Int", "Dbl", "Str", "Bool", "Time"}
            /\ Given(t.column[c].type) \subseteq Expr
            /\ t.column[c].hasDefault => t.column[c].default \in Expr
       /\ \A sets \in SetLists(t) :
            DOMAIN sets \subseteq Nat /\ \A i \in DOMAIN sets : sets[i][2] \in Expr

VARIABLES table, row, alarms, reason, sure

vars == <<table, row, alarms, reason, sure>>

NoRow == <<>>

Init ==
  /\ table \in Tables
  /\ row = NoRow
  /\ alarms = {} /\ reason = "none" /\ sure = FALSE

-----------------------------------------------------------------------------
(* The analyzer.                                                            *)

IsConstantExpr(e) == \A n \in NodesOf[e] : n.op = "literal" \/ n.op \in ConstantOps

\* The evaluator would order strings where the column orders instants.
CheckBindingIsSound(type, e) == ~(type = "Time" /\ e.op = "literal" /\ e.leaf.k = "Str")

Bindable(type, e) == IsConstantExpr(e) /\ CheckBindingIsSound(type, e)

\* The columns whose values a CHECK compares or calculates with.
OperandColumns(e) ==
  {c \in ColumnsOf(e) : \E n \in NodesOf[e] :
     /\ n.op \notin LogicalOps \cup NullTests
     /\ \E i \in DOMAIN n.args : n.args[i].op = "column" /\ n.args[i].leaf = c}

\* A constant bound to a column is stored as it is read: it has the column's kind, or is a
\* string for a truth value that no CHECK compares. The evaluator takes a range with a NULL
\* end for NULL where it may be FALSE, so no constant holds one.
Unconverted(t, c, e) ==
  LET kind == Evaluated(e, <<>>).k
  IN /\ OpsOf(e) \cap BetweenOps = {}
     /\ \/ kind \in {t.column[c].type, "Null", "Fail"}
        \/ /\ kind = "Str" /\ t.column[c].type = "Bool"
           /\ \A check \in t.checks : c \notin OperandColumns(check)

GivenTo(t, c) ==
  Given(t.column[c].type)
    \cup {d.default : d \in {d \in {t.column[c]} : d.hasDefault}}
    \cup UNION {{sets[i][2] : i \in {i \in DOMAIN sets : sets[i][1] = c}} : sets \in SetLists(t)}

\* What the evaluator's promise is about: no value is converted, and no CHECK asks of a range
\* whether it is NULL.
ASSUME ConversionAssumption ==
  \A t \in Tables :
    /\ \A c \in DOMAIN t.column : \A e \in GivenTo(t, c) :
         Bindable(t.column[c].type, e) => Unconverted(t, c, e)
    /\ \A check \in t.checks : \A n \in NodesOf[check] :
         n.op \in NullTests => OpsOf(n) \cap BetweenOps = {}

IsColumn(c) == c \in DOMAIN table.column

Description(c) == table.column[c]

\* The first value given to a column is bound; a default to what INSERT does not name.
(* A wrong version: the defaults of omitted columns are not bound.          *)
BindingsGiven(targets, values, applyDefaults) ==
  LET shared == {i \in DOMAIN targets : i \in DOMAIN values /\ IsColumn(targets[i])}
      bound == {i \in shared : Bindable(Description(targets[i]).type, values[i])}
      first(c) == CHOOSE i \in bound : targets[i] = c /\ \A j \in bound : targets[j] = c => i <= j
  IN [c \in {targets[i] : i \in bound} |-> values[first(c)]]

Bindings(targets, values, applyDefaults) ==
  LET shared == {i \in DOMAIN targets : i \in DOMAIN values /\ IsColumn(targets[i])}
      bound == {i \in shared : Bindable(Description(targets[i]).type, values[i])}
      first(c) == CHOOSE i \in bound : targets[i] = c /\ \A j \in bound : targets[j] = c => i <= j
      given == {targets[i] : i \in bound}
      defaulted == {c \in DOMAIN table.column \ ToSet(targets) :
                      /\ applyDefaults /\ Description(c).hasDefault
                      /\ Bindable(Description(c).type, Description(c).default)}
  IN [c \in given \cup defaulted |->
        IF c \in given THEN values[first(c)] ELSE Description(c).default]

\* A CHECK is decided only if every column it refers to is bound.
CheckViolations(targets, values, applyDefaults) ==
  LET binds == Bindings(targets, values, applyDefaults)
  IN {"CheckViolation" : c \in {c \in table.checks :
        /\ ColumnsOf(c) \subseteq DOMAIN binds
        /\ EvaluateCheck(c, binds) = False}}

NullGiven(targets, values) ==
  {"NotNullViolation" : i \in {i \in DOMAIN targets :
     /\ i \in DOMAIN values /\ IsColumn(targets[i])
     /\ ~Description(targets[i]).nullable
     /\ values[i] = Literal(NullValue)}}

NullLeft(targets) ==
  {"NotNullViolation" : c \in {c \in DOMAIN table.column \ ToSet(targets) :
     ~Description(c).nullable /\ ~Description(c).hasDefault}}

RowDiagnostics(targets, values, applyDefaults) ==
  NullGiven(targets, values) \cup CheckViolations(targets, values, applyDefaults)

Targets(list) == IF list = <<>> THEN table.order ELSE list

\* What makes the statement itself wrong: it reaches no row.
Malformed(targets, values) ==
  {code \in {"DuplicateColumn", "UnresolvedColumn", "InsertArityMismatch"} :
     CASE code = "DuplicateColumn" -> ~IsInjective(targets)
       [] code = "UnresolvedColumn" ->
            (\E i \in DOMAIN targets : ~IsColumn(targets[i]))
              \/ \E i \in DOMAIN values : ColumnsOf(values[i]) # {}
       [] code = "InsertArityMismatch" -> DOMAIN targets # DOMAIN values}

SetColumns(sets) == [i \in DOMAIN sets |-> sets[i][1]]
SetValues(sets)  == [i \in DOMAIN sets |-> sets[i][2]]

\* An UPDATE leaves the other columns as they are, so that defaults do not count. A column
\* that is set twice is not reported.
SetDiagnostics(sets) ==
  LET found == {i \in DOMAIN sets : IsColumn(sets[i][1])}
  IN (IF found = DOMAIN sets THEN {} ELSE {"UnresolvedColumn"})
       \cup (IF found = {} THEN {}
             ELSE RowDiagnostics(SetColumns(sets), SetValues(sets), FALSE))

-----------------------------------------------------------------------------
(* The statement.                                                           *)

\* The row an INSERT proposes, and the row an UPDATE makes of the stored one.
Proposed(targets, values, outcome) ==
  [c \in DOMAIN table.column |->
     LET given == {i \in DOMAIN targets : targets[i] = c}
         value == IF given # {} THEN ValueIn(values[CHOOSE i \in given : TRUE], NoRow, outcome)
                  ELSE IF Description(c).hasDefault
                  THEN ValueIn(Description(c).default, NoRow, outcome)
                  ELSE NullValue
     IN Stored(Description(c).type, value)]

Updated(sets, outcome) ==
  [c \in DOMAIN table.column |->
     LET set == {i \in DOMAIN sets : sets[i][1] = c}
     IN IF set = {} THEN row[c]
        ELSE Stored(Description(c).type,
                      ValueIn(sets[CHOOSE i \in set : TRUE][2], row, outcome))]

\* A SET clause that names an unknown column, or one twice, fails.
Assignable(sets) == IsInjective(SetColumns(sets)) /\ \A i \in DOMAIN sets : IsColumn(sets[i][1])

\* The kind of a node of which neither side converts an operand, or "None"; `arg` holds its
\* arguments' kinds and `columns` those of columns. A value of a kind may be NULL. BETWEEN
\* with a NULL, which the evaluator leaves open, has no kind.
KindNode(e, arg, columns) ==
  LET kinds == {arg[i] : i \in DOMAIN e.args}
      numbers == kinds \subseteq {"Int", "Dbl", "Null"} /\ ~(e.op = "%" /\ "Dbl" \in kinds)
      alike == numbers \/ \E k \in {"Str", "Bool"} : kinds \subseteq {k, "Null"}
  IN CASE e.op = "literal" -> e.leaf.k
       [] e.op = "column" /\ e.leaf \in DOMAIN columns -> columns[e.leaf]
       [] e.op \in LogicalOps /\ kinds \subseteq {"Bool", "Null"} -> "Bool"
       [] e.op \in NullTests /\ "None" \notin kinds -> "Bool"
       [] e.op \in ComparisonOps /\ alike -> "Bool"
       [] e.op \in ArithmeticOps /\ numbers ->
            IF "Null" \in kinds THEN "Null" ELSE IF "Dbl" \in kinds THEN "Dbl" ELSE "Int"
       [] OTHER -> "None"

KindOf(e, columns) ==
  LET kind[x \in NodesOf[e]] == KindNode(x, [i \in DOMAIN x.args |-> kind[x.args[i]]], columns)
  IN kind[e]

TypeOf(c) == Description(c).type

\* Before the statement ran, the value was known to be NULL or of the column's own kind.
Known(type, e) ==
  IsConstantExpr(e) /\
    \/ e = Literal(NullValue)
    \/ KindOf(e, <<>>) = type /\ ValueIn(e, NoRow, NullValue).k = type

\* What is omitted is NOT NULL or takes a default that is known, and none for NULL.
KnownDefault(c) ==
  IF Description(c).hasDefault
  THEN Known(TypeOf(c), Description(c).default) /\ Description(c).default # Literal(NullValue)
  ELSE ~Description(c).nullable

KnownInsert(targets, values) ==
  /\ \A i \in DOMAIN targets : Known(TypeOf(targets[i]), values[i])
  /\ \A c \in DOMAIN table.column \ ToSet(targets) : KnownDefault(c)

KnownUpdate(sets) ==
  /\ ToSet(SetColumns(sets)) = DOMAIN table.column
  /\ \A i \in DOMAIN sets : Known(TypeOf(sets[i][1]), sets[i][2])

Store(new, why) == row' = (IF why = "none" THEN new ELSE row) /\ reason' = why

\* `sets` is the SET clause of ON CONFLICT, or <<>>; a stored row conflicts.
InsertValues(list, values, sets, outcome) ==
  LET targets  == Targets(list)
      wrong    == Malformed(targets, values)
      reported == RowDiagnostics(targets, values, TRUE) \cup NullLeft(targets)
      proposed == Proposed(targets, values, outcome)
      first    == Refusal(table, proposed)
      updates  == sets # <<>> /\ row # NoRow
  IN /\ CASE wrong # {} \/ ~Assignable(sets) ->
               /\ Store(row, "error")
               /\ alarms' = wrong \cup reported \cup SetDiagnostics(sets)
               /\ sure' = FALSE
          [] wrong = {} /\ Assignable(sets) /\ first = "none" /\ updates ->
               /\ Store(Updated(sets, outcome), Refusal(table, Updated(sets, outcome)))
               /\ alarms' = reported \cup SetDiagnostics(sets)
               /\ sure' = FALSE
          [] OTHER ->
               /\ Store(proposed, first)
               /\ alarms' = reported
               /\ sure' = KnownInsert(targets, values)
     /\ UNCHANGED table

\* The CHECK constraints are not evaluated for the defaults.
InsertDefaultValues(outcome) ==
  LET proposed == Proposed(<<>>, <<>>, outcome)
  IN /\ Store(proposed, Refusal(table, proposed))
     /\ alarms' = NullLeft(<<>>)
     /\ sure' = FALSE
     /\ UNCHANGED table

UpdateSet(sets, outcome) ==
  LET new == Updated(sets, outcome)
  IN /\ row # NoRow
     /\ IF Assignable(sets) THEN Store(new, Refusal(table, new)) ELSE Store(row, "error")
     /\ alarms' = SetDiagnostics(sets)
     /\ sure' = (Assignable(sets) /\ KnownUpdate(sets))
     /\ UNCHANGED table

\* One value for each target, or one too few.
ValueLists(targets) ==
  LET given(i) == Given(IF IsColumn(targets[i]) THEN TypeOf(targets[i]) ELSE "Int")
      all == UNION {given(i) : i \in DOMAIN targets}
  IN {values \in UNION {[1 .. n -> all] : n \in {Len(targets) - 1, Len(targets)}} :
        \A i \in DOMAIN values : values[i] \in given(i)}

\* A refused statement leaves the row as it was, so that none is tried after it.
Next ==
  /\ reason = "none"
  /\ \E outcome \in Outcomes :
    \/ \E list \in Lists(table), sets \in {<<>>} \cup (IF row = NoRow THEN {} ELSE SetLists(table)) :
         \E values \in ValueLists(Targets(list)) : InsertValues(list, values, sets, outcome)
    \/ InsertDefaultValues(outcome)
    \/ \E sets \in SetLists(table) : UpdateSet(sets, outcome)

Spec == Init /\ [][Next]_vars

-----------------------------------------------------------------------------
(* Properties.                                                              *)

Violations == {"CheckViolation", "NotNullViolation"}

(* A reported violation is one: whatever the stored row holds and opaque    *)
(* expressions yield, the statement is refused. check_eval.hpp promises it  *)
(* of CHECK, over values that are not converted when they are stored.       *)
NoFalseAlarm == alarms \cap Violations # {} => reason # "none"

(* A row of known values that a NOT NULL column or a CHECK refuses is       *)
(* reported: by the constants of the statement and the defaults of what it  *)
(* omits. CHECKs that convert an operand, or hold BETWEEN, are excepted.    *)
CertainViolationsAreReported ==
  /\ sure /\ reason \in {"check", "null"}
  /\ \A c \in table.checks : KindOf(c, [d \in DOMAIN table.column |-> TypeOf(d)]) # "None"
  => alarms \cap Violations # {}

=============================================================================
