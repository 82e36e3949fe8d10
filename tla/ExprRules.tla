----------------------------- MODULE ExprRules -----------------------------
(***************************************************************************)
(* Sharding rules built from expressions: expand.go orders the             *)
(* computations by what they read (TopoSort), sharding_expr_rule.go        *)
(* resolves the name for a row and enumerates the names that FindAll,      *)
(* CountAll and the connections at startup are made from.  A rule names a  *)
(* database (kind "db") or a physical table (kind "table").                *)
(***************************************************************************)
EXTENDS Expr, TopoSort

CONSTANTS
  Configs, \* name_expr, and expand_exprs as the set of its lines
  Rows,    \* rows by column
  Table,   \* entity.TableName()
  Nothing  \* no row has been resolved yet

VARIABLES
  config,   \* the configuration of the rule
  raw,      \* its expand_exprs in the order they are written
  computes, \* the computations of the rule, once it is built
  row,      \* the row last resolved
  name      \* and its name

vars == <<config, raw, sort, computes, row, name>>

Declares(line) == line.op = ":="
Computes(line) == line.op = "="

Decls   == SelectSeq(raw, Declares)
Sources == SelectSeq(raw, Computes)

(* What a declared variable ranges over, in order.                         *)
Values(d) == IF d.kind = "enum" THEN d.values
             ELSE [i \in 1..d.end - d.start |-> ToString(d.start + i - 1)]

Declared  == {d.var : d \in Range(Decls)}
DeclOf(v) == CHOOSE d \in Range(Decls) : d.var = v

-----------------------------------------------------------------------------
(* ParseExpands.                                                           *)

parseDeclRHS(d) == IF d.kind = "enum" THEN d.values # <<>> ELSE d.start < d.end

Valid(lines) ==
  /\ \A d \in Range(SelectSeq(lines, Declares)) : parseDeclRHS(d)
  /\ \A i, j \in DOMAIN lines :
       Declares(lines[i]) /\ Declares(lines[j]) /\ lines[i].var = lines[j].var => i = j
  /\ \A c \in Range(SelectSeq(lines, Computes)) : FuncRefs(c.expr) \subseteq Functions

(* The last computation of a variable is the one others wait for.          *)
nameToIdx(cs, v) == {i \in DOMAIN cs : cs[i].var = v /\ \A j \in DOMAIN cs : cs[j].var = v => j <= i}

(* Mutant: the computations stay in the order they are written.            *)
noDependencies(cs, i) == {}

DependsOn(cs, i) == UNION {nameToIdx(cs, v) : v \in VarRefs(cs[i].expr)} \ {i}

Init ==
  /\ config \in Configs
  /\ raw \in SetToSeqs(config.lines)
  /\ SortBegins([i \in DOMAIN Sources |-> DependsOn(Sources, i)])
  /\ phase = IF Valid(raw) THEN "sorting" ELSE "invalid"
  /\ computes = <<>>
  /\ row = Nothing /\ name = Nothing

Sort == Pop /\ UNCHANGED <<config, raw, computes, row, name>>

Sorted == [i \in DOMAIN sorted |-> Sources[sorted[i]]]

(* A database rule gets ${var} = @{var} for every declared variable of its *)
(* template that nothing computes, behind the sorted computations.         *)
autoInferIdentityComputes ==
  LET inferred(v) == v \in Declared /\ \A c \in Range(Sorted) : c.var # v
      parts       == SelectSeq(config.tmpl, LAMBDA p : p.kind = "var" /\ inferred(p.name))
  IN  [i \in DOMAIN parts |-> [op |-> "=", var |-> parts[i].name, expr |-> Col(parts[i].name)]]

(* Built or refused; a refused rule is not made.                           *)
Finish ==
  /\ SortEnds
  /\ computes' = IF phase' = "circular" THEN <<>>
                 ELSE IF config.kind = "db" THEN Sorted \o autoInferIdentityComputes
                 ELSE Sorted
  /\ UNCHANGED <<config, raw, row, name>>

-----------------------------------------------------------------------------
(* Resolution and enumeration.                                             *)

(* Variables after the computations: the first error ends a resolution     *)
(* (strict) and is skipped by an enumeration.                              *)
Bind(start, cols, strict) ==
  FoldLeft(LAMBDA vs, c :
             IF vs = Err THEN Err
             ELSE LET v == Eval(c.expr, vs, cols)
                  IN  IF v # Err THEN (c.var :> v) @@ vs ELSE IF strict THEN Err ELSE vs,
           start, computes)

BuiltIn == IF config.kind = "table" THEN "table" :> Table ELSE <<>>

RequiredColumns == UNION {ColRefs(c.expr) : c \in Range(computes)}

(* The sharding key routing takes from the row.  Sharding columns have the *)
(* types anyToValue takes: integers and strings.                           *)
ShardingKey(r) == [c \in RequiredColumns |-> r[c]]

Resolved(r) ==
  IF ~(RequiredColumns \subseteq DOMAIN r) THEN Err
  ELSE Bind(BuiltIn, ShardingKey(r), TRUE)

(* ResolveDatabaseTargetKey, ResolveTable.                                 *)
Resolve(r) == IF Resolved(r) = Err THEN Err ELSE EvalTemplate(config.tmpl, Resolved(r))

Route(r) ==
  /\ phase = "sorted"
  /\ row' = r /\ name' = Resolve(r)
  /\ UNCHANGED <<config, raw, sort, computes>>

(* The variable ShardName counts through: the first range, or else the     *)
(* first enum.                                                             *)
indexVar == LET ranges == SelectSeq(Decls, LAMBDA d : d.kind = "range")
            IN  IF ranges # <<>> THEN Head(ranges) ELSE Head(Decls)

(* Mutant: the index of the shard is taken for the value.                  *)
ShardNameFromZero(i) ==
  LET d == indexVar
      b == d.var :> IF d.kind = "enum" THEN d.values[i] ELSE ToString(i - 1)
  IN  EvalTemplate(config.tmpl,
                   Bind(b @@ BuiltIn, IF d.kind = "enum" THEN b ELSE <<>>, FALSE))

ShardName(i) ==
  LET d == indexVar
      b == d.var :> Values(d)[i]
  IN  EvalTemplate(config.tmpl,
                   Bind(b @@ BuiltIn, IF d.kind = "enum" THEN b ELSE <<>>, FALSE))

(* Without declarations FindAll visits the logical table.                  *)
TableNames == IF Decls = <<>> THEN {Table}
              ELSE {ShardName(i) : i \in DOMAIN Values(indexVar)}

(* Every combination of declared values, each both a variable and a column. *)
EnumerateDbNames ==
  IF Decls = <<>> THEN {Err}
  ELSE LET all      == UNION {Range(Values(d)) : d \in Range(Decls)}
           bindings == {b \in [Declared -> all] : \A v \in Declared : b[v] \in Range(Values(DeclOf(v)))}
       IN  {EvalTemplate(config.tmpl, Bind(b, b, FALSE)) : b \in bindings}

Enumerated == IF config.kind = "db" THEN EnumerateDbNames ELSE TableNames

-----------------------------------------------------------------------------
Next == Sort \/ Finish \/ \E r \in Rows : Route(r)

Spec == Init /\ [][Next]_vars

-----------------------------------------------------------------------------
(* What the configuration says, without any order of evaluation: the value *)
(* of a variable is that of its expression, whose variables have theirs.   *)
RECURSIVE Meaning(_, _, _)
Meaning(v, r, seen) ==
  LET defs == {c \in Range(Sources) : c.var = v}
  IN  IF v \in seen THEN Err
      ELSE IF defs # {}
        THEN LET e == (CHOOSE c \in defs : TRUE).expr
             IN  Eval(e, [w \in VarRefs(e) |-> Meaning(w, r, seen \cup {v})], r)
      ELSE IF config.kind = "table" /\ v = "table" THEN Table
      ELSE IF config.kind = "db" /\ v \in Declared \cap TemplateVars(config.tmpl) /\ v \in DOMAIN r
        THEN r[v]
      ELSE Err

Said(r) ==
  LET used  == {c.var : c \in Range(Sources)} \cup TemplateVars(config.tmpl)
      value == [v \in used |-> Meaning(v, r, {})]
  IN  IF Err \in Range(value) THEN Err ELSE EvalTemplate(config.tmpl, value)

(* The row is one the declarations provide for: its declared variables, and *)
(* its columns of the same name, hold a declared value.                    *)
Foreseen(r) ==
  \A v \in Declared \cap DOMAIN Resolved(r) :
    /\ Resolved(r)[v] \in Range(Values(DeclOf(v)))
    /\ v \in RequiredColumns => r[v] = Resolved(r)[v]

-----------------------------------------------------------------------------
(* Properties.                                                             *)

(* The variables an expression waits for although nothing will sort them:  *)
(* autoInferIdentityComputes comes after topoSortComputes.                 *)
InferredTooLate ==
  /\ config.kind = "db"
  /\ \E v \in Declared \cap UNION {VarRefs(c.expr) : c \in Range(Sources)} :
       \A d \in Range(Sources) : d.var # v

(* A rule names for each row what its expressions say, in whatever order   *)
(* they are written.  (Where a variable has two expressions their order is *)
(* the meaning; a rule that reads an inferred variable resolves no row at  *)
(* all.)                                                                   *)
ResolvesAsWritten ==
  row # Nothing =>
    IF InferredTooLate THEN name = Err
    ELSE (\A i, j \in DOMAIN Sources : Sources[i].var = Sources[j].var => i = j) => name = Said(row)

(* A name a row is routed to is one of those FindAll, CountAll and the     *)
(* connections are made from, or enumerating them is an error: no row is   *)
(* stored where a complete scan does not look.                             *)
EnumeratedOrRefused ==
  row # Nothing /\ name # Err /\ Foreseen(row) => Err \in Enumerated \/ name \in Enumerated
=============================================================================
