-------------------------------- MODULE Expr --------------------------------
(***************************************************************************)
(* The expression language of sharding rules (db/internal/dbsp/expr):      *)
(* evaluation of syntax trees and of name templates.  A Value is what its  *)
(* String() returns: an integer and the string of its digits behave alike  *)
(* everywhere, since arithmetic parses strings.                            *)
(***************************************************************************)
EXTENDS Integers, SequencesExt

CONSTANTS
  Err,      \* the error result
  MaxInt,   \* bound: absolute value of the integers that occur
  MaxWidth, \* bound: width of a padded integer
  Hash(_),  \* FNV-1a of a string, without its sign bit
  Lower(_), Upper(_)

Magnitude(n) == IF n < 0 THEN -n ELSE n

Zeros(k) == IF k <= 0 THEN "" ELSE FlattenSeq([i \in 1..k |-> "0"])

(* Sprintf("%0*d", w, n): the sign counts.                                 *)
Fill(n, w) == LET sign   == IF n < 0 THEN "-" ELSE ""
                  digits == ToString(Magnitude(n))
              IN  sign \o Zeros(w - Len(sign) - Len(digits)) \o digits

Numerals == [n \in -MaxInt..MaxInt |-> {Fill(n, w) : w \in 0..MaxWidth}]

(* The integer a value stands for; none when it does not parse.            *)
Int64(v) == {n \in DOMAIN Numerals : v \in Numerals[n]}

-----------------------------------------------------------------------------
(* Operators and functions.                                                *)

(* Go's / and % truncate toward zero.                                      *)
Quotient(a, b)  == LET q == Magnitude(a) \div Magnitude(b)
                   IN  IF (a < 0) = (b < 0) THEN q ELSE -q
Remainder(a, b) == a - b * Quotient(a, b)

builtinMod(a, b) == LET r == Remainder(a, b) IN IF r < 0 THEN r + b ELSE r

IntFunctions  == {"+", "-", "*", "/", "%", "mod", "div", "fill"}
TextFunctions == {"hash", "str", "lower", "upper"}
Functions     == IntFunctions \cup TextFunctions \cup {"concat"}

OnInts(fn, a, b) ==
  CASE fn = "+"                               -> ToString(a + b)
    [] fn = "-"                               -> ToString(a - b)
    [] fn = "*"                               -> ToString(a * b)
    [] fn = "fill"                            -> Fill(a, b)
    [] fn \in {"/", "%", "mod", "div"} /\ b = 0 -> Err
    [] fn \in {"/", "div"} /\ b # 0            -> ToString(Quotient(a, b))
    [] fn = "%" /\ b # 0                      -> ToString(Remainder(a, b))
    [] fn = "mod" /\ b # 0                    -> ToString(builtinMod(a, b))

OnText(fn, v) == CASE fn = "hash"  -> ToString(Hash(v))
                   [] fn = "str"   -> v
                   [] fn = "lower" -> Lower(v)
                   [] fn = "upper" -> Upper(v)

Apply(fn, args) ==
  CASE fn \in IntFunctions ->
         IF Len(args) = 2 /\ \A i \in DOMAIN args : Int64(args[i]) # {}
           THEN OnInts(fn, CHOOSE a \in Int64(args[1]) : TRUE, CHOOSE b \in Int64(args[2]) : TRUE)
           ELSE Err
    [] fn \in TextFunctions -> IF Len(args) = 1 THEN OnText(fn, args[1]) ELSE Err
    [] fn = "concat"        -> IF Len(args) >= 2 THEN FlattenSeq(args) ELSE Err
    [] OTHER                -> Err

-----------------------------------------------------------------------------
(* Syntax trees: literals, @{col}, ${var}, and operators and functions     *)
(* with their arguments.                                                   *)

Lit(v)         == [kind |-> "lit", name |-> v, args |-> <<>>]
Col(c)         == [kind |-> "col", name |-> c, args |-> <<>>]
Var(v)         == [kind |-> "var", name |-> v, args |-> <<>>]
Call(fn, args) == [kind |-> "call", name |-> fn, args |-> args]

RECURSIVE Nodes(_)
Nodes(e) == {e} \cup UNION {Nodes(e.args[i]) : i \in DOMAIN e.args}

Names(kind, e) == {n.name : n \in {m \in Nodes(e) : m.kind = kind}}

VarRefs(e)  == Names("var", e)
ColRefs(e)  == Names("col", e)
FuncRefs(e) == Names("call", e)

RECURSIVE Eval(_, _, _)
Eval(e, vars, cols) ==
  LET args == [i \in DOMAIN e.args |-> Eval(e.args[i], vars, cols)]
  IN CASE e.kind = "lit" -> e.name
       [] e.kind = "col" -> IF e.name \in DOMAIN cols THEN cols[e.name] ELSE Err
       [] e.kind = "var" -> IF e.name \in DOMAIN vars THEN vars[e.name] ELSE Err
       [] OTHER          -> IF Err \in Range(args) THEN Err ELSE Apply(e.name, args)

-----------------------------------------------------------------------------
(* Templates: sequences of literals and variables.                         *)

TemplateVars(t) == {p.name : p \in {q \in Range(t) : q.kind = "var"}}

EvalTemplate(t, vars) ==
  IF TemplateVars(t) \subseteq DOMAIN vars
    THEN FlattenSeq([i \in DOMAIN t |-> IF t[i].kind = "var" THEN vars[t[i].name] ELSE t[i].name])
    ELSE Err
=============================================================================
