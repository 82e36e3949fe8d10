---------------------------- MODULE MCExprRules ----------------------------
(* Rules as in db/docs/sharding_guide.md and variations of them.           *)
EXTENDS ExprRules

MCHash(v)  == CASE v = "-1" -> 7 [] v = "0" -> 4 [] v = "1" -> 2 [] v = "2" -> 9 [] OTHER -> 5
MCLower(v) == CASE v = "SG" -> "sg" [] v = "TH" -> "th" [] OTHER -> v
MCUpper(v) == CASE v = "sg" -> "SG" [] v = "th" -> "TH" [] OTHER -> v

range(v, a, b) == [op |-> ":=", var |-> v, kind |-> "range", start |-> a, end |-> b]
enum(v, vs)    == [op |-> ":=", var |-> v, kind |-> "enum", values |-> vs]
let(v, e)      == [op |-> "=", var |-> v, expr |-> e]
rule(k, t, ls) == [kind |-> k, tmpl |-> t, lines |-> ls]

shop == Col("shop")
index == let("index", Call("fill", <<Var("idx"), Lit("2")>>))
table_index == <<Var("table"), Lit("_"), Var("index")>>

MCConfigs ==
  { (* shop_id % 2, zero-padded *)
    rule("table", table_index,
         {range("idx", 0, 2), let("idx", Call("%", <<shop, Lit("2")>>)), index}),
    (* a range that does not begin at 0, by way of a hash *)
    rule("table", table_index,
         {range("idx", 1, 4), let("h", Call("hash", <<shop>>)),
          let("idx", Call("+", <<Call("mod", <<Var("h"), Lit("3")>>), Lit("1")>>)), index}),
    (* an enum picks the table *)
    rule("table", <<Var("table"), Lit("_"), Var("zone")>>,
         {enum("region", <<"SG", "TH">>), let("region", Call("upper", <<Col("region")>>)),
          let("zone", Call("lower", <<Call("str", <<Var("region")>>)>>))}),
    (* two declared variables: ShardName counts through one of them *)
    rule("table", <<Var("table"), Lit("_"), Var("region"), Lit("_"), Var("idx")>>,
         {enum("region", <<"SG", "TH">>), let("region", Col("region")),
          range("idx", 0, 2), let("idx", Call("mod", <<shop, Lit("2")>>))}),
    (* no declaration *)
    rule("table", <<Var("table")>>, {}),
    (* a database per inferred region and computed index *)
    rule("db", <<Lit("db_"), Var("region"), Lit("_"), Var("idx")>>,
         {enum("region", <<"SG", "TH">>), range("idx", 0, 2),
          let("idx", Call("mod", <<Call("div", <<shop, Lit("2")>>), Lit("2")>>))}),
    (* two expressions meet in a third *)
    rule("db", <<Lit("db_"), Var("d")>>,
         {range("a", 0, 2), let("a", Call("mod", <<shop, Lit("2")>>)),
          let("b", Call("-", <<Lit("2"), Var("a")>>)),
          let("d", Call("concat", <<Var("b"), Call("*", <<Var("a"), Var("b")>>)>>))}),
    (* division by zero for one shop *)
    rule("db", <<Lit("db_"), Var("idx")>>,
         {range("idx", 0, 3), let("idx", Call("/", <<Lit("2"), shop>>))}),
    (* an expression reads itself; two read each other; a variable nobody sets *)
    rule("table", <<Var("idx")>>, {range("idx", 0, 2), let("idx", Call("+", <<Var("idx"), Lit("1")>>))}),
    rule("db", <<Var("a")>>, {range("a", 0, 2), let("a", Var("b")), let("b", Var("a"))}),
    rule("table", <<Var("a")>>, {let("a", Var("b"))}),
    (* a computation reads the inferred region *)
    rule("db", <<Lit("db_"), Var("region"), Lit("_"), Var("zone")>>,
         {enum("region", <<"SG", "TH">>), let("zone", Call("lower", <<Var("region")>>))}),
    (* an empty range, an unknown function *)
    rule("table", <<Var("idx")>>, {range("idx", 2, 2)}),
    rule("table", <<Var("idx")>>, {let("idx", Call("rot13", <<shop>>))}) }

MCRows == [region : {"SG", "TH", "VN"}, shop : {"-1", "0", "1", "2", "3"}]
=============================================================================
