---------------------------- MODULE MCRuleEngine ----------------------------
(***************************************************************************)
(* An instance of RuleEngine for TLC: the fields of the sample webhooks,   *)
(* with values whose text and number disagree.                             *)
(***************************************************************************)
EXTENDS RuleEngine

Plain(kind, text, num) == [kind |-> kind, text |-> text, num |-> num, inner |-> <<>>]

Number500 == Plain("number", "500", 500)
Number40  == Plain("number", "40", 40)
String500 == Plain("string", "500", 500)
Price500  == Plain("string", "500.00", 500)
Paid      == Plain("string", "paid", NaN)
True      == Plain("boolean", "true", 1)
TrueText  == Plain("string", "true", NaN)
Null      == Plain("null", "null", 0)
NullText  == Plain("string", "null", NaN)
Tags      == [kind |-> "array", text |-> "paid,500", num |-> NaN,
              inner |-> [k \in {"0", "1"} |-> IF k = "0" THEN Paid ELSE String500]]

Object(fields) ==
  [kind  |-> "object",
   text  |-> IF "toString" \in DOMAIN fields THEN None ELSE "[object Object]",
   num   |-> NaN,
   inner |-> fields]

Textless == Object([toString |-> Number40])
Listed   == [kind |-> "array", text |-> None, num |-> NaN,
             inner |-> [k \in {"0", "1"} |-> IF k = "0" THEN Paid ELSE Textless]]

Order(total, country) ==
  Object([total_price |-> total, customer |-> Object([country |-> country])])

MCPayloads ==
  {Order(total, Paid) : total \in {Number500, Number40, String500, Price500, Paid,
                                   True, TrueText, Null, NullText, Tags,
                                   Textless, Listed}}
    \cup {Object([total_price |-> Object([total |-> Number500]), customer |-> Null]),
          Object([status |-> Paid])}

Condition(path, operator, value) == [field |-> path, operator |-> operator, value |-> value]

Total   == <<"total_price">>
Country == <<"customer", "country">>

MCConditions ==
  {Condition(Total, "equals", v) : v \in {Number500, Price500, True, NullText}}
    \cup {Condition(Total, "gt", v) : v \in {Number40, String500, Null, TrueText}}
    \cup {Condition(Total, "contains", v) : v \in {Paid, Number500, Textless}}
    \cup {Condition(Country, "equals", Paid), Condition(Country, "startsWith", Paid),
          Condition(None, "equals", Paid)}

MCValues ==
  LET outer == MCPayloads \cup {c.value : c \in MCConditions} \cup {Undefined}
      inside(S) == UNION {{v.inner[key] : key \in DOMAIN v.inner} : v \in S}
  IN outer \cup inside(outer) \cup inside(inside(outer)) \cup inside(inside(inside(outer)))

MCNumberOf ==
  [text \in {v.text : v \in MCValues} \ {None} |->
     CASE text \in {"500", "500.00"} -> 500 [] text = "40" -> 40 [] OTHER -> NaN]

MCWithin ==
  {<<v.text, v.text>> : v \in {Number500, Price500, Paid, TrueText, NullText}}
    \cup {<<"500", "500.00">>}

=============================================================================
