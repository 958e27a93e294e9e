----------------------------- MODULE RuleEngine -----------------------------
(***************************************************************************)
(* rule-engine.service.ts: how the conditions of a rule read a payload,    *)
(* and what the ways a rule is written (the seed script, POST and PATCH)   *)
(* leave of the conditions a tenant asked for.                             *)
(*                                                                         *)
(* A JSON value is what the engine can tell of it: its kind, the text that *)
(* String() and the number that Number() make of it, and what is inside an *)
(* object or array, by key. A dot-path is the sequence of its keys. An     *)
(* object with a `toString` of its own, not callable in JSON, has no text  *)
(* and no number: String() and Number() throw. Not modelled: properties    *)
(* that are not data, such as the length of a string.                      *)
(***************************************************************************)
EXTENDS Integers, SequencesExt

CONSTANTS
  Payloads,     \* the payloads of events
  Conditions,   \* the conditions a request may carry
  MaxLength,    \* conditions in one request, at most
  Values,       \* the values in payloads and conditions, and inside of those
  NumberOf,     \* the number that Number() reads in a text
  Within,       \* <<a, b>> if text a occurs in text b
  NaN,          \* not a number
  None          \* no rule; a `conditions` or `field` that is not of its type; no text

Operators == {"equals", "gt", "contains"}

Lists == UNION {[1 .. n -> Conditions] : n \in 0 .. MaxLength}

Undefined == [kind |-> "undefined", text |-> "undefined", num |-> NaN, inner |-> <<>>]

\* What may become of a condition between the request and the database.
RuleCondition == [field    : {c.field : c \in Conditions},
                  operator : {c.operator : c \in Conditions},
                  value    : {c.value : c \in Conditions} \cup {Undefined}]

StoredLists == UNION {[1 .. n -> RuleCondition] : n \in 0 .. MaxLength}

ASSUME EngineAssumption ==
  /\ MaxLength \in Nat
  /\ Conditions \subseteq RuleCondition
  /\ None \notin StoredLists

\* An array has the text that join() makes of its elements' texts.
HasNoText(v) ==
  \/ v.kind = "object" /\ "toString" \in DOMAIN v.inner
  \/ v.kind = "array"  /\ \E key \in DOMAIN v.inner : v.inner[key].text = None

\* Number() takes an object or array by its text. Only booleans and null have numbers
\* that their texts have not.
ASSUME ValuesAssumption ==
  /\ Payloads \cup {c.value : c \in Conditions} \cup {Undefined} \subseteq Values
  /\ \A c \in Conditions : c.field # None => c.field \in Seq(STRING)
  /\ \A v \in Values : \A key \in DOMAIN v.inner : v.inner[key] \in Values
  /\ \A v \in Values : v.text = None <=> HasNoText(v)
  /\ \A v \in Values : v.num = NaN \/ v.num \in Int
  /\ \A v \in Values :
       IF v.kind \in {"boolean", "null"}
         THEN /\ \/ v.text = "true" /\ v.num = 1
                 \/ v.text \in {"false", "null"} /\ v.num = 0
              /\ NumberOf[v.text] = NaN
         ELSE v.text # None => v.num = NumberOf[v.text]

VARIABLES
  asked,     \* the conditions the tenant wrote last
  stored,    \* those the database has
  written    \* how they were written

vars == <<asked, stored, written>>

RuleTypeOK ==
  /\ written \in {"none", "seed", "post", "patch"}
  /\ asked \in Lists \cup {None}
  /\ stored \in StoredLists \cup {None}

Init == asked = None /\ stored = None /\ written = "none"

-----------------------------------------------------------------------------
(* Evaluation.                                                             *)

Inner(value, key) ==
  IF key \in DOMAIN value.inner THEN value.inner[key] ELSE Undefined

\* The value that the first keys of the path lead to, one more at a time.
GetField(payload, path) ==
  LET value[n \in 0 .. Len(path)] ==
        IF n = 0 THEN payload ELSE Inner(value[n - 1], path[n])
  IN value[Len(path)]

\* includes() compares elements as SameValueZero does; objects and arrays from
\* different documents are never the same.
SameElement(v, w) ==
  /\ v.kind = w.kind /\ v.kind \notin {"object", "array"}
  /\ v.text = w.text

\* Mutant of Greater: a comparison with NaN is not false.
NotLess(v, w) == ~(v.num # NaN /\ w.num # NaN /\ v.num < w.num)

Greater(v, w) == v.num # NaN /\ w.num # NaN /\ v.num > w.num

Includes(v, w) ==
  \/ v.kind = "string" /\ <<w.text, v.text>> \in Within
  \/ v.kind = "array"  /\ \E key \in DOMAIN v.inner : SameElement(v.inner[key], w)

Holds(payload, c) ==
  LET actual == GetField(payload, c.field)
  IN \/ c.operator = "equals"   /\ actual.text = c.value.text
     \/ c.operator = "gt"       /\ Greater(actual, c.value)
     \/ c.operator = "contains" /\ Includes(actual, c.value)

\* path.split of something that is not a string, String() or Number() of something
\* without a text. Of an array, includes() takes no text.
Throws(payload, c) ==
  \/ c.field = None
  \/ LET actual == GetField(payload, c.field)
     IN \/ c.operator \in {"equals", "gt"} /\ None \in {actual.text, c.value.text}
        \/ c.operator = "contains" /\ actual.kind = "string" /\ c.value.text = None

Passes(payload, c) == ~Throws(payload, c) /\ Holds(payload, c)

Fails(payload, c) == ~Throws(payload, c) /\ ~Holds(payload, c)

\* Mutant of Verdict: the outcome of the last condition stands.
LastVerdict(payload, conditions) ==
  IF conditions = None THEN "throw"
  ELSE IF conditions = <<>> THEN "match"
  ELSE IF Throws(payload, Last(conditions)) THEN "throw"
  ELSE IF Fails(payload, Last(conditions)) THEN "skip" ELSE "match"

\* matches(): every() stops at the first condition that fails, or throws. It is
\* no method of null.
Verdict(payload, conditions) ==
  IF conditions = None THEN "throw"
  ELSE IF \E i \in DOMAIN conditions :
            /\ Fails(payload, conditions[i])
            /\ \A k \in 1 .. i - 1 : ~Throws(payload, conditions[k])
    THEN "skip"
  ELSE IF \E i \in DOMAIN conditions : Throws(payload, conditions[i])
    THEN "throw"
  ELSE "match"

-----------------------------------------------------------------------------
(* Writing a rule.                                                         *)

\* Mutant of Valid: the field of a condition is not checked.
ValidOperators(conditions) ==
  \A i \in DOMAIN conditions : conditions[i].operator \in Operators

\* The decorators of CreateRuleDto.
Valid(conditions) ==
  \A i \in DOMAIN conditions : /\ conditions[i].field # None
                               /\ conditions[i].operator \in Operators

\* Mutant of Whitelisted: the whole condition is stripped.
NothingLeft(conditions) == [i \in DOMAIN conditions |-> [field |-> Undefined]]

\* The pipe removes properties without a decorator, and `value` has none.
Whitelisted(conditions) ==
  [i \in DOMAIN conditions |-> [field    |-> conditions[i].field,
                                operator |-> conditions[i].operator,
                                value    |-> Undefined]]

Write(wish, result, way) == asked' = wish /\ stored' = result /\ written' = way

\* The rules of the script are literals that pass the checks, their values have texts.
Seed(wish) ==
  /\ written = "none"
  /\ Valid(wish)
  /\ \A i \in DOMAIN wish : wish[i].value.text # None
  /\ Write(wish, wish, "seed")

\* POST /rules. A body that is not valid is answered 400 and changes nothing.
Post(wish) ==
  /\ written = "none"
  /\ Valid(wish)
  /\ Write(wish, Whitelisted(wish), "post")

\* PATCH /rules/:id. Partial<CreateRuleDto> is no class at run time: the pipe
\* lets every body through, null for the conditions included.
Patch(wish) ==
  /\ written # "none"
  /\ Write(wish, wish, "patch")

Next == \/ \E wish \in Lists : Seed(wish) \/ Post(wish)
        \/ \E wish \in Lists \cup {None} : Patch(wish)

Spec == Init /\ [][Next]_vars

-----------------------------------------------------------------------------
(* Properties.                                                             *)

\* Nothing in the worker catches an exception of matches(), which then fails every
\* attempt of the event (webhook.processor.ts:83). A rule that was never patched has
\* no part in it, whatever was asked for in its conditions: it throws only where the
\* payload has something without a text at the field of a condition that compares
\* texts or numbers (rule-engine.service.ts:6-12, 25, 28).
UnpatchedThrowsOnNoText ==
  written \in {"seed", "post"} =>
    \A p \in Payloads :
      Verdict(p, stored) = "throw" =>
        \E i \in DOMAIN stored : /\ stored[i].field # None
                                 /\ stored[i].operator \in {"equals", "gt"}
                                 /\ GetField(p, stored[i].field).text = None

\* What equals its bound is not greater, though one operator compares texts and
\* the other numbers, and texts like "true" and "null" have no number where the
\* values they are the text of have one (rule-engine.service.ts:25-28).
EqualExcludesGreater ==
  written # "none" /\ stored # None =>
    \A i \in DOMAIN stored, p \in Payloads :
      ~ /\ Passes(p, [stored[i] EXCEPT !.operator = "equals"])
        /\ Passes(p, [stored[i] EXCEPT !.operator = "gt"])

\* Conditions are AND-combined (rule.schema.ts:46): although evaluation stops
\* early, and may be ended by an exception, in which order they are written does
\* not change which events a rule matches (rule-engine.service.ts:44-47).
MatchIsOrderFree ==
  written # "none" /\ stored # None =>
    \A p \in Payloads :
      Verdict(p, stored) = "match" <=> Verdict(p, Reverse(stored)) = "match"

\* 'covers "status" === "paid" and numeric matches like total === 500'
\* (rule-engine.service.ts:23-24): a rule reads a payload as the conditions the
\* tenant wrote read it.
AskedIsEvaluated ==
  written # "none" =>
    \A p \in Payloads : Verdict(p, stored) = Verdict(p, asked)

=============================================================================
