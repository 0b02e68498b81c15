------------------------------ MODULE Markers -------------------------------
(***************************************************************************)
(* Environment markers (crates/vyp-api/src/types/marker.rs): a recursive   *)
(* descent parser that never fails, since what it cannot read is true, and *)
(* the evaluation of the tree it makes.  Tokens are <<"variable", name>>,  *)
(* <<"string", value>>, <<"op", operator>>, <<"and">>, <<"or">>, <<"(">>,  *)
(* <<")">> and <<"junk">>, which starts no value and no operator.  A value *)
(* has its text, the words of it, and the numbers between its dots.        *)
(***************************************************************************)
EXTENDS Versions, SequencesExt

CONSTANTS
    Place,      \* the place of a text in the order of strings
    Within      \* pairs of texts, the first contained in the second

VersionVariable ==
    {"python_version", "python_full_version", "implementation_version"}

-----------------------------------------------------------------------------
(* The parser.                                                             *)

True == [node |-> "true"]

\* A parse that failed, after it consumed what is before rest.
NoTree(rest) == [tree |-> [node |-> "none"], rest |-> rest]

Failed(parsed) == parsed.tree.node = "none"

NextIs(kind, tokens) == tokens # <<>> /\ Head(tokens)[1] = kind

NextIsValue(tokens) == NextIs("variable", tokens) \/ NextIs("string", tokens)

Word(text) == <<"string", [text |-> text, tuple |-> <<>>, words |-> {text}]>>

\* parse_marker_value: where a value is expected a keyword is a text, and "not in"
\* is two words.
AsValue(tokens) ==
    CASE NextIs("and", tokens) \/ NextIs("or", tokens) ->
            <<Word(tokens[1][1])>> \o Tail(tokens)
      [] NextIs("op", tokens) /\ tokens[1][2] = "in" ->
            <<Word("in")>> \o Tail(tokens)
      [] NextIs("op", tokens) /\ tokens[1][2] = "not in" ->
            <<Word("not"), <<"op", "in">>>> \o Tail(tokens)
      [] OTHER -> tokens

\* invert_op
Inverted(op) ==
    CASE op = ">=" -> "<=" [] op = "<=" -> ">=" [] op = ">" -> "<"
      [] op = "<" -> ">" [] OTHER -> op

IsExtra(value) == value = <<"variable", "extra">>

IsString(value) == value[1] = "string"

ExtraTree(name, op) ==
    IF op \in {"==", "!="}
    THEN [node |-> "extra", name |-> name, equal |-> op = "=="] ELSE True

Compare(lhs, op, rhs) ==
    [node |-> "compare", lhs |-> lhs, op |-> op, rhs |-> rhs]

\* The normal forms: extras, lists of versions, the variable on the left.
Comparison(lhs, op, rhs) ==
    CASE IsExtra(lhs) /\ IsString(rhs) -> ExtraTree(rhs[2].text, op)
      [] IsExtra(rhs) /\ IsString(lhs) -> ExtraTree(lhs[2].text, op)
      [] /\ op \in {"in", "not in"} /\ ~IsString(lhs) /\ IsString(rhs)
         /\ lhs[2] \in VersionVariable /\ rhs[2].words # {} ->
            [node |-> "version_in", key |-> lhs[2], versions |-> rhs[2].words,
             negated |-> op = "not in"]
      [] IsString(lhs) /\ ~IsString(rhs) -> Compare(rhs, Inverted(op), lhs)
      [] OTHER -> Compare(lhs, op, rhs)

\* parse_comparison: a value, an operator and a value.
ParseComparison(tokens) ==
    LET left == AsValue(tokens)
        right == AsValue(SubSeq(left, 3, Len(left)))
    IN  IF ~NextIsValue(left) THEN NoTree(left)
        ELSE IF ~NextIs("op", Tail(left)) THEN NoTree(Tail(left))
        ELSE IF ~NextIsValue(right) THEN NoTree(right)
        ELSE [tree |-> Comparison(left[1], left[2][2], right[1]),
              rest |-> Tail(right)]

RECURSIVE Parsed(_, _), MoreOperands(_, _, _), Atom(_)

\* "and" binds more closely than "or".
Operand(word, tokens) ==
    IF word = "or" THEN Parsed("and", tokens) ELSE Atom(tokens)

\* parse_or and parse_and: operands separated by their word.
Parsed(word, tokens) ==
    LET first == Operand(word, tokens)
    IN  IF Failed(first) THEN first
        ELSE MoreOperands(word, <<first.tree>>, first.rest)

\* An operand that cannot be read after the word is left out.
MoreOperands(word, children, tokens) ==
    IF NextIs(word, tokens)
    THEN LET next == Operand(word, Tail(tokens))
         IN  MoreOperands(word,
                          IF Failed(next) THEN children
                          ELSE Append(children, next.tree),
                          next.rest)
    ELSE [tree |-> IF Len(children) = 1 THEN children[1]
                   ELSE [node |-> word, children |-> children],
          rest |-> tokens]

\* parse_atom: a closing parenthesis may be missing.
Atom(tokens) ==
    IF ~NextIs("(", tokens) THEN ParseComparison(tokens)
    ELSE LET inner == Parsed("or", Tail(tokens))
         IN  IF ~Failed(inner) /\ NextIs(")", inner.rest)
             THEN [inner EXCEPT !.rest = Tail(@)] ELSE inner

\* MarkerTree::parse: what follows the expression is not looked at.
Parse(tokens) ==
    LET parsed == Parsed("or", tokens)
    IN  IF Failed(parsed) THEN True ELSE parsed.tree

-----------------------------------------------------------------------------
(* Evaluation.  An environment gives a value to every variable.            *)

Lookup(value, env) == IF IsString(value) THEN value[2] ELSE env[value[2]]

Padded(tuple, len) ==
    [i \in 1..len |-> IF i \in DOMAIN tuple THEN tuple[i] ELSE 0]

\* compare_version_tuples
CompareTuples(l, op, r) ==
    LET len == Longest(l, r)
        left == Padded(l, len)
        right == Padded(r, len)
    IN  CASE op = "==" -> left = right
          [] op = "!=" -> left # right
          [] op = ">=" -> ~KeyLess(left, right)
          [] op = "<=" -> ~KeyLess(right, left)
          [] op = ">" -> KeyLess(right, left)
          [] op = "<" -> KeyLess(left, right)
          [] op = "~=" ->
                /\ ~KeyLess(left, right)
                /\ Len(r) >= 2 =>
                     KeyLess(left, Padded(BumpLast(Front(r)), len))

\* compare_strings
CompareTexts(l, op, r) ==
    CASE op \in {"==", "~="} -> l = r
      [] op = "!=" -> l # r
      [] op = ">=" -> Place[l] >= Place[r]
      [] op = "<=" -> Place[l] <= Place[r]
      [] op = ">" -> Place[l] > Place[r]
      [] op = "<" -> Place[l] < Place[r]
      [] op = "in" -> <<l, r>> \in Within
      [] op = "not in" -> <<l, r>> \notin Within

\* eval_compare: numbers if there is a version variable on one side and both
\* sides have some, else texts.
EvalCompare(lhs, op, rhs, env) ==
    LET left == Lookup(lhs, env)
        right == Lookup(rhs, env)
        versions == \E value \in {lhs, rhs} :
                       ~IsString(value) /\ value[2] \in VersionVariable
    IN  IF /\ versions /\ op \notin {"in", "not in"}
           /\ left.tuple # <<>> /\ right.tuple # <<>>
        THEN CompareTuples(left.tuple, op, right.tuple)
        ELSE CompareTexts(left.text, op, right.text)

RECURSIVE Evaluate(_, _, _)

Evaluate(tree, env, extras) ==
    CASE tree.node = "true" -> TRUE
      [] tree.node = "and" ->
            \A i \in DOMAIN tree.children :
                Evaluate(tree.children[i], env, extras)
      [] tree.node = "or" ->
            \E i \in DOMAIN tree.children :
                Evaluate(tree.children[i], env, extras)
      [] tree.node = "extra" -> (tree.name \in extras) = tree.equal
      [] tree.node = "version_in" ->
            (env[tree.key].text \in tree.versions) # tree.negated
      [] tree.node = "compare" ->
            EvalCompare(tree.lhs, tree.op, tree.rhs, env)

\* A marker that is parsed and evaluated, when no extra is asked for.
MarkerHolds(tokens, env) == Evaluate(Parse(tokens), env, {})
=============================================================================
