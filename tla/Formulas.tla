------------------------------- MODULE Formulas --------------------------------
(***************************************************************************)
(* The formula language of packages/shared/src/formula: tokenizer, parser, *)
(* evaluator and the probe a formula must pass before it is saved.         *)
(*                                                                         *)
(* A text is a sequence of characters.  The code's names (currentValue,    *)
(* max, ...) are one letter each here, and numbers are exact fractions     *)
(* where the code computes in doubles.  A form in which an administrator   *)
(* types a formula, one character at a time, is the machine.               *)
(* A definition marked "wrong" is a plausible slip in the code; no other   *)
(* definition uses it.                                                     *)
(***************************************************************************)
EXTENDS Integers, Sequences, FiniteSets, SequencesExt, FiniteSetsExt

CONSTANTS Variables,   \* FORMULA_CONTEXTS: the names a formula may read
          Arity,       \* FUNCTIONS: function name -> number of arguments
          Keyboards,   \* the sets of characters a behaviour types from
          MaxTyped,    \* bound on the length of the typed text
          MaxSource, MaxTokens, MaxNodes, MaxDepth   \* 200, 100, 100 and 16 in the code

VARIABLES keyboard,  \* the characters used in this behaviour
          typed      \* the text in the form

formulaVars == <<keyboard, typed>>

Digits == {"0", "1", "2", "3", "4", "5", "6", "7", "8", "9"}
Letters == Variables \cup DOMAIN Arity
Signs == {"+", "-"}
Operators == Signs \cup {"*", "/"}
Blank == " "

--------------------------------------------------------------------------------
(* tokenize.  A character that starts no token, and a number with a stray    *)
(* dot, make a BAD token, which ends the text: no expression contains one.   *)
CharAt(s, i) == IF i \in DOMAIN s THEN s[i] ELSE "end"

EndOfRun(s, i, class) == Min({j \in i .. (Len(s) + 1) : CharAt(s, j) \notin class})

Token(kind, s, i, next) == [kind |-> kind, text |-> SubSeq(s, i, next - 1), next |-> next]

NumberAt(s, i) ==
    LET dot == EndOfRun(s, i, Digits)
        end == IF CharAt(s, dot) = "." THEN EndOfRun(s, dot + 1, Digits) ELSE dot
    IN  IF end = dot + 1 \/ CharAt(s, end) = "." THEN Token("BAD", s, i, Len(s) + 1)
        ELSE Token("NUMBER", s, i, end)

TokenAt(s, i) ==
    CASE s[i] \in {"(", ")", ","} -> Token(s[i], s, i, i + 1)
      [] s[i] \in Operators       -> Token("OP", s, i, i + 1)
      [] s[i] \in Digits          -> NumberAt(s, i)
      [] s[i] \in Letters         -> Token("IDENT", s, i, EndOfRun(s, i, Letters \cup Digits \cup {"_"}))
      [] OTHER                    -> Token("BAD", s, i, Len(s) + 1)

RECURSIVE TokensFrom(_, _)
TokensFrom(s, i) ==
    IF i > Len(s) THEN <<>>
    ELSE IF s[i] = Blank THEN TokensFrom(s, i + 1)
    ELSE <<TokenAt(s, i)>> \o TokensFrom(s, TokenAt(s, i).next)

--------------------------------------------------------------------------------
(* The parser: recursive descent over the tokens.  A result is the node and  *)
(* the index of the next token; index 0 is a FormulaError.                   *)
Node(type, text, args) == [type |-> type, text |-> text, args |-> args]

Success(node, next) == [node |-> node, at |-> next]
Failure == Success(Node("None", <<>>, <<>>), 0)

KindAt(ts, i) == IF i \in DOMAIN ts THEN ts[i].kind ELSE "EOF"
OperatorIn(ts, i, ops) == KindAt(ts, i) = "OP" /\ ts[i].text[1] \in ops

RECURSIVE Level(_, _, _, _), ChainFrom(_, _, _, _), Unary(_, _, _), Primary(_, _, _),
          Arguments(_, _, _), Size(_)

(* expression and term: operands joined from left to right. *)
OperatorsOf(level) == IF level = "expression" THEN Signs ELSE Operators \ Signs

Operand(ts, i, level, d) == IF level = "expression" THEN Level(ts, i, "term", d) ELSE Unary(ts, i, d)

ChainFrom(ts, left, level, d) ==
    IF left.at = 0 \/ ~OperatorIn(ts, left.at, OperatorsOf(level)) THEN left
    ELSE LET right == Operand(ts, left.at + 1, level, d)
         IN  IF right.at = 0 THEN Failure
             ELSE ChainFrom(ts, Success(Node("Binary", ts[left.at].text, <<left.node, right.node>>),
                                        right.at), level, d)

(* wrong: the rest of the chain is the right operand. *)
LevelFromTheRight(ts, i, level, d) ==
    LET left  == Operand(ts, i, level, d)
        right == Level(ts, left.at + 1, level, d)
    IN  IF left.at = 0 \/ ~OperatorIn(ts, left.at, OperatorsOf(level)) THEN left
        ELSE IF right.at = 0 THEN Failure
        ELSE Success(Node("Binary", ts[left.at].text, <<left.node, right.node>>), right.at)

Level(ts, i, level, d) == ChainFrom(ts, Operand(ts, i, level, d), level, d)

Unary(ts, i, d) ==
    IF ~OperatorIn(ts, i, Signs) THEN Primary(ts, i, d)
    ELSE LET operand == IF d = MaxDepth THEN Failure ELSE Unary(ts, i + 1, d + 1)
         IN  IF operand.at = 0 THEN Failure
             ELSE Success(Node("Unary", ts[i].text, <<operand.node>>), operand.at)

(* The comma-separated expressions from token i; index 0 when one is broken. *)
Arguments(ts, i, d) ==
    LET first == Level(ts, i, "expression", d)
        rest  == Arguments(ts, first.at + 1, d)
    IN  IF first.at = 0 \/ KindAt(ts, first.at) # "," THEN [nodes |-> <<first.node>>, at |-> first.at]
        ELSE [nodes |-> <<first.node>> \o rest.nodes, at |-> rest.at]

Call(ts, i, d) ==
    LET args == Arguments(ts, i + 2, d + 1)
    IN  IF \/ d = MaxDepth
           \/ ts[i].text \notin {<<f>> : f \in DOMAIN Arity}
           \/ KindAt(ts, args.at) # ")"
           \/ Len(args.nodes) # Arity[ts[i].text[1]]
        THEN Failure
        ELSE Success(Node("Call", ts[i].text, args.nodes), args.at + 1)

Parenthesised(ts, i, d) ==
    LET inner == Level(ts, i + 1, "expression", d + 1)
    IN  IF d = MaxDepth \/ KindAt(ts, inner.at) # ")" THEN Failure
        ELSE Success(inner.node, inner.at + 1)

Primary(ts, i, d) ==
    CASE KindAt(ts, i) = "NUMBER" -> Success(Node("Number", ts[i].text, <<>>), i + 1)
      [] KindAt(ts, i) = "("      -> Parenthesised(ts, i, d)
      [] KindAt(ts, i) = "IDENT" /\ KindAt(ts, i + 1) = "(" -> Call(ts, i, d)
      [] KindAt(ts, i) = "IDENT" /\ KindAt(ts, i + 1) # "(" ->
            IF ts[i].text \in {<<v>> : v \in Variables}
            THEN Success(Node("Variable", ts[i].text, <<>>), i + 1) ELSE Failure
      [] OTHER -> Failure

Size(node) == 1 + FoldLeft(LAMBDA n, arg : n + Size(arg), 0, node.args)

(* wrong: what follows the expression is not looked at. *)
ParsedPrefix(s) ==
    {tree \in {Level(TokensFrom(s, 1), 1, "expression", 0)} : tree.at # 0}

(* parseFormula: the tree, if there is one. *)
Parsed(s) ==
    LET ts   == TokensFrom(s, 1)
        tree == Level(ts, 1, "expression", 0)
    IN  IF \/ Len(s) > MaxSource \/ Len(ts) + 1 > MaxTokens
           \/ tree.at # Len(ts) + 1
           \/ Size(tree.node) > MaxNodes
        THEN {} ELSE {tree}

--------------------------------------------------------------------------------
(* evaluateFormula.  A fraction with denominator 0 is NOT_FINITE.            *)
NotFinite == [num |-> 0, den |-> 0]
Finite(x) == x.den # 0
Exact(n, d) == IF d = 0 THEN NotFinite
               ELSE IF d < 0 THEN [num |-> -n, den |-> -d] ELSE [num |-> n, den |-> d]

Below(x, y) == x.num * y.den < y.num * x.den

Apply(op, x, y) ==
    IF ~Finite(x) \/ ~Finite(y) THEN NotFinite
    ELSE CASE op = "+" -> Exact(x.num * y.den + y.num * x.den, x.den * y.den)
           [] op = "-" -> Exact(x.num * y.den - y.num * x.den, x.den * y.den)
           [] op = "*" -> Exact(x.num * y.num, x.den * y.den)
           [] op = "/" -> Exact(x.num * y.den, x.den * y.num)

(* The functions by the letters they have here: floor, ceil, round, min, max. *)
CallOf(f, xs) ==
    IF \E i \in DOMAIN xs : ~Finite(xs[i]) THEN NotFinite
    ELSE CASE f = "f" -> Exact(xs[1].num \div xs[1].den, 1)
           [] f = "c" -> Exact(-((-xs[1].num) \div xs[1].den), 1)
           [] f = "r" -> Exact((2 * xs[1].num + xs[1].den) \div (2 * xs[1].den), 1)
           [] f = "l" -> IF Below(xs[1], xs[2]) THEN xs[1] ELSE xs[2]
           [] f = "m" -> IF Below(xs[1], xs[2]) THEN xs[2] ELSE xs[1]

DigitValue == [c \in Digits |-> CHOOSE n \in 0 .. 9 : ToString(n) = c]

NumberValue(text) ==
    FoldLeft(LAMBDA x, c : IF c = "." THEN [x EXCEPT !.scale = 1]
                           ELSE [num |-> 10 * x.num + DigitValue[c], scale |-> x.scale,
                                 den |-> IF x.scale = 1 THEN 10 * x.den ELSE x.den],
             [num |-> 0, den |-> 1, scale |-> 0], text)

RECURSIVE Evaluated(_, _)
Evaluated(node, env) ==
    LET args == [i \in DOMAIN node.args |-> Evaluated(node.args[i], env)]
        name == node.text[1]
    IN  CASE node.type = "Number"   -> Exact(NumberValue(node.text).num, NumberValue(node.text).den)
          [] node.type = "Variable" -> Exact(env[name], 1)
          [] node.type = "Unary"    -> IF name = "-" THEN Apply("-", Exact(0, 1), args[1]) ELSE args[1]
          [] node.type = "Binary"   -> Apply(name, args[1], args[2])
          [] node.type = "Call"     -> CallOf(name, args)

--------------------------------------------------------------------------------
FormulaInit == keyboard \in Keyboards /\ typed = <<>>

Type(c) ==
    /\ Len(typed) < MaxTyped
    /\ typed' = Append(typed, c)
    /\ UNCHANGED keyboard

FormulaNext == \E c \in keyboard : Type(c)

--------------------------------------------------------------------------------
(* The grammar of the language on its own terms: what a text may mean, by    *)
(* every way of cutting it, with the nesting the cut needs.  Blanks may      *)
(* stand around every part.                                                  *)
Trimmed(s) ==
    LET inked == {i \in DOMAIN s : s[i] # Blank}
    IN  IF inked = {} THEN <<>> ELSE SubSeq(s, Min(inked), Max(inked))

Inner(s) == SubSeq(s, 2, Len(s) - 1)

IsNumber(s) ==
    LET dots == {i \in DOMAIN s : s[i] = "."}
    IN  /\ s # <<>>
        /\ \A i \in DOMAIN s : s[i] \in Digits \cup {"."}
        /\ Cardinality(dots) <= 1
        /\ dots \cap {1, Len(s)} = {}

RECURSIVE Meanings(_, _)

Joined(s, ops, left, right) ==
    UNION {{[node |-> Node("Binary", <<s[k]>>, <<x.node, y.node>>), deep |-> Max({x.deep, y.deep})] :
               x \in Meanings(left, SubSeq(s, 1, k - 1)), y \in Meanings(right, SubSeq(s, k + 1, Len(s)))} :
           k \in {j \in DOMAIN s : s[j] \in ops}}

OfCall(f, s) ==
    IF s = <<>> \/ s[1] # "(" \/ s[Len(s)] # ")" THEN {}
    ELSE IF Arity[f] = 1
    THEN {[node |-> Node("Call", <<f>>, <<x.node>>), deep |-> x.deep + 1] :
             x \in Meanings("expression", Inner(s))}
    ELSE UNION {{[node |-> Node("Call", <<f>>, <<x.node, y.node>>), deep |-> Max({x.deep, y.deep}) + 1] :
                    x \in Meanings("expression", SubSeq(s, 2, k - 1)),
                    y \in Meanings("expression", SubSeq(s, k + 1, Len(s) - 1))} :
                k \in {j \in DOMAIN s : s[j] = ","}}

Meanings(symbol, text) ==
    LET s == Trimmed(text)
    IN  IF s = <<>> THEN {}
        ELSE CASE symbol = "expression" ->
                    Meanings("term", s) \cup Joined(s, Signs, "expression", "term")
               [] symbol = "term" ->
                    Meanings("unary", s) \cup Joined(s, Operators \ Signs, "term", "unary")
               [] symbol = "unary" ->
                    Meanings("primary", s)
                    \cup {[node |-> Node("Unary", <<s[1]>>, <<x.node>>), deep |-> x.deep + 1] :
                            x \in IF s[1] \in Signs THEN Meanings("unary", Tail(s)) ELSE {}}
               [] symbol = "primary" ->
                    (IF IsNumber(s) THEN {[node |-> Node("Number", s, <<>>), deep |-> 0]} ELSE {})
                    \cup {[node |-> Node("Variable", s, <<>>), deep |-> 0] : v \in {w \in Variables : s = <<w>>}}
                    \cup {[x EXCEPT !.deep = @ + 1] :
                            x \in IF s[1] = "(" /\ s[Len(s)] = ")" THEN Meanings("expression", Inner(s)) ELSE {}}
                    \cup UNION {OfCall(f, Trimmed(Tail(s))) : f \in {g \in DOMAIN Arity : s[1] = g}}

(* The one-pass tokenizer and parser accept exactly the texts the grammar    *)
(* gives a meaning within the depth limit, and build the one tree it gives:  *)
(* products before sums, both from the left, signs before either.            *)
ParserIsTheGrammar ==
    {tree.node : tree \in Parsed(typed)} =
        {x.node : x \in {y \in Meanings("expression", typed) : y.deep <= MaxDepth}}
================================================================================
