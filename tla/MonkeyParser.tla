---------------------------- MODULE MonkeyParser ----------------------------
(***************************************************************************)
(* Monkey's lexer and parser.  A token is a tuple that begins with its     *)
(* type; the trees are those of MonkeyEvaluator, with Missing for nullptr. *)
(* A line is entered, with slips or without, and parsed each time; or the  *)
(* characters of a text are read, a token a step.                          *)
(***************************************************************************)
EXTENDS Integers, Sequences, SequencesExt, FiniteSets

CONSTANTS Lines,            \* programs
          Slips,            \* the tokens typed by mistake
          MaxSlips,         \* bound
          MaxInt,           \* beyond it std::stoll throws std::out_of_range
          MaxText           \* bound: characters of a text

VARIABLES obj

NoBlock == <<<<"none">>>>
Missing == <<"nullptr">>
Eof == <<"eof">>

(***************************************************************************)
(* The parser: its tokens, the index of current_token_, the number of      *)
(* errors_, and dead if an exception or nullptr ends the program.          *)
(***************************************************************************)
Parser(tokens) == [tokens |-> tokens, at |-> 1, errors |-> 0, dead |-> FALSE]
Token(p, i) == IF i <= Len(p.tokens) THEN p.tokens[i] ELSE Eof
Current(p) == Token(p, p.at)[1]
Peek(p) == Token(p, p.at + 1)[1]
NextToken(p) == [p EXCEPT !.at = @ + 1]
Fail(p) == [p EXCEPT !.errors = @ + 1]
Die(p) == [p EXCEPT !.dead = TRUE]

Out(p, node) == [p |-> p, node |-> node]
\* expectPeek: on with Then from the token, or nothing.
Expect(p, type, Then(_)) == IF Peek(p) = type THEN Then(NextToken(p)) ELSE Out(Fail(p), Missing)
SkipSemicolon(p) == IF Peek(p) = ";" THEN NextToken(p) ELSE p

LOWEST == 1
PREFIX == 6
\* Mutant: the binding powers of comparisons, and of sums and products, are one.
PrecedenceFlat(type) ==
    CASE type \in {"==", "!=", "<", ">"} -> 3
      [] type \in {"+", "-", "/", "*"} -> 4
      [] type \in {"(", "["} -> 7
      [] OTHER -> 0
Precedence(type) ==
    CASE type \in {"==", "!="} -> 2
      [] type \in {"<", ">"} -> 3
      [] type \in {"+", "-"} -> 4
      [] type \in {"/", "*"} -> 5
      [] type = "(" -> 7
      [] type = "[" -> 8
      [] OTHER -> 0
PrefixFns == {"ident", "int", "string", "[", "{", "!", "-", "true", "false", "(", "if", "fn"}

RECURSIVE ParseExpression(_, _), Climb(_, _), ParseStatements(_, _, _), ParseExpressions(_, _, _), ParsePairs(_, _)

ParseExpressionList(p, end) ==
    IF Peek(p) = end THEN Out(NextToken(p), <<>>) ELSE ParseExpressions(NextToken(p), end, <<>>)
\* A comma is followed by an expression; an empty list if the end is missing.
MoreExpressions(e, end, list) ==
    IF Peek(e.p) = "," THEN ParseExpressions(NextToken(NextToken(e.p)), end, Append(list, e.node))
    ELSE IF Peek(e.p) = end THEN Out(NextToken(e.p), Append(list, e.node))
    ELSE Out(Fail(e.p), <<>>)
ParseExpressions(p, end, list) == MoreExpressions(ParseExpression(p, LOWEST), end, list)
Listed(type, l) == Out(l.p, <<type, l.node>>)

\* A comma may follow the last pair.
HashPair(pairs, key, v) ==
    IF Peek(v.p) = "}" THEN ParsePairs(v.p, Append(pairs, <<key, v.node>>))
    ELSE Expect(v.p, ",", LAMBDA q : ParsePairs(q, Append(pairs, <<key, v.node>>)))
HashKey(pairs, k) ==
    Expect(k.p, ":", LAMBDA q : HashPair(pairs, k.node, ParseExpression(NextToken(q), LOWEST)))
ParsePairs(p, pairs) ==
    IF Peek(p) = "}" THEN Out(NextToken(p), <<"hash", pairs>>)
    ELSE HashKey(pairs, ParseExpression(NextToken(p), LOWEST))

Closed(e, type, Node(_)) == Expect(e.p, type, LAMBDA q : Out(q, Node(e.node)))
ParseGrouped(p) == Closed(ParseExpression(NextToken(p), LOWEST), ")", LAMBDA e : e)
ParsePrefixExpression(op, e) == Out(e.p, <<"prefix", op, e.node>>)

\* A block ends at its brace or with the line.
ParseBlock(p) == ParseStatements(NextToken(p), {"}", "eof"}, <<>>)
Alternative(c, yes, no) == Out(no.p, <<"if", c, yes, no.node>>)
Consequence(c, yes) ==
    IF Peek(yes.p) = "else"
    THEN Expect(NextToken(yes.p), "{", LAMBDA q : Alternative(c, yes.node, ParseBlock(q)))
    ELSE Out(yes.p, <<"if", c, yes.node, NoBlock>>)
Condition(c) ==
    Expect(c.p, ")", LAMBDA q : Expect(q, "{", LAMBDA r : Consequence(c.node, ParseBlock(r))))
ParseIf(p) == Expect(p, "(", LAMBDA q : Condition(ParseExpression(NextToken(q), LOWEST)))

\* None if they are not names with commas between them, where the error is.
RECURSIVE ParseNames(_, _)
NamesOr(p, type, Then(_)) == IF Peek(p) = type THEN Then(NextToken(p)) ELSE Out(Fail(p), <<>>)
MoreNames(p, names) ==
    IF Peek(p) = "," THEN ParseNames(NextToken(p), names) ELSE NamesOr(p, ")", LAMBDA q : Out(q, names))
ParseNames(p, names) == NamesOr(p, "ident", LAMBDA q : MoreNames(q, Append(names, Token(q, q.at)[2])))
ParseFunctionParameters(p) == IF Peek(p) = ")" THEN Out(NextToken(p), <<>>) ELSE ParseNames(p, <<>>)
Body(params, b) == Out(b.p, <<"fn", "", params, b.node>>)
Parameters(ps) == Expect(ps.p, "{", LAMBDA q : Body(ps.node, ParseBlock(q)))
ParseFunctionLiteral(p) == Expect(p, "(", LAMBDA q : Parameters(ParseFunctionParameters(q)))

ParseInteger(p, i) == IF i > MaxInt THEN Out(Die(p), Missing) ELSE Out(p, <<"int", i>>)
ParsePrefix(p) ==
    LET type == Current(p)
        literal == Token(p, p.at)[2]
    IN  CASE type = "ident" -> Out(p, <<"id", literal>>)
          [] type = "int" -> ParseInteger(p, literal)
          [] type = "string" -> Out(p, <<"str", literal>>)
          [] type \in {"true", "false"} -> Out(p, <<"bool", type = "true">>)
          [] type = "[" -> Listed("array", ParseExpressionList(p, "]"))
          [] type = "{" -> ParsePairs(p, <<>>)
          [] type \in {"!", "-"} -> ParsePrefixExpression(type, ParseExpression(NextToken(p), PREFIX))
          [] type = "(" -> ParseGrouped(p)
          [] type = "if" -> ParseIf(p)
          [] type = "fn" -> ParseFunctionLiteral(p)

InfixRest(op, left, right) == Out(right.p, <<"infix", op, left, right.node>>)
CallRest(left, args) == Out(args.p, <<"call", left, args.node>>)
ParseInfix(p, left) ==
    CASE Current(p) = "(" -> CallRest(left, ParseExpressionList(p, ")"))
      [] Current(p) = "[" -> Closed(ParseExpression(NextToken(p), LOWEST), "]", LAMBDA i : <<"index", left, i>>)
      [] OTHER -> InfixRest(Current(p), left, ParseExpression(NextToken(p), Precedence(Current(p))))

\* parseExpression: a prefix, then infixes as long as they bind more tightly.
Climb(left, precedence) ==
    IF precedence >= Precedence(Peek(left.p)) THEN left
    ELSE Climb(ParseInfix(NextToken(left.p), left.node), precedence)
ParseExpression(p, precedence) ==
    IF Current(p) \notin PrefixFns THEN Out(Fail(p), Missing) ELSE Climb(ParsePrefix(p), precedence)

(***************************************************************************)
(* Statements.                                                             *)
(***************************************************************************)
\* The type of the value is asked for, also of nullptr.
Named(x, value) == IF value[1] = "fn" THEN [value EXCEPT ![2] = x] ELSE value
LetValue(x, v) == Out(IF v.node = Missing THEN Die(v.p) ELSE SkipSemicolon(v.p), <<"let", x, Named(x, v.node)>>)
LetName(p) ==
    Expect(p, "=", LAMBDA q : LetValue(Token(p, p.at)[2], ParseExpression(NextToken(q), LOWEST)))
Valued(type, e) == Out(SkipSemicolon(e.p), <<type, e.node>>)
ParseStatement(p) ==
    CASE Current(p) = "let" -> Expect(p, "ident", LetName)
      [] Current(p) = "return" -> Valued("return", ParseExpression(NextToken(p), LOWEST))
      [] OTHER -> Valued("expr", ParseExpression(p, LOWEST))

\* After an error the parser goes on behind the token where it stopped.
MoreStatements(s, ends, list) ==
    ParseStatements(NextToken(s.p), ends, IF s.node = Missing THEN list ELSE Append(list, s.node))
ParseStatements(p, ends, list) ==
    IF p.dead \/ Current(p) \in ends THEN Out(p, list) ELSE MoreStatements(ParseStatement(p), ends, list)

ParseProgram(tokens) == ParseStatements(Parser(tokens), {"eof"}, <<>>)

(***************************************************************************)
(* toString of a tree, as the tokens of the text.                          *)
(***************************************************************************)
RECURSIVE Shown(_)
Joined(texts, separator) ==
    FoldLeft(LAMBDA all, text : IF all = <<>> THEN text ELSE all \o separator \o text, <<>>, texts)
Comma == <<<<",">>>>
All(nodes) == [i \in DOMAIN nodes |-> Shown(nodes[i])]
BlockToString(nodes) == <<<<"{">>>> \o FlattenSeq(All(nodes)) \o <<<<"}">>>>
StatementToString(node) ==
    CASE node[1] = "let" -> <<<<"let">>, <<"ident", node[2]>>, <<"=">>>> \o Shown(node[3]) \o <<<<";">>>>
      [] node[1] = "return" -> <<<<"return">>>> \o Shown(node[2]) \o <<<<";">>>>
      [] node[1] = "expr" -> Shown(node[2])
\* A string without its quotes.
LiteralToString(node) ==
    CASE node[1] = "id" -> <<<<"ident", node[2]>>>>
      [] node[1] = "bool" -> <<<<IF node[2] THEN "true" ELSE "false">>>>
      [] node[1] = "int" -> <<node>>
      [] node[1] = "str" -> <<<<"ident", node[2]>>>>
      [] node[1] = "array" -> <<<<"[">>>> \o Joined(All(node[2]), Comma) \o <<<<"]">>>>
      [] node[1] = "hash" ->
           <<<<"{">>>> \o Joined([i \in DOMAIN node[2] |-> Shown(node[2][i][1]) \o <<<<":">>>> \o Shown(node[2][i][2])], Comma)
           \o <<<<"}">>>>
IfToString(node) ==
    <<<<"if">>>> \o Shown(node[2]) \o BlockToString(node[3])
    \o IF node[4] = NoBlock THEN <<>> ELSE <<<<"else">>>> \o BlockToString(node[4])
FunctionToString(node) ==
    (IF node[2] = "" THEN <<<<"fn">>>> ELSE <<<<"<">>, <<"fn">>, <<">">>>>)
    \o <<<<"(">>>> \o Joined([i \in DOMAIN node[3] |-> <<<<"ident", node[3][i]>>>>], Comma) \o <<<<")">>>>
    \o BlockToString(node[4])
Shown(node) ==
    CASE node[1] \in {"let", "return", "expr"} -> StatementToString(node)
      [] node[1] = "index" ->
           <<<<"(">>>> \o Shown(node[2]) \o <<<<"[">>>> \o Shown(node[3]) \o <<<<"]">>, <<")">>>>
      [] node[1] = "prefix" -> <<<<"(">>, <<node[2]>>>> \o Shown(node[3]) \o <<<<")">>>>
      [] node[1] = "infix" -> <<<<"(">>>> \o Shown(node[3]) \o <<<<node[2]>>>> \o Shown(node[4]) \o <<<<")">>>>
      [] node[1] = "if" -> IfToString(node)
      [] node[1] = "fn" -> FunctionToString(node)
      [] node[1] = "call" -> Shown(node[2]) \o <<<<"(">>>> \o Joined(All(node[3]), Comma) \o <<<<")">>>>
      [] OTHER -> LiteralToString(node)
ProgramToString(nodes) == FlattenSeq(All(nodes))

(***************************************************************************)
(* The lexer: the token of the text at a position, from its first          *)
(* character to before `to`, and the position after it.                    *)
(***************************************************************************)
Letters == {"f", "n"}                \* fn is a keyword
Digits == {"1"}
Blank == " "
Quote == "\""
Characters == Letters \union Digits \union {Blank, Quote, "=", "!", ",", "?"}

At(text, i) == IF i <= Len(text) THEN text[i] ELSE "eof"
\* The first position from i on that holds none of the characters, or the end.
Past(text, i, characters) ==
    CHOOSE k \in i..Len(text) + 1 :
        At(text, k) \notin characters /\ \A j \in i..k - 1 : text[j] \in characters

Lexed(type, from, to, next) == [type |-> type, from |-> from, to |-> to, next |-> next]
Operator(text, i, one, two) ==
    IF At(text, i + 1) = "=" THEN Lexed(two, i, i + 2, i + 2) ELSE Lexed(one, i, i + 1, i + 1)
Word(text, i, to) == Lexed(IF SubSeq(text, i, to - 1) = <<"f", "n">> THEN "fn" ELSE "ident", i, to, to)
\* To the next quote, or to the end.
String(text, i, to) == Lexed("string", i + 1, to, IF At(text, to) = Quote THEN to + 1 ELSE to)
TokenAt(text, i) ==
    LET c == At(text, i)
    IN  CASE c = "=" -> Operator(text, i, "=", "==")
          [] c = "!" -> Operator(text, i, "!", "!=")
          [] c = "," -> Lexed(",", i, i + 1, i + 1)
          [] c = "eof" -> Lexed("eof", i, i, i)
          [] c = Quote -> String(text, i, Past(text, i + 1, Characters \ {Quote}))
          [] c \in Letters -> Word(text, i, Past(text, i, Letters \union Digits))
          [] c \in Digits -> LET to == Past(text, i, Digits) IN Lexed("int", i, to, to)
          [] OTHER -> Lexed("illegal", i, i + 1, i + 1)
LexerNextToken(text, position) == TokenAt(text, Past(text, position, {Blank}))

-----------------------------------------------------------------------------
(* The tokens of a program with as few parentheses as the binding powers   *)
(* ask for, written without regard to how the parser works: a node in a    *)
(* place that asks for a binding of at least `least`.                      *)
RECURSIVE Written(_, _)
\* As the tests of the parser have it: a comparison binds weaker than a sum, and so on.
Binding(op) == 1 + CHOOSE k \in 1..4 : op \in <<{"==", "!="}, {"<", ">"}, {"+", "-"}, {"*", "/"}>>[k]
Enclosed(tokens, binding, least) == IF binding < least THEN <<<<"(">>>> \o tokens \o <<<<")">>>> ELSE tokens
Listing(nodes) == Joined([i \in DOMAIN nodes |-> Written(nodes[i], LOWEST)], Comma)
Block(nodes) == <<<<"{">>>> \o Joined([i \in DOMAIN nodes |-> Written(nodes[i], LOWEST)], <<<<";">>>>) \o <<<<"}">>>>
Written(node, least) ==
    CASE node[1] = "let" -> <<<<"let">>, <<"ident", node[2]>>, <<"=">>>> \o Written(node[3], LOWEST)
      [] node[1] = "return" -> <<<<"return">>>> \o Written(node[2], LOWEST)
      [] node[1] = "expr" -> Written(node[2], LOWEST)
      [] node[1] = "str" -> <<<<"string", node[2]>>>>
      [] node[1] = "hash" ->
           <<<<"{">>>> \o Joined([i \in DOMAIN node[2] |-> Written(node[2][i][1], LOWEST) \o <<<<":">>>> \o Written(node[2][i][2], LOWEST)], Comma)
           \o <<<<"}">>>>
      [] node[1] = "array" -> <<<<"[">>>> \o Listing(node[2]) \o <<<<"]">>>>
      [] node[1] = "infix" ->
           LET binding == Binding(node[2])
           IN  Enclosed(Written(node[3], binding) \o <<<<node[2]>>>> \o Written(node[4], binding + 1), binding, least)
      [] node[1] = "prefix" -> Enclosed(<<<<node[2]>>>> \o Written(node[3], PREFIX), PREFIX, least)
      [] node[1] = "call" -> Written(node[2], PREFIX + 1) \o <<<<"(">>>> \o Listing(node[3]) \o <<<<")">>>>
      [] node[1] = "index" -> Written(node[2], PREFIX + 1) \o <<<<"[">>>> \o Written(node[3], LOWEST) \o <<<<"]">>>>
      [] node[1] = "if" ->
           <<<<"if">>, <<"(">>>> \o Written(node[2], LOWEST) \o <<<<")">>>> \o Block(node[3])
           \o IF node[4] = NoBlock THEN <<>> ELSE <<<<"else">>>> \o Block(node[4])
      [] node[1] = "fn" ->
           <<<<"fn">>, <<"(">>>> \o Joined([i \in DOMAIN node[3] |-> <<<<"ident", node[3][i]>>>>], Comma) \o <<<<")">>>> \o Block(node[4])
      [] node = Missing -> <<Eof>>
      [] OTHER -> LiteralToString(node)
Text(nodes) == Joined([i \in DOMAIN nodes |-> Written(nodes[i], LOWEST)], <<<<";">>>>)

(***************************************************************************)
(* A line is typed with slips, or a text character by character.           *)
(***************************************************************************)
Entered(line, tokens, slips) ==
    [what |-> "line", line |-> line, tokens |-> tokens, slips |-> slips, parsed |-> ParseProgram(tokens)]
Init ==
    \/ \E line \in Lines : obj = Entered(line, Text(line), 0)
    \/ obj = [what |-> "text", text |-> <<>>, position |-> 1, read |-> <<>>]

Slip(tokens) == obj' = Entered(obj.line, tokens, obj.slips + 1)
Mistype ==
    /\ obj.what = "line" /\ obj.slips < MaxSlips
    /\ \E i \in DOMAIN obj.tokens :
          \/ Slip(RemoveAt(obj.tokens, i))
          \/ \E t \in Slips : Slip([obj.tokens EXCEPT ![i] = t]) \/ Slip(InsertAt(obj.tokens, i, t))

Type ==
    /\ obj.what = "text" /\ obj.read = <<>> /\ Len(obj.text) < MaxText
    /\ \E c \in Characters : obj' = [obj EXCEPT !.text = Append(@, c)]
Read ==
    /\ obj.what = "text"
    /\ \A k \in DOMAIN obj.read : obj.read[k].type # "eof"
    /\ LET token == LexerNextToken(obj.text, obj.position)
       IN  obj' = [obj EXCEPT !.position = token.next, !.read = Append(@, token)]

Next == Mistype \/ Type \/ Read
Spec == Init /\ [][Next]_obj

(***************************************************************************)
(* Properties.                                                             *)
(***************************************************************************)
Accepted == obj.what = "line" /\ obj.parsed.p.errors = 0 /\ ~obj.parsed.p.dead
IsLeaf(token) == token[1] \in {"ident", "int", "string"}
Leaves(tokens) == SelectSeq(tokens, IsLeaf)

\* A program written with the parentheses it needs is parsed to what was meant.
ParsesAsMeant == obj.what = "line" /\ obj.slips = 0 => Accepted /\ obj.parsed.node = obj.line

\* The brackets that are open after the tokens, or <<"wrong">>.
Opening(token) == CASE token[1] = ")" -> "(" [] token[1] = "]" -> "[" [] token[1] = "}" -> "{"
Open(tokens) ==
    FoldLeft(LAMBDA open, token :
                CASE token[1] \in {"(", "[", "{"} -> Append(open, token[1])
                  [] token[1] \in {")", "]", "}"} ->
                       IF open # <<>> /\ Last(open) = Opening(token) THEN Front(open) ELSE <<"wrong">> \o open
                  [] OTHER -> open,
             <<>>, tokens)

\* What is accepted is whole: no name or number is passed over, nothing is missing in the
\* tree, and no bracket is left open but those of blocks, which the end of the line closes.
AcceptedIsWhole ==
    Accepted =>
        /\ Leaves(Text(obj.parsed.node)) = Leaves(obj.tokens)
        /\ ParseProgram(Text(obj.parsed.node)).node = obj.parsed.node
        /\ \A k \in DOMAIN Open(obj.tokens) : Open(obj.tokens)[k] = "{"

\* The parser ends the program over a number that is too long, or a let without a value.
DiesOfLet ==
    obj.what = "line" /\ obj.parsed.p.dead =>
        \/ \E i \in DOMAIN obj.tokens : obj.tokens[i][1] = "int" /\ obj.tokens[i][2] > MaxInt
        \/ <<"let">> \in ToSet(obj.tokens) /\ obj.parsed.p.errors > 0

\* Where toString gives a text that is no program, or another one: strings lose their
\* quotes, functions have got a name, a name as a condition has no parentheses, and after
\* an expression comes no semicolon.
RECURSIVE Reparses(_)
AllReparse(nodes) ==
    \A i \in DOMAIN nodes : Reparses(nodes[i]) /\ (nodes[i][1] = "expr" => i = Len(nodes))
Reparses(node) ==
    CASE node[1] \in {"let", "prefix"} -> Reparses(node[3])
      [] node[1] \in {"return", "expr"} -> Reparses(node[2])
      [] node[1] = "array" -> \A i \in DOMAIN node[2] : Reparses(node[2][i])
      [] node[1] = "hash" -> \A i \in DOMAIN node[2] : Reparses(node[2][i][1]) /\ Reparses(node[2][i][2])
      [] node[1] = "infix" -> Reparses(node[3]) /\ Reparses(node[4])
      [] node[1] = "index" -> Reparses(node[2]) /\ Reparses(node[3])
      [] node[1] = "call" -> Reparses(node[2]) /\ \A i \in DOMAIN node[3] : Reparses(node[3][i])
      [] node[1] = "if" -> /\ node[2][1] \in {"infix", "prefix", "index"} /\ Reparses(node[2])
                           /\ AllReparse(node[3]) /\ (node[4] = NoBlock \/ AllReparse(node[4]))
      [] node[1] = "fn" -> node[2] = "" /\ AllReparse(node[4])
      [] OTHER -> node[1] # "str"

\* Otherwise toString gives a program with the same tree.
PrintedParsesBack ==
    Accepted /\ AllReparse(obj.parsed.node) =>
        ParseProgram(ProgramToString(obj.parsed.node)).node = obj.parsed.node

\* The tokens of a text are all of it but blanks and quotes, each as long as can be, and
\* none but a string is between quotes.
Quotes(text, n) == Cardinality({k \in 1..n : text[k] = Quote})
TokensCoverText ==
    obj.what = "text" =>
        /\ \A k \in 2..Len(obj.read) :
              LET a == obj.read[k - 1]
                  b == obj.read[k]
              IN  /\ a.to <= b.from /\ \A j \in a.to..b.from - 1 : obj.text[j] \in {Blank, Quote}
                  /\ a.to = b.from => /\ ~(a.type \in {"ident", "fn"} /\ b.type \in {"ident", "fn", "int"})
                                      /\ a.type # b.type \/ a.type \notin {"int", "="}
        /\ \A k \in DOMAIN obj.read :
              LET t == obj.read[k]
              IN  t.type = "eof" \/ (t.type = "string") = (Quotes(obj.text, t.from - 1) % 2 = 1)
=============================================================================
