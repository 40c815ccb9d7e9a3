------------------------------- MODULE Lexer -------------------------------
(***************************************************************************)
(* The lexer: a window of two tokens, "current" and "next", over a string  *)
(* of characters.  Every call of AdvanceNext moves the window one token;   *)
(* the constructor makes the first call itself, so that a Lexer is born    *)
(* with no current token and its first token as the next one.              *)
(*                                                                         *)
(* The tokens hold raw pointers: a NAME or STRING token's text is on the   *)
(* heap, and the window copies the pointer from one token to the other.    *)
(* The positions it keeps are what every later compiler error quotes.      *)
(*                                                                         *)
(* A character is a class of characters the code tells apart ("letter"     *)
(* stands for a-z, A-Z and _, "space" for blank, tab and carriage return,  *)
(* "other" for one no rule accepts) or a punctuation character itself.     *)
(* An action is one iteration of one of the lexer's loops.                 *)
(*                                                                         *)
(* A definition named Fault... is a slip the next definition could have    *)
(* had; it is used only to see that the properties would notice it.        *)
(***************************************************************************)
EXTENDS Integers, Sequences, FiniteSets

CONSTANTS
  Alphabets,    (* sets of characters, an input is made of one of them      *)
  MaxLength,    (* bound on the characters of an input, for model checking  *)
  Addresses,    (* what "new std::string" can return                        *)
  NoString      (* a token without a string                                 *)

ASSUME AddressAssumption == NoString \notin Addresses
ASSUME LengthAssumption == MaxLength \in Nat

EOF == "eof"

Alphabet == UNION Alphabets

ASSUME AlphabetAssumption == EOF \notin Alphabet

VARIABLES
  input,                     (* CompilerStringSource::input_                *)
  index,                     (* CompilerStringSource::index: characters read *)
  pc,                        (* the loop the lexer is in; "idle" between calls *)
  start,                     (* where the lexeme being read starts          *)
  current_token, next_token, (* the window                                  *)
  current_position,          (* line and column of the end of current_token *)
  next_position,             (* line and column the lexer has reached       *)
  alive,                     (* the constructor returned                    *)
  heap                       (* the strings allocated and not yet deleted   *)

window == <<current_token, next_token, current_position, heap>>
vars == <<input, index, pc, start, window, next_position, alive>>

-----------------------------------------------------------------------------
(***************************************************************************)
(* Characters and positions.                                               *)
(***************************************************************************)
\* The character k places after the next one, or EOF.
Peek(k) == IF index + k < Len(input) THEN input[index + k + 1] ELSE EOF

HasChar == index < Len(input)

\* ADVANCE_CHAR n times: NextChar stays put at the end of the input, the
\* column is incremented all the same.
FaultAdvance(n) ==
  /\ index' = index + n
  /\ next_position' = [next_position EXCEPT !.column = @ + n]

Advance(n) ==
  /\ index' = IF index + n <= Len(input) THEN index + n ELSE Len(input)
  /\ next_position' = [next_position EXCEPT !.column = @ + n]

FaultAdvanceLine ==
  /\ index' = index + 1
  /\ next_position' = [next_position EXCEPT !.column = 0]

\* ADVANCE_CHAR over a character that was found to be a newline.
AdvanceLine ==
  /\ index' = index + 1
  /\ next_position' = [line |-> next_position.line + 1, column |-> 0]

-----------------------------------------------------------------------------
(***************************************************************************)
(* The symbols.                                                            *)
(***************************************************************************)
\* ACCEPT_WWOSUFFIX: the suffix, the symbol with it, the symbol without it.
Suffixed ==
  [c \in {"+", "-", "*", "/", "%", "!", "|", "&", ">"} |->
     CASE c = "+" -> <<"=", "ADDEQUALS", "ADD">>
       [] c = "-" -> <<"=", "SUBEQUALS", "SUB">>
       [] c = "*" -> <<"=", "MULEQUALS", "MUL">>
       [] c = "/" -> <<"=", "DIVEQUALS", "DIV">>
       [] c = "%" -> <<"=", "MODEQUALS", "MOD">>
       [] c = "!" -> <<"=", "NOTEQUALS", "LOGNOT">>
       [] c = "|" -> <<"|", "LOGOR", "BINOR">>
       [] c = "&" -> <<"&", "LOGAND", "BINAND">>
       [] c = ">" -> <<"=", "GREATEREQUALS", "GREATER">>]

\* ACCEPT_SYMBOL: symbols no other symbol starts with.
Single ==
  [c \in {"(", ")", "[", "]", "{", "}", ".", ";", ",", "=", "~", ":", "?"} |->
     CASE c = "(" -> "LPAREN"  [] c = ")" -> "RPAREN"
       [] c = "[" -> "LSQUARE" [] c = "]" -> "RSQUARE"
       [] c = "{" -> "LBRACE"  [] c = "}" -> "RBRACE"
       [] c = "." -> "DOT"     [] c = ";" -> "SEMICOLON"
       [] c = "," -> "COMMA"   [] c = "=" -> "EQUALS"
       [] c = "~" -> "BINNOT"  [] c = ":" -> "COLON"
       [] c = "?" -> "TERNARY"]

-----------------------------------------------------------------------------
(***************************************************************************)
(* The window.                                                             *)
(***************************************************************************)
NoToken == [valid |-> FALSE, type |-> "SYMBOL", symbol |-> "SWAP", string |-> NoString]

SymbolToken(s) == [NoToken EXCEPT !.valid = TRUE, !.symbol = s]
PlainToken(t) == [NoToken EXCEPT !.valid = TRUE, !.type = t]
StringToken(t, a) == [PlainToken(t) EXCEPT !.string = a]

\* The tokens CleanupLast and the destructor delete the string of.
HasString(t) == t.valid /\ t.type \in {"STRING", "NAME"}
StringOf(t) == IF HasString(t) THEN {t.string} ELSE {}

Init ==
  /\ \E A \in Alphabets, n \in 0 .. MaxLength : input \in [1 .. n -> A]
  /\ index = 0 /\ start = 0
  /\ pc = "idle"
  /\ current_token = NoToken /\ next_token = NoToken
  /\ current_position = [line |-> 0, column |-> 0]
  /\ next_position = [line |-> 1, column |-> 0]
  /\ alive = FALSE
  /\ heap = {}

\* CleanupLast frees the string of the token that leaves the window and
\* moves the next token into its place.
FaultCleanupLast ==
  /\ heap' = heap \ StringOf(current_token)
  /\ current_token' = next_token
  /\ current_position' = next_position
  /\ UNCHANGED next_token

CleanupLast ==
  /\ heap' = heap \ StringOf(current_token)
  /\ current_token' = next_token
  /\ current_position' = next_position
  /\ next_token' = [next_token EXCEPT !.valid = FALSE]

\* AdvanceNext, and the constructor's own AdvanceTokens.
AdvanceTokens ==
  /\ pc = "idle"
  /\ CleanupLast
  /\ pc' = "dispatch"
  /\ UNCHANGED <<input, index, start, next_position, alive>>

\* AdvanceTokens returns.
Finish ==
  /\ pc' = "idle"
  /\ alive' = TRUE

Accept(t) ==
  /\ next_token' = t
  /\ Finish
  /\ UNCHANGED <<current_token, current_position, heap>>

AcceptString(t) ==
  \E a \in Addresses \ heap :
    /\ next_token' = StringToken(t, a)
    /\ heap' = heap \cup {a}
    /\ Finish
    /\ UNCHANGED <<current_token, current_position>>

\* THROW_EXCEPTION: the type of the next token may have been set, its
\* validity has not.
Throw ==
  /\ pc' = "threw"
  /\ UNCHANGED <<window, next_token, alive>>

Continue(loop) ==
  /\ pc' = loop
  /\ UNCHANGED <<window, next_token, alive>>

-----------------------------------------------------------------------------
(***************************************************************************)
(* The switch of AdvanceTokens: no token is recognised yet.                *)
(***************************************************************************)
AtEnd ==
  /\ pc = "dispatch" /\ ~HasChar
  /\ Finish
  /\ UNCHANGED <<input, index, start, window, next_token, next_position>>

SkipWhitespace ==
  /\ pc = "dispatch"
  /\ \/ Peek(0) = "newline" /\ AdvanceLine
     \/ Peek(0) = "space" /\ Advance(1)
  /\ Continue("dispatch")
  /\ UNCHANGED <<input, start>>

\* The symbol the nested switches find at the next character, and its length.
FaultLessSymbol ==
  CASE Peek(1) = "-" -> <<"ASSIGN", 2>>
    [] Peek(1) = "=" -> <<"LESSEQUALS", 2>>
    [] OTHER -> <<"LESS", 1>>

LessSymbol ==
  CASE Peek(1) = "-" /\ Peek(2) = ">" -> <<"SWAP", 3>>
    [] Peek(1) = "-" /\ Peek(2) # ">" -> <<"ASSIGN", 2>>
    [] Peek(1) = "=" -> <<"LESSEQUALS", 2>>
    [] OTHER -> <<"LESS", 1>>

SuffixedSymbol(c) ==
  IF Peek(1) = Suffixed[c][1] THEN <<Suffixed[c][2], 2>> ELSE <<Suffixed[c][3], 1>>

IsComment == Peek(0) = "/" /\ Peek(1) \in {"/", "*"}

AcceptSymbol(s) ==
  /\ Advance(s[2])
  /\ Accept(SymbolToken(s[1]))

LexSymbol ==
  /\ pc = "dispatch"
  /\ start' = index
  /\ \/ Peek(0) = "<" /\ AcceptSymbol(LessSymbol)
     \/ Peek(0) \in DOMAIN Suffixed /\ ~IsComment /\ AcceptSymbol(SuffixedSymbol(Peek(0)))
     \/ Peek(0) \in DOMAIN Single /\ AcceptSymbol(<<Single[Peek(0)], 1>>)
  /\ UNCHANGED input

\* The loops below start at their first character; the ones that read more
\* of it before they loop do so here.
Enter ==
  /\ pc = "dispatch"
  /\ start' = index
  /\ \/ Peek(0) = "/" /\ Peek(1) = "/" /\ Advance(1) /\ Continue("line comment")
     \/ Peek(0) = "/" /\ Peek(1) = "*" /\ Advance(2) /\ Continue("block comment")
     \/ Peek(0) = "quote" /\ Advance(0) /\ Continue("string")
     \/ Peek(0) = "letter" /\ Advance(0) /\ Continue("name")
     \/ Peek(0) = "digit" /\ Advance(0) /\ Continue("number")
  /\ UNCHANGED input

\* 'c': whatever the middle character is.
ParseCharacter ==
  /\ pc = "dispatch" /\ Peek(0) = "apostrophe"
  /\ start' = index
  /\ \/ Peek(2) = "apostrophe" /\ Advance(3) /\ Accept(PlainToken("CHAR"))
     \/ Peek(2) # "apostrophe" /\ Advance(2) /\ Throw
  /\ UNCHANGED input

NoMatch ==
  /\ pc = "dispatch" /\ Peek(0) \in {"other", "backslash"}
  /\ Throw
  /\ UNCHANGED <<input, index, start, next_position>>

-----------------------------------------------------------------------------
(***************************************************************************)
(* The loops.                                                              *)
(***************************************************************************)
\* SkipSingleLineComments: the newline that ends the comment is read like
\* any other character.
SkipLineComment ==
  /\ pc = "line comment"
  /\ \/ Peek(1) = "newline" /\ Advance(2) /\ Continue("dispatch")
     \/ Peek(1) = EOF /\ Advance(1) /\ Continue("dispatch")
     \/ Peek(1) \notin {"newline", EOF} /\ Advance(1) /\ Continue("line comment")
  /\ UNCHANGED <<input, start>>

\* SkipMultiLineComments: an iteration ends by counting the newline that
\* comes next, which the next iteration reads; until then the column is
\* the one before the line's first.
ReadComment ==
  /\ index' = index + 1
  /\ next_position' = IF Peek(1) = "newline"
                      THEN [line |-> next_position.line + 1, column |-> -1]
                      ELSE [next_position EXCEPT !.column = @ + 1]

FaultAtClose == Peek(1) = "/"

AtClose == Peek(0) = "*" /\ Peek(1) = "/"

FaultSkipBlockComment ==
  /\ pc = "block comment"
  /\ \/ AtClose /\ Advance(2) /\ Continue("dispatch")
     \/ ~AtClose /\ Peek(1) = EOF /\ Advance(0) /\ Continue("block comment")
     \/ ~AtClose /\ Peek(1) # EOF /\ ReadComment /\ Continue("block comment")
  /\ UNCHANGED <<input, start>>

SkipBlockComment ==
  /\ pc = "block comment"
  /\ \/ AtClose /\ Advance(2) /\ Continue("dispatch")
     \/ ~AtClose /\ Peek(1) = EOF /\ Advance(1) /\ Throw
     \/ ~AtClose /\ Peek(1) # EOF /\ ReadComment /\ Continue("block comment")
  /\ UNCHANGED <<input, start>>

\* ParseString and EscapeChar.  The loop starts on the opening quote, and
\* every iteration on the last character it has dealt with.
Escaped(c) == c \in {"quote", "apostrophe", "backslash", "?"}

ParseString ==
  /\ pc = "string"
  /\ \/ Peek(1) = "quote" /\ Advance(2) /\ AcceptString("STRING")
     \/ Peek(1) \in {"newline", EOF} /\ Advance(1) /\ Throw
     \/ Peek(1) = "backslash" /\ Escaped(Peek(2)) /\ Advance(2) /\ Continue("string")
     \/ Peek(1) = "backslash" /\ Peek(2) = "letter" /\ Advance(2)
                              /\ (Continue("string") \/ Throw)
     \/ Peek(1) = "backslash" /\ ~Escaped(Peek(2)) /\ Peek(2) # "letter"
                              /\ Advance(2) /\ Throw
     \/ Peek(1) \notin {"quote", "newline", EOF, "backslash"} /\ Advance(1)
                              /\ Continue("string")
  /\ UNCHANGED <<input, start>>

\* ParseName: whether the letters spell a keyword is any choice.
ParseName ==
  /\ pc = "name"
  /\ \/ Peek(0) \in {"letter", "digit"} /\ Advance(1) /\ Continue("name")
     \/ Peek(0) \notin {"letter", "digit"} /\ Advance(0)
          /\ (AcceptString("NAME") \/ Accept(PlainToken("KEYWORD")))
  /\ UNCHANGED <<input, start>>

\* ParseNumber: stod stops at a second dot, and any number may be out of
\* the range of stoi or stod; both are malformed.
Lexeme == SubSeq(input, start + 1, index)
Dots == Cardinality({i \in start + 1 .. index : input[i] = "."})

ParseNumber ==
  /\ pc = "number"
  /\ \/ Peek(0) \in {"digit", "."} /\ Advance(1) /\ Continue("number")
     \/ /\ Peek(0) \notin {"digit", "."} /\ Advance(0)
        /\ \/ Dots = 0 /\ Accept(PlainToken("INT"))
           \/ Dots = 1 /\ Accept(PlainToken("FLOAT"))
           \/ Throw
  /\ UNCHANGED <<input, start>>

\* ~Lexer, which C++ runs only for a Lexer whose constructor returned.
FaultDestroy ==
  /\ pc \in {"idle", "threw"} /\ alive
  /\ pc' = "destroyed"
  /\ heap' = heap \ StringOf(current_token)
  /\ UNCHANGED <<input, index, start, current_token, next_token, current_position,
                 next_position, alive>>

Destroy ==
  /\ pc \in {"idle", "threw"} /\ alive
  /\ pc' = "destroyed"
  /\ heap' = heap \ (StringOf(current_token) \cup StringOf(next_token))
  /\ UNCHANGED <<input, index, start, current_token, next_token, current_position,
                 next_position, alive>>

Step ==
  \/ AtEnd \/ SkipWhitespace \/ LexSymbol \/ Enter \/ ParseCharacter \/ NoMatch
  \/ SkipLineComment \/ SkipBlockComment \/ ParseString \/ ParseName \/ ParseNumber

Next == AdvanceTokens \/ Step \/ Destroy

\* A call that has been made runs until it returns or throws; nothing
\* obliges the parser to make the next one.
Spec == Init /\ [][Next]_vars /\ WF_vars(Step)

-----------------------------------------------------------------------------
Types == {"SYMBOL", "KEYWORD", "NAME", "STRING", "CHAR", "INT", "FLOAT"}

Symbols == {Suffixed[c][2] : c \in DOMAIN Suffixed} \cup {Suffixed[c][3] : c \in DOMAIN Suffixed}
           \cup {Single[c] : c \in DOMAIN Single} \cup {"SWAP", "ASSIGN", "LESSEQUALS", "LESS"}

Tokens == [valid : BOOLEAN, type : Types, symbol : Symbols, string : Addresses \cup {NoString}]

Positions == [line : Nat, column : Nat \cup {-1}]

\* The variables have the types the code declares, and the reading position
\* never passes the end of the input.
TypeOK ==
  /\ Len(input) \in Nat /\ input \in [1 .. Len(input) -> Alphabet]
  /\ index \in 0 .. Len(input) /\ start \in 0 .. index
  /\ pc \in {"idle", "dispatch", "line comment", "block comment", "string", "name",
             "number", "threw", "destroyed"}
  /\ current_token \in Tokens /\ next_token \in Tokens
  /\ current_position \in Positions /\ next_position \in Positions
  /\ alive \in BOOLEAN
  /\ heap \subseteq Addresses

\* Every string on the heap belongs to exactly one valid token of the
\* window, through every call, exception and destruction: no string is
\* leaked, deleted while a token still points to it, or deleted twice.  When
\* the constructor throws, and the destructor never runs, there is none.
Gone == pc = "destroyed" \/ (pc = "threw" /\ ~alive)

StringsAreOwnedOnce ==
  /\ heap = IF Gone THEN {} ELSE StringOf(current_token) \cup StringOf(next_token)
  /\ HasString(current_token) /\ HasString(next_token) =>
       current_token.string # next_token.string

\* The token after the current one ends after it: the positions that error
\* messages quote advance through the text, whatever the lexer skipped or
\* failed to count on the way.
Before(p, q) == p.line < q.line \/ (p.line = q.line /\ p.column < q.column)

PositionsAdvance ==
  pc = "idle" /\ next_token.valid => Before(current_position, next_position)

\* A token's line is the line it ends on: one more than the newlines before
\* that point.
Newlines == Cardinality({i \in 1 .. index : input[i] = "newline"})

LineNumbersAreRight == pc = "idle" /\ next_token.valid => next_position.line = 1 + Newlines

\* So they are in a text without line comments, without a newline right after
\* the opening of a block comment, and without a newline as a character
\* constant.
Has(i, text) ==
  i + Len(text) - 1 <= Len(input) /\ SubSeq(input, i, i + Len(text) - 1) = text

Uncounted == {<<"/", "/">>, <<"/", "*", "newline">>, <<"apostrophe", "newline">>}

LinesAreCounted ==
  (\A i \in 1 .. Len(input), text \in Uncounted : ~Has(i, text)) => LineNumbersAreRight

\* How each symbol is written, as the tests of the lexer spell it.
Spelling(s) ==
  CASE s = "SWAP" -> <<"<", "-", ">">>
    [] s = "ASSIGN" -> <<"<", "-">>
    [] s = "LESSEQUALS" -> <<"<", "=">>
    [] s = "LESS" -> <<"<">>
    [] OTHER -> LET single == {c \in DOMAIN Single : Single[c] = s}
                    short == {c \in DOMAIN Suffixed : Suffixed[c][3] = s}
                    long == {c \in DOMAIN Suffixed : Suffixed[c][2] = s}
                IN  IF long # {} THEN LET c == CHOOSE c \in long : TRUE IN <<c, Suffixed[c][1]>>
                    ELSE <<CHOOSE c \in single \cup short : TRUE>>

\* The next token is the longest one that starts where it starts: the text
\* it was made from spells it, and the character after it could not have
\* been added to it.
Ranges(seq) == {seq[i] : i \in DOMAIN seq}

IsToken(t, text) ==
  CASE t = "SYMBOL" -> \E s \in Symbols : Spelling(s) = text
    [] t \in {"NAME", "KEYWORD"} -> text[1] = "letter" /\ Ranges(text) \subseteq {"letter", "digit"}
    [] t \in {"INT", "FLOAT"} -> text[1] = "digit" /\ Ranges(text) \subseteq {"digit", "."}
    [] t \in {"STRING", "CHAR"} -> FALSE

TokensAreMaximal ==
  pc = "idle" /\ next_token.valid =>
    /\ next_token.type = "SYMBOL" => Spelling(next_token.symbol) = Lexeme
    /\ next_token.type \in {"NAME", "KEYWORD", "INT", "FLOAT"} => IsToken(next_token.type, Lexeme)
    /\ ~IsToken(next_token.type, Append(Lexeme, Peek(0)))

\* A line comment ends with the first newline after it, or with the text if
\* there is none; a block comment with the first "*/" after its opening, and
\* only one without it is an error.
Closes(i) == i > start + 3 /\ input[i - 1] = "*" /\ input[i] = "/"
EndsLine(e) ==
  /\ e = Len(input) \/ input[e] = "newline"
  /\ \A i \in start + 1 .. e - 1 : input[i] # "newline"
EndsBlock(e) == Closes(e) /\ \A i \in 1 .. e - 1 : ~Closes(i)

CommentsEndWhereTheyShould ==
  [][/\ pc = "line comment" /\ pc' = "dispatch" => EndsLine(index')
     /\ pc = "block comment" /\ pc' = "dispatch" => EndsBlock(index')
     /\ pc = "block comment" /\ pc' = "threw" => \A i \in DOMAIN input : ~Closes(i)]_vars

\* Every call of AdvanceNext returns or throws: each loop of the lexer reads
\* on until its end or the end of the input.
EveryCallEnds == pc \notin {"idle", "threw", "destroyed"} ~> pc \in {"idle", "threw"}
=============================================================================
