---------------------------- MODULE LexerProofs ----------------------------
(***************************************************************************)
(* The window of the lexer owns each of its strings once, whatever the     *)
(* text, however long it is and wherever the lexer throws.  The argument:  *)
(* while a token is being read the next token of the window is not valid,  *)
(* so that what is on the heap belongs to the current token alone.         *)
(***************************************************************************)
EXTENDS Lexer, SequenceTheorems, FiniteSetTheorems, TLAPS

Loops == {"dispatch", "line comment", "block comment", "string", "name", "number"}

\* p is not after q.
NotAfter(p, q) == Before(p, q) \/ p = q

-----------------------------------------------------------------------------
(***************************************************************************)
(* What a step of AdvanceTokens does to the window, and to the position.   *)
(***************************************************************************)

\* The tokens the scanners make are tokens; only AcceptString makes one with
\* a string.
LEMMA MadeTokens ==
  /\ \A s \in Symbols : SymbolToken(s) \in Tokens /\ ~HasString(SymbolToken(s))
  /\ \A t \in {"KEYWORD", "CHAR", "INT", "FLOAT"} :
       PlainToken(t) \in Tokens /\ ~HasString(PlainToken(t))
  /\ \A t \in {"NAME", "STRING"}, a \in Addresses :
       StringToken(t, a) \in Tokens /\ HasString(StringToken(t, a)) /\ StringToken(t, a).string = a
<1>1. "SWAP" \in Symbols
  BY DEF Symbols
<1> QED
  BY <1>1 DEF SymbolToken, PlainToken, StringToken, NoToken, Tokens, Types, HasString

\* The symbols of the switch are symbols.
LEMMA FoundSymbols ==
  /\ LessSymbol[1] \in Symbols /\ LessSymbol[2] \in 1 .. 3
  /\ \A c \in DOMAIN Suffixed : SuffixedSymbol(c)[1] \in Symbols /\ SuffixedSymbol(c)[2] \in 1 .. 2
  /\ \A c \in DOMAIN Single : Single[c] \in Symbols
<1>1. LessSymbol[1] \in Symbols /\ LessSymbol[2] \in 1 .. 3
  BY DEF LessSymbol, Symbols
<1>2. ASSUME NEW c \in DOMAIN Suffixed
      PROVE  SuffixedSymbol(c)[1] \in Symbols /\ SuffixedSymbol(c)[2] \in 1 .. 2
  BY DEF SuffixedSymbol, Symbols
<1>3. \A c \in DOMAIN Single : Single[c] \in Symbols
  BY DEF Symbols
<1> QED
  BY <1>1, <1>2, <1>3

\* A step goes on, throws, returns a token without a string, or returns one
\* whose string it has just allocated.
GoesOn ==
  /\ pc' \in Loops \cup {"threw"}
  /\ UNCHANGED <<current_token, current_position, next_token, heap, alive>>

Returns ==
  /\ pc' = "idle" /\ alive' = TRUE
  /\ UNCHANGED <<current_token, current_position>>

ReturnsNothing == Returns /\ UNCHANGED <<next_token, heap>>
ReturnsPlain == Returns /\ UNCHANGED heap /\ next_token' \in Tokens /\ ~HasString(next_token')
ReturnsString ==
  /\ Returns
  /\ \E t \in {"NAME", "STRING"}, a \in Addresses \ heap :
       next_token' = StringToken(t, a) /\ heap' = heap \cup {a}

LEMMA StepEffect ==
  ASSUME Step
  PROVE  /\ pc \in Loops
         /\ GoesOn \/ ReturnsNothing \/ ReturnsPlain \/ ReturnsString
<1> USE DEF GoesOn, ReturnsNothing, ReturnsPlain, ReturnsString, Returns, Loops,
        Continue, Throw, Finish, Accept, AcceptString, window
<1>1. CASE AtEnd \/ SkipWhitespace \/ NoMatch \/ Enter
  BY <1>1 DEF AtEnd, SkipWhitespace, NoMatch, Enter
<1>2. CASE LexSymbol
  BY <1>2, MadeTokens, FoundSymbols DEF LexSymbol, AcceptSymbol
<1>3. CASE ParseCharacter \/ ParseNumber
  BY <1>3, MadeTokens DEF ParseCharacter, ParseNumber
<1>4. CASE SkipLineComment \/ SkipBlockComment
  BY <1>4 DEF SkipLineComment, SkipBlockComment
<1>5. CASE ParseString
  BY <1>5 DEF ParseString
<1>6. CASE ParseName
  BY <1>6, MadeTokens DEF ParseName
<1> QED
  BY <1>1, <1>2, <1>3, <1>4, <1>5, <1>6 DEF Step

\* Reading moves forward, within the text.
LEMMA AdvanceMoves ==
  ASSUME TypeOK, NEW n \in Nat, Advance(n)
  PROVE  /\ index' \in index .. Len(input)
         /\ next_position' \in Positions
         /\ next_position' = [line |-> next_position.line, column |-> next_position.column + n]
         /\ NotAfter(next_position, next_position')
         /\ n > 0 => Before(next_position, next_position')
<1>1. /\ next_position \in Positions /\ index \in 0 .. Len(input) /\ Len(input) \in Nat
      /\ next_position = [line |-> next_position.line, column |-> next_position.column]
  BY DEF TypeOK, Positions
<1>2. next_position' = [line |-> next_position.line, column |-> next_position.column + n]
  BY <1>1 DEF Advance, Positions
<1>3. index' \in index .. Len(input)
  BY <1>1 DEF Advance
<1>4. next_position' \in Positions
  BY <1>1, <1>2 DEF Positions
<1>5. n > 0 => Before(next_position, next_position')
  BY <1>1, <1>2 DEF Positions, Before
<1>6. n = 0 => next_position' = next_position
  BY <1>1, <1>2 DEF Positions
<1> QED
  BY <1>2, <1>3, <1>4, <1>5, <1>6 DEF NotAfter

LEMMA NewlineMoves ==
  ASSUME TypeOK, AdvanceLine \/ ReadComment, index < Len(input)
  PROVE  /\ index' \in index .. Len(input)
         /\ next_position' \in Positions
         /\ Before(next_position, next_position')
<1>1. /\ next_position \in Positions /\ index \in 0 .. Len(input) /\ Len(input) \in Nat
      /\ next_position.line \in Nat /\ next_position.column \in Nat \cup {-1}
      /\ next_position = [line |-> next_position.line, column |-> next_position.column]
  BY DEF TypeOK, Positions
<1>2. index' = index + 1
  BY DEF AdvanceLine, ReadComment
<1>3. \/ next_position' = [line |-> next_position.line + 1, column |-> 0]
      \/ next_position' = [line |-> next_position.line + 1, column |-> -1]
      \/ next_position' = [line |-> next_position.line, column |-> next_position.column + 1]
  BY <1>1 DEF AdvanceLine, ReadComment
<1> QED
  BY <1>1, <1>2, <1>3 DEF Positions, Before

LEMMA StepMoves ==
  ASSUME TypeOK, Step
  PROVE  /\ input' = input
         /\ index' \in index .. Len(input) /\ start' \in 0 .. index'
         /\ next_position' \in Positions
         /\ NotAfter(next_position, next_position')
<1> DEFINE Moved == /\ index' \in index .. Len(input)
                    /\ next_position' \in Positions
                    /\ NotAfter(next_position, next_position')
<1>0. /\ index \in 0 .. Len(input) /\ start \in 0 .. index /\ Len(input) \in Nat
      /\ next_position \in Positions
  BY DEF TypeOK
<1>1. ASSUME index' = index, next_position' = next_position PROVE Moved
  BY <1>0, <1>1 DEF NotAfter
<1>2. ASSUME NEW n \in Nat, Advance(n) PROVE Moved
  BY <1>2, AdvanceMoves
<1>3. ASSUME AdvanceLine \/ ReadComment, index < Len(input) PROVE Moved
  BY <1>3, NewlineMoves DEF NotAfter
<1>4. Moved /\ input' = input /\ start' \in {start, index}
  <2> HIDE DEF Moved
  <2>1. CASE AtEnd \/ NoMatch
    BY <1>1, <2>1 DEF AtEnd, NoMatch
  <2>2. CASE SkipWhitespace
    BY <1>0, <1>2, <1>3, <2>2 DEF SkipWhitespace, Peek, EOF
  <2>3. CASE LexSymbol
    BY <1>2, <2>3, FoundSymbols DEF LexSymbol, AcceptSymbol
  <2>4. CASE Enter \/ ParseCharacter
    BY <1>2, <2>4 DEF Enter, ParseCharacter
  <2>5. CASE SkipLineComment
    BY <1>2, <2>5 DEF SkipLineComment
  <2>6. CASE SkipBlockComment
    <3>1. Peek(1) # EOF => index < Len(input)
      BY <1>0 DEF Peek
    <3> QED
      BY <1>2, <1>3, <2>6, <3>1 DEF SkipBlockComment
  <2>7. CASE ParseString \/ ParseName \/ ParseNumber
    BY <1>2, <2>7 DEF ParseString, ParseName, ParseNumber
  <2> QED
    BY <2>1, <2>2, <2>3, <2>4, <2>5, <2>6, <2>7 DEF Step
<1> QED
  BY <1>0, <1>4

-----------------------------------------------------------------------------
(***************************************************************************)
(* Types.                                                                  *)
(***************************************************************************)
LEMMA InitTyped == Init => TypeOK
<1> SUFFICES ASSUME Init PROVE TypeOK
  OBVIOUS
<1>1. Len(input) \in Nat /\ input \in [1 .. Len(input) -> Alphabet]
  <2>1. PICK A \in Alphabets, n \in 0 .. MaxLength : input \in [1 .. n -> A]
    BY DEF Init
  <2>2. n \in Nat /\ A \subseteq Alphabet
    BY LengthAssumption DEF Alphabet
  <2>3. input \in Seq(A) /\ DOMAIN input = 1 .. n
    BY <2>1, <2>2, SeqDef
  <2>4. Len(input) = n
    BY <2>2, <2>3, LenProperties
  <2> QED
    BY <2>1, <2>2, <2>4
<1>2. NoToken \in Tokens
  BY DEF NoToken, Tokens, Types, Symbols
<1>3. /\ [line |-> 0, column |-> 0] \in Positions
      /\ [line |-> 1, column |-> 0] \in Positions
  BY DEF Positions
<1>4. index \in 0 .. Len(input) /\ start \in 0 .. index
  BY <1>1 DEF Init
<1> QED
  BY <1>1, <1>2, <1>3, <1>4 DEF Init, TypeOK

LEMMA NextTyped == TypeOK /\ [Next]_vars => TypeOK'
<1> SUFFICES ASSUME TypeOK, [Next]_vars PROVE TypeOK'
  OBVIOUS
<1>1. CASE Step
  <2>1. /\ pc' \in Loops \cup {"threw", "idle"} /\ alive' \in BOOLEAN
        /\ UNCHANGED <<current_token, current_position>>
        /\ next_token' \in Tokens /\ heap' \subseteq Addresses
    <3>1. CASE GoesOn \/ ReturnsNothing \/ ReturnsPlain
      BY <3>1 DEF GoesOn, ReturnsNothing, ReturnsPlain, Returns, TypeOK
    <3>2. CASE ReturnsString
      <4>1. PICK t \in {"NAME", "STRING"}, a \in Addresses \ heap :
              next_token' = StringToken(t, a) /\ heap' = heap \cup {a}
        BY <3>2 DEF ReturnsString
      <4>2. next_token' \in Tokens
        BY <4>1, MadeTokens
      <4> QED
        BY <3>2, <4>1, <4>2 DEF ReturnsString, Returns, TypeOK
    <3> QED
      BY <1>1, <3>1, <3>2, StepEffect
  <2>2. /\ input' = input /\ next_position' \in Positions
        /\ index' \in 0 .. Len(input) /\ start' \in 0 .. index'
    <3>1. /\ input' = input /\ next_position' \in Positions
          /\ index' \in index .. Len(input) /\ start' \in 0 .. index'
      BY <1>1, StepMoves
    <3>2. Len(input) \in Nat /\ index \in 0 .. Len(input)
      BY DEF TypeOK
    <3> QED
      BY <3>1, <3>2
  <2> QED
    BY <2>1, <2>2 DEF TypeOK, Loops
<1>2. CASE AdvanceTokens
  <2>1. next_token' \in Tokens
    BY <1>2 DEF AdvanceTokens, CleanupLast, TypeOK, Tokens
  <2> QED
    BY <1>2, <2>1 DEF AdvanceTokens, CleanupLast, TypeOK
<1>3. CASE Destroy
  BY <1>3 DEF Destroy, TypeOK
<1>4. CASE UNCHANGED vars
  BY <1>4 DEF vars, window, TypeOK
<1> QED
  BY <1>1, <1>2, <1>3, <1>4 DEF Next

-----------------------------------------------------------------------------
(***************************************************************************)
(* Ownership.                                                              *)
(***************************************************************************)
\* A token is valid only between calls, and only in a lexer whose constructor
\* returned.
Validity ==
  /\ pc \in Loops \cup {"threw"} => ~next_token.valid
  /\ ~alive => ~current_token.valid /\ ~next_token.valid

OwnInv == TypeOK /\ Validity /\ StringsAreOwnedOnce

LEMMA InitOwned == Init => OwnInv
<1> SUFFICES ASSUME Init PROVE OwnInv
  OBVIOUS
<1>1. Validity /\ StringsAreOwnedOnce
  BY DEF Init, Validity, StringsAreOwnedOnce, Gone, StringOf, HasString, NoToken, Loops
<1> QED
  BY <1>1, InitTyped DEF OwnInv

LEMMA StepOwned ==
  ASSUME OwnInv, Step
  PROVE  Validity' /\ StringsAreOwnedOnce'
<1>1. /\ pc \in Loops /\ ~next_token.valid /\ StringOf(next_token) = {}
      /\ heap = StringOf(current_token)
  BY StepEffect DEF OwnInv, Validity, StringsAreOwnedOnce, Gone, StringOf, HasString, Loops
<1>2. CASE GoesOn
  <2>1. ~alive => StringOf(current_token) = {}
    BY DEF OwnInv, Validity, StringOf, HasString
  <2> QED
    BY <1>1, <1>2, <2>1 DEF OwnInv, Validity, StringsAreOwnedOnce, GoesOn, Gone, StringOf, HasString, Loops
<1>3. CASE ReturnsNothing \/ ReturnsPlain
  BY <1>1, <1>3 DEF Validity, StringsAreOwnedOnce, ReturnsNothing, ReturnsPlain, Returns, Gone, StringOf,
     HasString, Loops
<1>4. CASE ReturnsString
  <2>1. PICK t \in {"NAME", "STRING"}, a \in Addresses \ heap :
          next_token' = StringToken(t, a) /\ heap' = heap \cup {a}
    BY <1>4 DEF ReturnsString
  <2>2. HasString(next_token') /\ next_token'.string = a
    BY <2>1, MadeTokens
  <2>3. HasString(current_token) => current_token.string # a
    BY <1>1, <2>1 DEF StringOf
  <2> QED
    BY <1>1, <1>4, <2>1, <2>2, <2>3
       DEF Validity, StringsAreOwnedOnce, ReturnsString, Returns, Gone, StringOf, Loops
<1> QED
  BY <1>2, <1>3, <1>4, StepEffect

LEMMA CallOwned ==
  ASSUME OwnInv, AdvanceTokens
  PROVE  Validity' /\ StringsAreOwnedOnce'
<1>1. /\ heap = StringOf(current_token) \cup StringOf(next_token)
      /\ HasString(current_token) /\ HasString(next_token) =>
           current_token.string # next_token.string
  BY DEF OwnInv, StringsAreOwnedOnce, AdvanceTokens, Gone
<1>2. heap \ StringOf(current_token) = StringOf(next_token)
  BY <1>1 DEF StringOf
<1>3. ~next_token'.valid /\ current_token' = next_token /\ heap' = StringOf(next_token)
      /\ pc' = "dispatch" /\ alive' = alive
  BY <1>2 DEF AdvanceTokens, CleanupLast, OwnInv, TypeOK, Tokens
<1> QED
  BY <1>3 DEF OwnInv, Validity, StringsAreOwnedOnce, Gone, StringOf, HasString, Loops

LEMMA NextOwned == OwnInv /\ [Next]_vars => OwnInv'
<1> SUFFICES ASSUME OwnInv, [Next]_vars PROVE OwnInv'
  OBVIOUS
<1>0. TypeOK'
  BY NextTyped DEF OwnInv
<1>1. CASE Step
  BY <1>0, <1>1, StepOwned DEF OwnInv
<1>2. CASE AdvanceTokens
  BY <1>0, <1>2, CallOwned DEF OwnInv
<1>3. CASE Destroy
  <2>1. pc' = "destroyed" /\ UNCHANGED <<current_token, next_token, alive>> /\ alive
    BY <1>3 DEF Destroy
  <2>2. heap' = {}
    BY <1>3 DEF Destroy, OwnInv, StringsAreOwnedOnce, Gone
  <2> QED
    BY <1>0, <2>1, <2>2 DEF OwnInv, Validity, StringsAreOwnedOnce, Gone, StringOf, HasString, Loops
<1>4. CASE UNCHANGED vars
  BY <1>0, <1>4 DEF vars, window, OwnInv, Validity, StringsAreOwnedOnce, Gone, StringOf, HasString
<1> QED
  BY <1>1, <1>2, <1>3, <1>4 DEF Next

-----------------------------------------------------------------------------
(***************************************************************************)
(* Positions.                                                              *)
(***************************************************************************)
LEMMA BeforeIsTransitive ==
  ASSUME NEW p \in Positions, NEW q \in Positions, NEW r \in Positions
  PROVE  /\ NotAfter(p, q) /\ NotAfter(q, r) => NotAfter(p, r)
         /\ NotAfter(p, q) /\ Before(q, r) => Before(p, r)
         /\ Before(p, q) /\ NotAfter(q, r) => Before(p, r)
<1>1. /\ p.line \in Nat /\ q.line \in Nat /\ r.line \in Nat
      /\ p.column \in Int /\ q.column \in Int /\ r.column \in Int
  BY DEF Positions
<1>2. Before(p, q) /\ Before(q, r) => Before(p, r)
  BY <1>1 DEF Before
<1> QED
  BY <1>2 DEF NotAfter

\* A scanner that can return without reading on has read something, or is at
\* a character it will read.
Reading ==
  /\ pc \in Loops => NotAfter(current_position, next_position)
  /\ pc = "name" => Before(current_position, next_position) \/ Peek(0) = "letter"
  /\ pc = "number" => Before(current_position, next_position) \/ Peek(0) = "digit"

PosInv == OwnInv /\ Reading /\ PositionsAdvance

LEMMA StepReads ==
  ASSUME PosInv, Step
  PROVE  Reading' /\ PositionsAdvance'
<1> DEFINE Read == Before(current_position', next_position')
<1>0. /\ TypeOK /\ pc \in Loops /\ ~next_token.valid
      /\ NotAfter(current_position, next_position)
      /\ current_position' = current_position
      /\ current_position \in Positions /\ next_position \in Positions
      /\ index \in 0 .. Len(input) /\ Len(input) \in Nat
  <2>1. TypeOK /\ pc \in Loops /\ ~next_token.valid
    BY StepEffect DEF PosInv, OwnInv, Validity
  <2>2. current_position' = current_position
    BY StepEffect DEF GoesOn, ReturnsNothing, ReturnsPlain, ReturnsString, Returns
  <2>3. /\ current_position \in Positions /\ next_position \in Positions
        /\ index \in 0 .. Len(input) /\ Len(input) \in Nat
    BY <2>1 DEF TypeOK
  <2> QED
    BY <2>1, <2>2, <2>3 DEF PosInv, Reading
<1>1. NotAfter(current_position', next_position')
  BY <1>0, StepMoves, BeforeIsTransitive
<1>2. ASSUME NEW n \in Nat \ {0}, Advance(n) PROVE Read
  <2>1. Before(next_position, next_position') /\ next_position' \in Positions
    BY <1>0, <1>2, AdvanceMoves
  <2> QED
    BY <1>0, <2>1, BeforeIsTransitive
<1>3. ASSUME Advance(0)
      PROVE  /\ UNCHANGED index
             /\ Before(current_position, next_position) => Read
  <2>1. NotAfter(next_position, next_position') /\ next_position' \in Positions
    BY <1>0, <1>3, AdvanceMoves
  <2>2. UNCHANGED index
    BY <1>0, <1>3 DEF Advance
  <2> QED
    BY <1>0, <2>1, <2>2, BeforeIsTransitive
<1> HIDE DEF Read
<1>4. /\ pc' = "name" => Read \/ Peek(0)' = "letter"
      /\ pc' = "number" => Read \/ Peek(0)' = "digit"
      /\ pc' = "idle" /\ next_token'.valid => Read
  <2> USE DEF Continue, Throw, Finish, Accept, AcceptString, window
  <2>1. CASE AtEnd \/ SkipWhitespace \/ NoMatch \/ SkipLineComment \/ SkipBlockComment
    BY <1>0, <2>1 DEF AtEnd, SkipWhitespace, NoMatch, SkipLineComment, SkipBlockComment
  <2>2. CASE LexSymbol
    BY <1>2, <2>2, FoundSymbols DEF LexSymbol, AcceptSymbol
  <2>3. CASE ParseCharacter \/ ParseString
    BY <1>2, <2>3 DEF ParseCharacter, ParseString
  <2>4. CASE Enter
    BY <1>3, <2>4 DEF Enter, Peek
  <2>5. CASE ParseName
    BY <1>0, <1>2, <1>3, <2>5 DEF ParseName, PosInv, Reading
  <2>6. CASE ParseNumber
    BY <1>0, <1>2, <1>3, <2>6 DEF ParseNumber, PosInv, Reading
  <2> QED
    BY <2>1, <2>2, <2>3, <2>4, <2>5, <2>6 DEF Step
<1> QED
  BY <1>1, <1>4 DEF Reading, PositionsAdvance, Read

LEMMA NextReads == PosInv /\ [Next]_vars => PosInv'
<1> SUFFICES ASSUME PosInv, [Next]_vars PROVE PosInv'
  OBVIOUS
<1>0. OwnInv'
  BY NextOwned DEF PosInv
<1>1. CASE Step
  BY <1>0, <1>1, StepReads DEF PosInv
<1>2. CASE AdvanceTokens
  BY <1>0, <1>2 DEF PosInv, Reading, PositionsAdvance, AdvanceTokens, CleanupLast, NotAfter
<1>3. CASE Destroy
  BY <1>0, <1>3 DEF PosInv, Reading, PositionsAdvance, Destroy, Loops
<1>4. CASE UNCHANGED vars
  BY <1>0, <1>4 DEF PosInv, Reading, PositionsAdvance, vars, window, Peek
<1> QED
  BY <1>1, <1>2, <1>3, <1>4 DEF Next

-----------------------------------------------------------------------------
(***************************************************************************)
(* Comments.                                                               *)
(***************************************************************************)
\* A line comment has met no newline yet, a block comment no end.
Commenting ==
  /\ pc = "line comment" => \A i \in start + 1 .. index + 1 : i <= Len(input) => input[i] # "newline"
  /\ pc = "block comment" => index >= start + 2 /\ \A i \in 1 .. index + 1 : ~Closes(i)

CommentInv == TypeOK /\ Commenting

\* A character seen ahead is in the text, and the reader can advance to it.
LEMMA Ahead ==
  ASSUME TypeOK, NEW k \in Nat
  PROVE  /\ Peek(k) # EOF => index + k < Len(input)
         /\ index + k < Len(input) => Peek(k) = input[index + k + 1]
         /\ Advance(k) /\ index + k <= Len(input) => index' = index + k
         /\ Advance(k) => index' \in index .. index + k /\ index' <= Len(input)
<1>1. index \in Nat /\ index <= Len(input) /\ Len(input) \in Nat
  <2>1. Len(input) \in Nat /\ index \in 0 .. Len(input)
    BY DEF TypeOK
  <2> QED
    BY <2>1
<1>2. /\ Peek(k) # EOF => index + k < Len(input)
      /\ index + k < Len(input) => Peek(k) = input[index + k + 1]
  BY <1>1 DEF Peek
<1>3. Advance(k) => index' = IF index + k <= Len(input) THEN index + k ELSE Len(input)
  BY DEF Advance
<1> QED
  BY <1>1, <1>2, <1>3

\* Nothing is seen ahead only where the text ends.
LEMMA Unread ==
  ASSUME TypeOK, NEW k \in Nat, Peek(k) = EOF
  PROVE  index + k >= Len(input)
<1>1. index \in Nat /\ Len(input) \in Nat /\ input \in [1 .. Len(input) -> Alphabet]
  <2>1. Len(input) \in Nat /\ index \in 0 .. Len(input) /\ input \in [1 .. Len(input) -> Alphabet]
    BY DEF TypeOK
  <2> QED
    BY <2>1
<1>2. ASSUME index + k < Len(input) PROVE FALSE
  <2>1. index + k + 1 \in 1 .. Len(input)
    BY <1>1, <1>2
  <2>2. input[index + k + 1] \in Alphabet
    BY <1>1, <2>1
  <2> QED
    BY <1>2, <2>2, Ahead, AlphabetAssumption
<1> QED
  BY <1>1, <1>2

\* A character of a line comment.
LEMMA LineCommentStep ==
  ASSUME CommentInv, SkipLineComment
  PROVE  /\ Commenting'
         /\ pc' = "dispatch" => EndsLine(index')
         /\ pc' \in {"dispatch", "line comment"}
<1>0. /\ index \in Nat /\ start \in Nat /\ Len(input) \in Nat /\ index <= Len(input)
      /\ TypeOK /\ input' = input /\ start' = start
      /\ \A i \in start + 1 .. index + 1 : i <= Len(input) => input[i] # "newline"
  <2>1. TypeOK /\ pc = "line comment" /\ input' = input /\ start' = start
    BY DEF CommentInv, SkipLineComment
  <2>2. \A i \in start + 1 .. index + 1 : i <= Len(input) => input[i] # "newline"
    BY <2>1 DEF CommentInv, Commenting
  <2>3. Len(input) \in Nat /\ index \in 0 .. Len(input) /\ start \in 0 .. index
    BY <2>1 DEF TypeOK
  <2>4. index \in Nat /\ start \in Nat /\ Len(input) \in Nat /\ index <= Len(input)
    BY <2>3
  <2> QED
    BY <2>1, <2>2, <2>4
<1>1. CASE Peek(1) = "newline" /\ Advance(2) /\ pc' = "dispatch"
  <2>1. index + 1 < Len(input) /\ input[index + 1 + 1] = "newline"
    <3>1. Peek(1) # EOF
      BY <1>1 DEF EOF
    <3>2. index + 1 < Len(input)
      BY <1>0, <3>1, Ahead
    <3> QED
      BY <1>0, <1>1, <3>2, Ahead
  <2>2. index' = index + 2
    BY <1>0, <1>1, <2>1, Ahead
  <2>3. ASSUME NEW i \in start + 1 .. index' - 1 PROVE input[i] # "newline"
    BY <1>0, <2>1, <2>2
  <2>4. input[index'] = "newline"
    BY <1>0, <2>1, <2>2
  <2> QED
    BY <1>1, <2>3, <2>4 DEF Commenting, EndsLine
<1>2. CASE Peek(1) = EOF /\ Advance(1) /\ pc' = "dispatch"
  <2>1. index + 1 >= Len(input)
    BY <1>0, <1>2, Unread
  <2>2. index' = Len(input)
    <3>1. index' = IF index + 1 <= Len(input) THEN index + 1 ELSE Len(input)
      BY <1>2 DEF Advance
    <3> QED
      BY <1>0, <2>1, <3>1
  <2>3. ASSUME NEW i \in start + 1 .. index' - 1 PROVE input[i] # "newline"
    BY <1>0, <2>1, <2>2
  <2> QED
    BY <1>2, <2>2, <2>3 DEF Commenting, EndsLine
<1>3. CASE Peek(1) \notin {"newline", EOF} /\ Advance(1) /\ pc' = "line comment"
  <2>1. index' = index + 1 /\ input[index + 1 + 1] # "newline"
    <3>1. index + 1 < Len(input)
      BY <1>0, <1>3, Ahead
    <3>2. input[index + 1 + 1] # "newline"
      BY <1>0, <1>3, <3>1, Ahead
    <3>3. index' = index + 1
      <4>1. Advance(1)
        BY <1>3
      <4>2. index + 1 <= Len(input)
        BY <1>0, <3>1
      <4> QED
        BY <1>0, <4>1, <4>2, Ahead
    <3> QED
      BY <3>2, <3>3
  <2>2. ASSUME NEW i \in start' + 1 .. index' + 1, i <= Len(input') PROVE input'[i] # "newline"
    <3>1. i \in start + 1 .. index + 1 \/ i = index + 1 + 1
      BY <1>0, <2>1
    <3> QED
      BY <1>0, <2>1, <2>2, <3>1
  <2> QED
    BY <1>3, <2>2 DEF Commenting
<1> QED
  BY <1>1, <1>2, <1>3 DEF SkipLineComment, Continue

\* A character of a block comment.
LEMMA BlockCommentStep ==
  ASSUME CommentInv, SkipBlockComment
  PROVE  /\ Commenting'
         /\ pc' = "dispatch" => EndsBlock(index')
         /\ pc' = "threw" => \A i \in DOMAIN input : ~Closes(i)
<1>0. /\ index \in Nat /\ start \in Nat /\ Len(input) \in Nat /\ index <= Len(input)
      /\ TypeOK /\ input' = input /\ start' = start
      /\ index >= start + 2 /\ \A i \in 1 .. index + 1 : ~Closes(i)
  <2>1. TypeOK /\ pc = "block comment" /\ input' = input /\ start' = start
    BY DEF CommentInv, SkipBlockComment
  <2>2. index >= start + 2 /\ \A i \in 1 .. index + 1 : ~Closes(i)
    BY <2>1 DEF CommentInv, Commenting
  <2>3. Len(input) \in Nat /\ index \in 0 .. Len(input) /\ start \in 0 .. index
    BY <2>1 DEF TypeOK
  <2>4. index \in Nat /\ start \in Nat /\ Len(input) \in Nat /\ index <= Len(input)
    BY <2>3
  <2> QED
    BY <2>1, <2>2, <2>4
<1>1. CASE AtClose /\ Advance(2) /\ pc' = "dispatch"
  <2>1. /\ index' = index + 2 /\ input[index + 0 + 1] = "*" /\ input[index + 1 + 1] = "/"
    <3>1. Peek(0) = "*" /\ Peek(1) = "/" /\ Peek(1) # EOF
      BY <1>1 DEF AtClose, EOF
    <3>2. index + 1 < Len(input) /\ Peek(1) = input[index + 1 + 1]
      BY <1>0, <3>1, Ahead
    <3>3. index + 0 < Len(input)
      BY <1>0, <3>2
    <3>4. Peek(0) = input[index + 0 + 1]
      BY <1>0, <3>3, Ahead
    <3> QED
      BY <1>0, <1>1, <3>1, <3>2, <3>4, Ahead
  <2>2. Closes(index')
    BY <1>0, <2>1 DEF Closes
  <2>3. index' - 1 = index + 1
    BY <1>0, <2>1
  <2> QED
    BY <1>0, <1>1, <2>2, <2>3 DEF Commenting, EndsBlock
<1>2. CASE Peek(1) = EOF /\ pc' = "threw"
  <2>1. index + 1 >= Len(input)
    BY <1>0, <1>2, Unread
  <2>2. ASSUME NEW i \in DOMAIN input PROVE ~Closes(i)
    <3>1. i \in 1 .. Len(input)
      BY <1>0 DEF TypeOK
    <3> QED
      BY <1>0, <2>1, <3>1
  <2> QED
    BY <1>2, <2>2 DEF Commenting
<1>3. CASE ~AtClose /\ Peek(1) # EOF /\ ReadComment /\ pc' = "block comment"
  <2>1. index' = index + 1
    BY <1>3 DEF ReadComment
  <2>2. ~(input[index + 0 + 1] = "*" /\ input[index + 1 + 1] = "/")
    <3>1. index + 1 < Len(input) /\ Peek(1) = input[index + 1 + 1]
      BY <1>0, <1>3, Ahead
    <3>2. index + 0 < Len(input)
      BY <1>0, <3>1
    <3>3. Peek(0) = input[index + 0 + 1]
      BY <1>0, <3>2, Ahead
    <3> QED
      BY <1>3, <3>1, <3>3 DEF AtClose
  <2>3. ASSUME NEW i \in 1 .. index' + 1 PROVE ~Closes(i)'
    <3>1. i \in 1 .. index + 1 \/ (i = index + 1 + 1 /\ i - 1 = index + 0 + 1)
      BY <1>0, <2>1
    <3>2. ~Closes(i)
      BY <1>0, <2>2, <3>1 DEF Closes
    <3> QED
      BY <1>0, <3>2 DEF Closes
  <2>4. index' >= start' + 2
    BY <1>0, <2>1
  <2> QED
    BY <1>3, <2>3, <2>4 DEF Commenting
<1> QED
  BY <1>1, <1>2, <1>3 DEF SkipBlockComment, Continue, Throw

\* The opening of a comment.
LEMMA EnterComment ==
  ASSUME CommentInv, Enter
  PROVE  Commenting'
<1>0. /\ index \in Nat /\ Len(input) \in Nat /\ index <= Len(input)
      /\ TypeOK /\ input' = input /\ start' = index
  <2>1. TypeOK /\ input' = input /\ start' = index
    BY DEF CommentInv, Enter
  <2>2. Len(input) \in Nat /\ index \in 0 .. Len(input)
    BY <2>1 DEF TypeOK
  <2> QED
    BY <2>1, <2>2
<1>1. CASE Peek(0) = "/" /\ Peek(1) = "/" /\ Advance(1) /\ pc' = "line comment"
  <2>1. Peek(0) # EOF /\ Peek(1) # EOF
    BY <1>1 DEF EOF
  <2>2. index' = index + 1 /\ input[index + 0 + 1] = "/" /\ input[index + 1 + 1] = "/"
    <3>1. index + 0 < Len(input) /\ index + 1 < Len(input)
      BY <1>0, <2>1, Ahead
    <3>2. input[index + 0 + 1] = "/"
      BY <1>0, <1>1, <3>1, Ahead
    <3>3. input[index + 1 + 1] = "/"
      BY <1>0, <1>1, <3>1, Ahead
    <3>4. index' = index + 1
      <4>1. Advance(1)
        BY <1>1
      <4>2. index + 1 <= Len(input)
        BY <1>0, <3>1
      <4> QED
        BY <1>0, <4>1, <4>2, Ahead
    <3> QED
      BY <3>2, <3>3, <3>4
  <2>3. ASSUME NEW i \in start' + 1 .. index' + 1 PROVE input'[i] # "newline"
    <3>1. i = index + 0 + 1 \/ i = index + 1 + 1
      BY <1>0, <2>2
    <3> QED
      BY <1>0, <2>2, <3>1
  <2> QED
    BY <1>1, <2>3 DEF Commenting
<1>2. CASE Peek(0) = "/" /\ Peek(1) = "*" /\ Advance(2) /\ pc' = "block comment"
  <2>1. Peek(1) # EOF
    BY <1>2 DEF EOF
  <2>2. index' = index + 2
    <3>1. index + 2 <= Len(input)
      BY <1>0, <2>1, Ahead
    <3> QED
      BY <1>0, <1>2, <3>1, Ahead
  <2>3. ASSUME NEW i \in 1 .. index' + 1 PROVE ~Closes(i)'
    BY <1>0, <2>2 DEF Closes
  <2>4. index' >= start' + 2
    BY <1>0, <2>2
  <2> QED
    BY <1>2, <2>3, <2>4 DEF Commenting
<1>3. CASE pc' \in {"string", "name", "number"}
  BY <1>3 DEF Commenting
<1> QED
  BY <1>1, <1>2, <1>3 DEF Enter, Continue

\* What a step does outside and inside comments.
LEMMA StepComments ==
  ASSUME CommentInv, Step
  PROVE  /\ Commenting'
         /\ pc = "line comment" /\ pc' = "dispatch" => EndsLine(index')
         /\ pc = "block comment" /\ pc' = "dispatch" => EndsBlock(index')
         /\ pc = "block comment" /\ pc' = "threw" => \A i \in DOMAIN input : ~Closes(i)
<1>1. CASE AtEnd \/ SkipWhitespace \/ LexSymbol \/ ParseCharacter \/ NoMatch
           \/ ParseString \/ ParseName \/ ParseNumber
  <2>1. pc \notin {"line comment", "block comment"} /\ pc' \notin {"line comment", "block comment"}
    BY <1>1 DEF AtEnd, SkipWhitespace, LexSymbol, AcceptSymbol, ParseCharacter, NoMatch, ParseString,
       ParseName, ParseNumber, Continue, Throw, Finish, Accept, AcceptString
  <2> QED
    BY <2>1 DEF Commenting
<1>2. CASE Enter
  BY <1>2, EnterComment DEF Enter
<1>3. CASE SkipLineComment
  BY <1>3, LineCommentStep DEF SkipLineComment
<1>4. CASE SkipBlockComment
  BY <1>4, BlockCommentStep DEF SkipBlockComment
<1> QED
  BY <1>1, <1>2, <1>3, <1>4 DEF Step

LEMMA NextComments == CommentInv /\ [Next]_vars => CommentInv'
<1> SUFFICES ASSUME CommentInv, [Next]_vars PROVE Commenting'
  BY NextTyped DEF CommentInv
<1>1. CASE Step
  BY <1>1, StepComments
<1>2. CASE AdvanceTokens \/ Destroy
  BY <1>2 DEF AdvanceTokens, Destroy, Commenting
<1>3. CASE UNCHANGED vars
  BY <1>3 DEF vars, CommentInv, Commenting, Closes
<1> QED
  BY <1>1, <1>2, <1>3 DEF Next

-----------------------------------------------------------------------------
(***************************************************************************)
(* Lines.                                                                  *)
(***************************************************************************)
\* The first characters of a part of a text.
LEMMA Cuts ==
  ASSUME NEW S, NEW s \in Seq(S), NEW i \in Nat, NEW n \in Nat, i + n <= Len(s)
  PROVE  /\ n = 1 => SubSeq(s, i + 1, i + n) = <<s[i + 1]>>
         /\ n = 2 => SubSeq(s, i + 1, i + n) = <<s[i + 1], s[i + 2]>>
         /\ n = 3 => SubSeq(s, i + 1, i + n) = <<s[i + 1], s[i + 2], s[i + 3]>>
<1> DEFINE cut == SubSeq(s, i + 1, i + n)
<1>1. /\ cut \in Seq(S) /\ Len(cut) = n
      /\ \A k \in 1 .. n : cut[k] = s[i + k] /\ s[i + k] \in S
  <2>1. Len(s) \in Nat /\ \A k \in 1 .. Len(s) : s[k] \in S
    BY ElementOfSeq, LenProperties
  <2>2. i + 1 \in Int /\ i + n \in Int /\ \A k \in i + 1 .. i + n : s[k] \in S
    BY <2>1
  <2>3. /\ cut \in Seq(S)
        /\ Len(cut) = IF i + 1 <= i + n THEN i + n - (i + 1) + 1 ELSE 0
        /\ \A k \in 1 .. i + n - (i + 1) + 1 : cut[k] = s[i + 1 + k - 1]
    BY <2>2, SubSeqProperties
  <2> HIDE DEF cut
  <2>4. Len(cut) = n
    BY <2>3
  <2>5. ASSUME NEW k \in 1 .. n PROVE cut[k] = s[i + k] /\ s[i + k] \in S
    <3>1. k \in 1 .. i + n - (i + 1) + 1 /\ i + 1 + k - 1 = i + k /\ i + k \in i + 1 .. i + n
      OBVIOUS
    <3> QED
      BY <2>2, <2>3, <3>1
  <2> QED
    BY <2>3, <2>4, <2>5
<1> HIDE DEF cut
<1>2. CASE n = 1
  <2>1. cut[1] = s[i + 1] /\ s[i + 1] \in S /\ Len(cut) = 1
    BY <1>1, <1>2
  <2>2. <<s[i + 1]>> \in Seq(S) /\ Len(<<s[i + 1]>>) = 1
    BY <2>1
  <2>3. cut = <<s[i + 1]>>
    BY <1>1, <2>1, <2>2, SeqEqual
  <2> QED
    BY <1>2, <2>3 DEF cut
<1>3. CASE n = 2
  <2>1. /\ cut[1] = s[i + 1] /\ cut[2] = s[i + 2] /\ s[i + 1] \in S /\ s[i + 2] \in S
        /\ Len(cut) = 2
    BY <1>1, <1>3
  <2>2. <<s[i + 1], s[i + 2]>> \in Seq(S) /\ Len(<<s[i + 1], s[i + 2]>>) = 2
    BY <2>1
  <2>3. cut = <<s[i + 1], s[i + 2]>>
    <3>1. \A k \in 1 .. Len(cut) : cut[k] = <<s[i + 1], s[i + 2]>>[k]
      BY <2>1
    <3> QED
      BY <1>1, <2>1, <2>2, <3>1, SeqEqual
  <2> QED
    BY <1>3, <2>3 DEF cut
<1>4. CASE n = 3
  <2>1. /\ cut[1] = s[i + 1] /\ cut[2] = s[i + 2] /\ cut[3] = s[i + 3]
        /\ s[i + 1] \in S /\ s[i + 2] \in S /\ s[i + 3] \in S
        /\ Len(cut) = 3
    BY <1>1, <1>4
  <2>2. <<s[i + 1], s[i + 2], s[i + 3]>> \in Seq(S) /\ Len(<<s[i + 1], s[i + 2], s[i + 3]>>) = 3
    BY <2>1
  <2>3. cut = <<s[i + 1], s[i + 2], s[i + 3]>>
    <3>1. \A k \in 1 .. Len(cut) : cut[k] = <<s[i + 1], s[i + 2], s[i + 3]>>[k]
      BY <2>1
    <3> QED
      BY <1>1, <2>1, <2>2, <3>1, SeqEqual
  <2> QED
    BY <1>4, <2>3 DEF cut
<1> QED
  BY <1>2, <1>3, <1>4

\* The text that comes next, as far as it is seen.
LEMMA Seen ==
  ASSUME TypeOK
  PROVE  /\ input \in Seq(Alphabet) /\ index \in Nat /\ Len(input) \in Nat /\ index <= Len(input)
         /\ Peek(0) # EOF => /\ index + 1 <= Len(input)
                             /\ SubSeq(input, index + 1, index + 1) = <<Peek(0)>>
         /\ Peek(1) # EOF => /\ index + 2 <= Len(input)
                             /\ SubSeq(input, index + 1, index + 2) = <<Peek(0), Peek(1)>>
         /\ Peek(2) # EOF => /\ index + 3 <= Len(input)
                             /\ SubSeq(input, index + 1, index + 3) = <<Peek(0), Peek(1), Peek(2)>>
<1>1. input \in Seq(Alphabet) /\ index \in Nat /\ Len(input) \in Nat /\ index <= Len(input)
  <2>1. Len(input) \in Nat /\ input \in [1 .. Len(input) -> Alphabet] /\ index \in 0 .. Len(input)
    BY DEF TypeOK
  <2>2. input \in Seq(Alphabet)
    BY <2>1, SeqDef
  <2> QED
    BY <2>1, <2>2
<1>2. /\ Peek(0) # EOF => index + 1 <= Len(input)
      /\ Peek(1) # EOF => index + 2 <= Len(input)
      /\ Peek(2) # EOF => index + 3 <= Len(input)
      /\ index + 1 <= Len(input) => Peek(0) = input[index + 1]
      /\ index + 2 <= Len(input) => Peek(1) = input[index + 2]
      /\ index + 3 <= Len(input) => Peek(2) = input[index + 3]
  BY <1>1 DEF Peek
<1>3. /\ index + 1 <= Len(input) => SubSeq(input, index + 1, index + 1) = <<input[index + 1]>>
      /\ index + 2 <= Len(input) =>
           SubSeq(input, index + 1, index + 2) = <<input[index + 1], input[index + 2]>>
      /\ index + 3 <= Len(input) =>
           SubSeq(input, index + 1, index + 3) = <<input[index + 1], input[index + 2], input[index + 3]>>
  BY <1>1, Cuts
<1> QED
  BY <1>1, <1>2, <1>3

\* The newlines among the first n characters.
NewlinesUpTo(n) == Cardinality({i \in 1 .. n : input[i] = "newline"})

\* The text has none of the newlines the lexer is known not to count.
Countable == \A i \in 1 .. Len(input), text \in Uncounted : ~Has(i, text)

\* Outside comments the newlines counted are those read; inside a block
\* comment the one that comes next has been counted, too.
Counting ==
  Countable =>
    /\ pc # "line comment"
    /\ pc \in {"idle", "dispatch", "string", "name", "number"} =>
         next_position.line = 1 + NewlinesUpTo(index)
    /\ pc = "block comment" =>
         next_position.line = 1 + NewlinesUpTo(index) + (IF Peek(0) = "newline" THEN 1 ELSE 0)
    /\ pc = "string" => Peek(0) # "newline" /\ Peek(0) # EOF

LineInv == TypeOK /\ Counting

\* One character more.
LEMMA NewlinesGrow ==
  ASSUME NEW n \in Nat, NEW m, m = n + 1
  PROVE  /\ NewlinesUpTo(n) \in Nat
         /\ NewlinesUpTo(m) = NewlinesUpTo(n) + (IF input[m] = "newline" THEN 1 ELSE 0)
<1> DEFINE S(k) == {i \in 1 .. k : input[i] = "newline"}
<1>1. IsFiniteSet(S(n)) /\ Cardinality(S(n)) \in Nat
  <2>1. IsFiniteSet(1 .. n)
    BY FS_Interval
  <2>2. S(n) \in SUBSET (1 .. n)
    OBVIOUS
  <2>3. IsFiniteSet(S(n))
    BY <2>1, <2>2, FS_Subset
  <2> QED
    BY <2>3, FS_CardinalityType
<1>2. NewlinesUpTo(n) = Cardinality(S(n)) /\ NewlinesUpTo(m) = Cardinality(S(m))
  BY DEF NewlinesUpTo
<1>3. CASE input[m] = "newline"
  <2>1. S(m) = S(n) \cup {m} /\ m \notin S(n)
    BY <1>3
  <2>2. Cardinality(S(n) \cup {m}) = Cardinality(S(n)) + 1
    BY <1>1, <2>1, FS_AddElement
  <2> HIDE DEF S
  <2> QED
    BY <1>1, <1>2, <1>3, <2>1, <2>2
<1>4. CASE input[m] # "newline"
  <2>1. S(m) = S(n)
    BY <1>4
  <2> HIDE DEF S
  <2> QED
    BY <1>1, <1>2, <1>4, <2>1
<1> QED
  BY <1>3, <1>4

\* Passing over characters that are no newlines.
LEMMA PassedOver ==
  ASSUME TypeOK, input' = input, NEW n \in 0 .. 3, Advance(n), index + n <= Len(input),
         \A k \in 0 .. 2 : k < n => Peek(k) # "newline",
         next_position.line = 1 + NewlinesUpTo(index)
  PROVE  next_position'.line = 1 + NewlinesUpTo(index)' /\ index' = index + n
<1>0. /\ index \in Nat /\ Len(input) \in Nat /\ index <= Len(input) /\ n \in Nat
      /\ next_position \in Positions
  <2>1. Len(input) \in Nat /\ index \in 0 .. Len(input) /\ next_position \in Positions
    BY DEF TypeOK
  <2> QED
    BY <2>1
<1>1. index' = index + n
  BY <1>0, Ahead
<1>2. next_position'.line = next_position.line
  BY <1>0, AdvanceMoves
<1>3. ASSUME NEW k \in 0 .. 2, k < n PROVE input[index + k + 1] # "newline"
  <2>1. Peek(k) # "newline" /\ index + k < Len(input) /\ k \in Nat
    BY <1>0, <1>3
  <2>2. Peek(k) = input[index + k + 1]
    BY <2>1, Ahead
  <2> QED
    BY <2>1, <2>2
<1>4. NewlinesUpTo(index + n) = NewlinesUpTo(index)
  <2>1. PICK i1, i2, i3 : i1 = index + 1 /\ i2 = index + 2 /\ i3 = index + 3
    OBVIOUS
  <2>2. i1 \in Nat /\ i2 \in Nat /\ i2 = i1 + 1 /\ i3 = i2 + 1
    BY <1>0, <2>1
  <2>3. /\ 0 < n => input[i1] # "newline"
        /\ 1 < n => input[i2] # "newline"
        /\ 2 < n => input[i3] # "newline"
    BY <1>0, <1>3, <2>1
  <2>4. /\ 0 < n => NewlinesUpTo(i1) = NewlinesUpTo(index)
        /\ 1 < n => NewlinesUpTo(i2) = NewlinesUpTo(i1)
        /\ 2 < n => NewlinesUpTo(i3) = NewlinesUpTo(i2)
    <3>1. 0 < n => NewlinesUpTo(i1) = NewlinesUpTo(index)
      <4>1. index \in Nat /\ i1 = index + 1
        BY <1>0, <2>1
      <4>2. /\ NewlinesUpTo(index) \in Nat
            /\ NewlinesUpTo(i1) = NewlinesUpTo(index) + (IF input[i1] = "newline" THEN 1 ELSE 0)
        BY <4>1, NewlinesGrow
      <4> QED
        BY <2>3, <4>2
    <3>2. 1 < n => NewlinesUpTo(i2) = NewlinesUpTo(i1)
      <4>1. i1 \in Nat /\ i2 = i1 + 1
        BY <2>2
      <4>2. /\ NewlinesUpTo(i1) \in Nat
            /\ NewlinesUpTo(i2) = NewlinesUpTo(i1) + (IF input[i2] = "newline" THEN 1 ELSE 0)
        BY <4>1, NewlinesGrow
      <4> QED
        BY <2>3, <4>2
    <3>3. 2 < n => NewlinesUpTo(i3) = NewlinesUpTo(i2)
      <4>1. i2 \in Nat /\ i3 = i2 + 1
        BY <2>2
      <4>2. /\ NewlinesUpTo(i2) \in Nat
            /\ NewlinesUpTo(i3) = NewlinesUpTo(i2) + (IF input[i3] = "newline" THEN 1 ELSE 0)
        BY <4>1, NewlinesGrow
      <4> QED
        BY <2>3, <4>2
    <3> QED
      BY <3>1, <3>2, <3>3
  <2>5. \/ n = 0 /\ index + n = index
        \/ n = 1 /\ index + n = i1
        \/ n = 2 /\ index + n = i2
        \/ n = 3 /\ index + n = i3
    BY <1>0, <2>1
  <2> QED
    BY <2>4, <2>5
<1>5. NewlinesUpTo(index)' = NewlinesUpTo(index')
  BY DEF NewlinesUpTo
<1> QED
  BY <1>1, <1>2, <1>4, <1>5

\* A text that comes next is in the input.
LEMMA Found ==
  ASSUME TypeOK, NEW a \in Alphabet, NEW b \in Alphabet, NEW c \in Alphabet,
         Peek(0) = a, Peek(1) = b
  PROVE  /\ index + 1 \in 1 .. Len(input)
         /\ Has(index + 1, <<a, b>>)
         /\ Peek(2) = c => Has(index + 1, <<a, b, c>>)
<1>1. a # EOF /\ b # EOF /\ c # EOF
  BY AlphabetAssumption
<1>2. /\ index \in Nat /\ Len(input) \in Nat /\ index + 2 <= Len(input)
      /\ SubSeq(input, index + 1, index + 2) = <<a, b>>
      /\ Peek(2) = c => /\ index + 3 <= Len(input)
                        /\ SubSeq(input, index + 1, index + 3) = <<a, b, c>>
  BY <1>1, Seen
<1>3. /\ Len(<<a, b>>) = 2 /\ Len(<<a, b, c>>) = 3
      /\ (index + 1) + 2 - 1 = index + 2 /\ (index + 1) + 3 - 1 = index + 3
  BY <1>2
<1> QED
  BY <1>2, <1>3 DEF Has

\* A step inside a block comment counts the newline that comes next.
LEMMA Recounted ==
  ASSUME TypeOK, ReadComment
  PROVE  next_position'.line = next_position.line + (IF Peek(1) = "newline" THEN 1 ELSE 0)
<1>1. /\ next_position = [line |-> next_position.line, column |-> next_position.column]
      /\ next_position.line \in Nat
  BY DEF TypeOK, Positions
<1>2. CASE Peek(1) = "newline"
  BY <1>1, <1>2 DEF ReadComment
<1>3. CASE Peek(1) # "newline"
  <2>1. next_position' = [next_position EXCEPT !.column = @ + 1]
    BY <1>3 DEF ReadComment
  <2>2. next_position'.line = next_position.line
    BY <1>1, <2>1
  <2> QED
    BY <1>1, <1>3, <2>2
<1> QED
  BY <1>2, <1>3

\* Every step keeps the count of lines.
LEMMA StepCounts ==
  ASSUME LineInv, Step, Countable
  PROVE  Counting'
<1> DEFINE Line == next_position'.line = 1 + NewlinesUpTo(index)'
<1>0. /\ TypeOK /\ input' = input /\ index \in Nat /\ Len(input) \in Nat /\ index <= Len(input)
      /\ pc # "line comment"
      /\ pc \in {"idle", "dispatch", "string", "name", "number"} =>
           next_position.line = 1 + NewlinesUpTo(index)
      /\ pc = "block comment" =>
           next_position.line = 1 + NewlinesUpTo(index) + (IF Peek(0) = "newline" THEN 1 ELSE 0)
      /\ pc = "string" => Peek(0) # "newline" /\ Peek(0) # EOF
  BY StepMoves, Seen DEF LineInv, Counting
<1>1. /\ Peek(0) # EOF => index + 1 <= Len(input)
      /\ Peek(1) # EOF => index + 2 <= Len(input)
      /\ Peek(2) # EOF => index + 3 <= Len(input)
  BY <1>0, Seen
<1>a. index \in Nat /\ Len(input) \in Nat /\ index <= Len(input)
  BY <1>0
<1>b. /\ Peek(0) # EOF => Peek(0) = input[index + 1] /\ Peek(0) \in Alphabet
      /\ Peek(1) # EOF => Peek(1) = input[index + 2] /\ Peek(1) \in Alphabet
      /\ Peek(2) # EOF => Peek(2) = input[index + 3] /\ Peek(2) \in Alphabet
  <2>1. input \in Seq(Alphabet)
    BY <1>0, Seen
  <2>2. \A k \in 1 .. Len(input) : input[k] \in Alphabet
    BY <2>1, ElementOfSeq
  <2>3. /\ Peek(0) # EOF => Peek(0) = input[index + 1]
        /\ Peek(1) # EOF => Peek(1) = input[index + 2]
        /\ Peek(2) # EOF => Peek(2) = input[index + 3]
    BY <1>a, <1>1 DEF Peek
  <2> QED
    BY <1>a, <1>1, <2>2, <2>3
<1>c. /\ index' = index => Peek(0)' = Peek(0)
      /\ index' = index + 1 => Peek(0)' = Peek(1)
      /\ index' = index + 2 => Peek(0)' = Peek(2)
  <2>1. input' = input
    BY <1>0
  <2> QED
    BY <1>a, <2>1 DEF Peek
<1>d. NewlinesUpTo(index) \in Nat /\ NewlinesUpTo(index)' = NewlinesUpTo(index')
  <2>1. input' = input
    BY <1>0
  <2>2. NewlinesUpTo(index) \in Nat
    BY <1>a, NewlinesGrow
  <2> QED
    BY <2>1, <2>2 DEF NewlinesUpTo
<1>e. index' \in Nat /\ NewlinesUpTo(index') \in Nat
  <2>1. index' \in index .. Len(input)
    BY <1>0, StepMoves
  <2>2. index' \in Nat
    BY <1>a, <2>1
  <2> QED
    BY <2>2, NewlinesGrow
<1>2. ASSUME next_position.line = 1 + NewlinesUpTo(index)
      PROVE  /\ Advance(0) => Line /\ index' = index
             /\ Advance(1) /\ Peek(0) \notin {EOF, "newline"} => Line /\ index' = index + 1
             /\ Advance(2) /\ Peek(1) # EOF /\ "newline" \notin {Peek(0), Peek(1)} =>
                  Line /\ index' = index + 2
             /\ Advance(3) /\ Peek(2) # EOF /\ "newline" \notin {Peek(0), Peek(1), Peek(2)} =>
                  Line /\ index' = index + 3
  <2> HIDE DEF Line
  <2>1. ASSUME NEW n \in 0 .. 3, Advance(n), index + n <= Len(input),
               \A k \in 0 .. 2 : k < n => Peek(k) # "newline"
        PROVE  Line /\ index' = index + n
    BY <1>0, <1>2, <2>1, PassedOver DEF Line
  <2>2. Advance(0) => Line /\ index' = index
    <3>1. index + 0 <= Len(input) /\ index + 0 = index /\ \A k \in 0 .. 2 : ~(k < 0)
      BY <1>a
    <3> QED
      BY <2>1, <3>1
  <2>3. Advance(1) /\ Peek(0) \notin {EOF, "newline"} => Line /\ index' = index + 1
    <3>1. \A k \in 0 .. 2 : k < 1 => k = 0
      OBVIOUS
    <3> QED
      BY <1>1, <2>1, <3>1
  <2>4. Advance(2) /\ Peek(1) # EOF /\ "newline" \notin {Peek(0), Peek(1)} => Line /\ index' = index + 2
    <3>1. \A k \in 0 .. 2 : k < 2 => k = 0 \/ k = 1
      OBVIOUS
    <3> QED
      BY <1>1, <2>1, <3>1
  <2>5. Advance(3) /\ Peek(2) # EOF /\ "newline" \notin {Peek(0), Peek(1), Peek(2)} =>
          Line /\ index' = index + 3
    <3>1. \A k \in 0 .. 2 : k < 3 => k = 0 \/ k = 1 \/ k = 2
      OBVIOUS
    <3> QED
      BY <1>1, <2>1, <3>1
  <2> QED
    BY <2>2, <2>3, <2>4, <2>5
<1>3. ASSUME next_position.line = 1 + NewlinesUpTo(index), Peek(0) = "newline", AdvanceLine
      PROVE  Line
  <2>1. index' = index + 1 /\ next_position'.line = next_position.line + 1
    BY <1>3 DEF AdvanceLine
  <2>2. input[index'] = "newline"
    <3>1. Peek(0) = input[index + 1]
      BY <1>b, <1>3 DEF EOF
    <3> QED
      BY <1>3, <2>1, <3>1
  <2>3. NewlinesUpTo(index)' = NewlinesUpTo(index')
    BY <1>d
  <2>4. NewlinesUpTo(index') = NewlinesUpTo(index) + 1 /\ NewlinesUpTo(index) \in Nat
    BY <1>0, <2>1, <2>2, NewlinesGrow
  <2> QED
    BY <1>3, <2>1, <2>3, <2>4
<1> DEFINE Outside == /\ pc' \in {"idle", "dispatch", "string", "name", "number"} => Line
                      /\ pc' \notin {"line comment", "block comment"}
                      /\ pc' = "string" => Peek(0)' # "newline" /\ Peek(0)' # EOF
<1>4. Outside => Counting'
  BY DEF Counting
<1> HIDE DEF Line
<1> USE DEF Continue, Throw, Finish, Accept, AcceptString
<1>5. CASE AtEnd \/ NoMatch
  <2>1. UNCHANGED <<input, index, next_position>> /\ pc = "dispatch" /\ pc' \in {"idle", "threw"}
    BY <1>5 DEF AtEnd, NoMatch
  <2>2. NewlinesUpTo(index)' = NewlinesUpTo(index)
    BY <2>1 DEF NewlinesUpTo
  <2> QED
    BY <1>0, <1>4, <2>1, <2>2 DEF Line
<1>6. CASE SkipWhitespace
  <2>1. Line /\ pc' = "dispatch"
    BY <1>0, <1>2, <1>3, <1>6 DEF SkipWhitespace, EOF
  <2> QED
    BY <1>4, <2>1
<1>7. CASE LexSymbol
  <2>0. next_position.line = 1 + NewlinesUpTo(index) /\ pc' = "idle"
    BY <1>0, <1>7 DEF LexSymbol, AcceptSymbol
  <2>1. ASSUME Peek(0) = "<", Advance(LessSymbol[2]) PROVE Line
    <3>1. LessSymbol[2] = 3 => Peek(1) = "-" /\ Peek(2) = ">"
      BY DEF LessSymbol
    <3>2. LessSymbol[2] = 2 => Peek(1) \in {"-", "="}
      BY DEF LessSymbol
    <3>3. LessSymbol[2] \in {1, 2, 3}
      BY DEF LessSymbol
    <3> QED
      <4>1. CASE LessSymbol[2] = 1 /\ Advance(1)
        BY <1>2, <2>0, <2>1, <4>1 DEF EOF
      <4>2. CASE LessSymbol[2] = 2 /\ Advance(2)
        BY <1>2, <2>0, <2>1, <3>2, <4>2 DEF EOF
      <4>3. CASE LessSymbol[2] = 3 /\ Advance(3)
        BY <1>2, <2>0, <2>1, <3>1, <4>3 DEF EOF
      <4> QED
        BY <2>1, <3>3, <4>1, <4>2, <4>3 DEF Advance
  <2>2. ASSUME Peek(0) \in DOMAIN Suffixed, Advance(SuffixedSymbol(Peek(0))[2]) PROVE Line
    <3>1. Peek(0) \notin {EOF, "newline"} /\ Suffixed[Peek(0)][1] \notin {EOF, "newline"}
      BY <2>2 DEF Suffixed, EOF
    <3> QED
      <4>1. /\ SuffixedSymbol(Peek(0))[2] \in {1, 2}
            /\ SuffixedSymbol(Peek(0))[2] = 2 => Peek(1) = Suffixed[Peek(0)][1]
        BY DEF SuffixedSymbol
      <4> QED
        <5>1. CASE SuffixedSymbol(Peek(0))[2] = 1 /\ Advance(1)
          BY <1>2, <2>0, <3>1, <5>1
        <5>2. CASE SuffixedSymbol(Peek(0))[2] = 2 /\ Advance(2)
          BY <1>2, <2>0, <3>1, <4>1, <5>2
        <5> QED
          BY <2>2, <4>1, <5>1, <5>2 DEF Advance
  <2>3. ASSUME Peek(0) \in DOMAIN Single, Advance(1) PROVE Line
    <3>1. Peek(0) \notin {EOF, "newline"}
      BY <2>3 DEF Single, EOF
    <3> QED
      BY <1>2, <2>0, <2>3, <3>1
  <2>4. Line
    <3>1. Advance(<<Single[Peek(0)], 1>>[2]) => Advance(1)
      BY DEF Advance
    <3> QED
      BY <1>7, <2>1, <2>2, <2>3, <3>1 DEF LexSymbol, AcceptSymbol
  <2> QED
    BY <1>4, <2>0, <2>4
<1>8. CASE Enter
  <2>0. next_position.line = 1 + NewlinesUpTo(index)
    BY <1>0, <1>8 DEF Enter
  <2>1. CASE Peek(0) = "/" /\ Peek(1) = "/"
    <3>1. "/" \in Alphabet
      BY <1>b, <2>1 DEF EOF
    <3>2. Has(index + 1, <<"/", "/">>) /\ index + 1 \in 1 .. Len(input)
      BY <1>0, <2>1, <3>1, Found
    <3> QED
      BY <3>2 DEF Countable, Uncounted
  <2>2. CASE Peek(0) = "/" /\ Peek(1) = "*" /\ Advance(2) /\ pc' = "block comment"
    <3>1. Line /\ index' = index + 2
      BY <1>2, <2>0, <2>2 DEF EOF
    <3>2. Peek(0)' = Peek(2)
      BY <1>c, <3>1
    <3>3. Peek(2) # "newline"
      <4> SUFFICES ASSUME Peek(2) = "newline" PROVE FALSE
        OBVIOUS
      <4>1. "/" \in Alphabet /\ "*" \in Alphabet /\ "newline" \in Alphabet
        BY <1>b, <2>2 DEF EOF
      <4>2. Has(index + 1, <<"/", "*", "newline">>) /\ index + 1 \in 1 .. Len(input)
        BY <1>0, <2>2, <4>1, Found
      <4> QED
        BY <4>2 DEF Countable, Uncounted
    <3>4. NewlinesUpTo(index)' \in Nat
      BY <1>d, <1>e
    <3> QED
      <4>1. next_position'.line = 1 + NewlinesUpTo(index)' + 0
        BY <3>1, <3>4 DEF Line
      <4> QED
        BY <2>2, <3>2, <3>3, <4>1 DEF Counting
  <2>3. CASE Peek(0) \in {"quote", "letter", "digit"} /\ Advance(0) /\ pc' \in {"string", "name", "number"}
    <3>1. Line /\ index' = index
      BY <1>2, <2>0, <2>3
    <3>2. Peek(0)' = Peek(0)
      BY <1>c, <3>1
    <3> QED
      BY <1>4, <2>3, <3>1, <3>2 DEF EOF
  <2> QED
    BY <1>8, <2>1, <2>2, <2>3 DEF Enter
<1>9. CASE ParseCharacter
  <2>0. next_position.line = 1 + NewlinesUpTo(index) /\ Peek(0) = "apostrophe"
    BY <1>0, <1>9 DEF ParseCharacter
  <2>1. CASE Peek(2) = "apostrophe" /\ Advance(3) /\ pc' = "idle"
    <3>1. Peek(1) # "newline"
      <4> SUFFICES ASSUME Peek(1) = "newline" PROVE FALSE
        OBVIOUS
      <4>1. "apostrophe" \in Alphabet /\ "newline" \in Alphabet
        BY <1>b, <2>0 DEF EOF
      <4>2. Has(index + 1, <<"apostrophe", "newline">>) /\ index + 1 \in 1 .. Len(input)
        BY <1>0, <2>0, <4>1, Found
      <4> QED
        BY <4>2 DEF Countable, Uncounted
    <3>2. Line
      BY <1>2, <2>0, <2>1, <3>1 DEF EOF
    <3> QED
      BY <1>4, <2>1, <3>2
  <2> QED
    BY <1>4, <1>9, <2>1 DEF ParseCharacter
<1>10. CASE SkipLineComment
  BY <1>0, <1>10 DEF SkipLineComment
<1>11. CASE SkipBlockComment
  <2>0. pc = "block comment"
    BY <1>11 DEF SkipBlockComment
  <2>1. CASE AtClose /\ Advance(2) /\ pc' = "dispatch"
    <3>1. next_position.line = 1 + NewlinesUpTo(index) + 0 /\ NewlinesUpTo(index) \in Nat
      BY <1>0, <2>0, <2>1, NewlinesGrow DEF AtClose
    <3>2. Line
      BY <1>2, <2>1, <3>1 DEF AtClose, EOF
    <3> QED
      BY <1>4, <2>1, <3>2
  <2>2. CASE ~AtClose /\ Peek(1) # EOF /\ ReadComment /\ pc' = "block comment"
    <3>1. /\ index' = index + 1
          /\ next_position'.line = next_position.line + (IF Peek(1) = "newline" THEN 1 ELSE 0)
      BY <1>0, <2>2, Recounted DEF ReadComment
    <3>2. Peek(0)' = Peek(1)
      BY <1>c, <3>1
    <3>3. Peek(0) = input[index']
      <4>1. index + 2 <= Len(input)
        BY <1>1, <2>2
      <4> QED
        BY <1>a, <3>1, <4>1 DEF Peek
    <3>4. /\ NewlinesUpTo(index') = NewlinesUpTo(index) + (IF Peek(0) = "newline" THEN 1 ELSE 0)
          /\ NewlinesUpTo(index) \in Nat
      BY <1>a, <3>1, <3>3, NewlinesGrow
    <3>5. NewlinesUpTo(index)' = NewlinesUpTo(index')
      BY <1>d
    <3>6. next_position'.line =
            1 + NewlinesUpTo(index)' + (IF Peek(0)' = "newline" THEN 1 ELSE 0)
      <4>1. next_position.line = 1 + NewlinesUpTo(index) + (IF Peek(0) = "newline" THEN 1 ELSE 0)
        BY <1>0, <2>0
      <4> QED
        BY <3>1, <3>2, <3>4, <3>5, <4>1
    <3> QED
      BY <2>2, <3>6 DEF Counting
  <2> QED
    BY <1>4, <1>11, <2>1, <2>2 DEF SkipBlockComment
<1>12. CASE ParseString
  <2>0. /\ next_position.line = 1 + NewlinesUpTo(index)
        /\ Peek(0) \notin {"newline", EOF} /\ pc = "string"
    BY <1>0, <1>12 DEF ParseString
  <2>1. CASE Peek(1) = "quote" /\ Advance(2) /\ pc' = "idle"
    BY <1>2, <1>4, <2>0, <2>1 DEF EOF
  <2>2. CASE Peek(1) = "backslash" /\ (Escaped(Peek(2)) \/ Peek(2) = "letter") /\ Advance(2) /\ pc' = "string"
    <3>1. Line /\ index' = index + 2
      BY <1>2, <2>0, <2>2 DEF EOF
    <3>2. Peek(0)' = Peek(2)
      BY <1>c, <3>1
    <3> QED
      BY <1>4, <2>2, <3>1, <3>2 DEF Escaped, EOF
  <2>3. CASE Peek(1) \notin {"quote", "newline", EOF, "backslash"} /\ Advance(1) /\ pc' = "string"
    <3>1. Line /\ index' = index + 1
      BY <1>2, <2>0, <2>3 DEF EOF
    <3>2. Peek(0)' = Peek(1)
      BY <1>c, <3>1
    <3> QED
      BY <1>4, <2>3, <3>1, <3>2
  <2> QED
    BY <1>4, <1>12, <2>1, <2>2, <2>3 DEF ParseString
<1>13. CASE ParseName \/ ParseNumber
  <2>1. Line /\ pc' \in {"idle", "name", "number", "threw"}
    BY <1>0, <1>2, <1>13 DEF ParseName, ParseNumber, EOF
  <2> QED
    BY <1>4, <2>1
<1> QED
  BY <1>5, <1>6, <1>7, <1>8, <1>9, <1>10, <1>11, <1>12, <1>13 DEF Step

LEMMA NextCounts == LineInv /\ [Next]_vars => LineInv'
<1> SUFFICES ASSUME LineInv, [Next]_vars, Countable' PROVE Counting'
  BY NextTyped DEF LineInv, Counting
<1>0. input' = input
  BY StepMoves DEF LineInv, Next, AdvanceTokens, Destroy, vars
<1>1. Countable
  BY <1>0 DEF Countable, Has
<1>2. CASE Step
  BY <1>1, <1>2, StepCounts
<1>3. CASE AdvanceTokens \/ Destroy
  <2>1. /\ UNCHANGED <<input, index, next_position>>
        /\ (pc = "idle" /\ pc' = "dispatch") \/ pc' = "destroyed"
    BY <1>3 DEF AdvanceTokens, Destroy
  <2>2. NewlinesUpTo(index)' = NewlinesUpTo(index)
    BY <2>1 DEF NewlinesUpTo
  <2> QED
    BY <1>1, <2>1, <2>2 DEF LineInv, Counting
<1>4. CASE UNCHANGED vars
  BY <1>1, <1>4 DEF vars, LineInv, Counting, NewlinesUpTo, Peek
<1> QED
  BY <1>2, <1>3, <1>4 DEF Next


-----------------------------------------------------------------------------
(***************************************************************************)
(* The longest token.                                                      *)
(***************************************************************************)
\* The two tables of the switch, entry by entry.
LEMMA SuffixedTable ==
  /\ DOMAIN Suffixed = {"+", "-", "*", "/", "%", "!", "|", "&", ">"}
  /\ Suffixed["+"] = <<"=", "ADDEQUALS", "ADD">> /\ Suffixed["-"] = <<"=", "SUBEQUALS", "SUB">>
  /\ Suffixed["*"] = <<"=", "MULEQUALS", "MUL">> /\ Suffixed["/"] = <<"=", "DIVEQUALS", "DIV">>
  /\ Suffixed["%"] = <<"=", "MODEQUALS", "MOD">> /\ Suffixed["!"] = <<"=", "NOTEQUALS", "LOGNOT">>
  /\ Suffixed["|"] = <<"|", "LOGOR", "BINOR">> /\ Suffixed["&"] = <<"&", "LOGAND", "BINAND">>
  /\ Suffixed[">"] = <<"=", "GREATEREQUALS", "GREATER">>
BY DEF Suffixed

LEMMA SingleTable ==
  /\ DOMAIN Single = {"(", ")", "[", "]", "{", "}", ".", ";", ",", "=", "~", ":", "?"}
  /\ Single["("] = "LPAREN" /\ Single[")"] = "RPAREN" /\ Single["["] = "LSQUARE"
  /\ Single["]"] = "RSQUARE" /\ Single["{"] = "LBRACE" /\ Single["}"] = "RBRACE"
  /\ Single["."] = "DOT" /\ Single[";"] = "SEMICOLON" /\ Single[","] = "COMMA"
  /\ Single["="] = "EQUALS" /\ Single["~"] = "BINNOT" /\ Single[":"] = "COLON"
  /\ Single["?"] = "TERNARY"
BY DEF Single

\* No two entries make the same symbol.
LEMMA TablesAreInjective ==
  /\ \A c, d \in DOMAIN Suffixed :
       /\ Suffixed[c][2] = Suffixed[d][2] => c = d
       /\ Suffixed[c][3] = Suffixed[d][3] => c = d
       /\ Suffixed[c][2] # Suffixed[d][3]
  /\ \A c, d \in DOMAIN Single : Single[c] = Single[d] => c = d
  /\ \A c \in DOMAIN Suffixed, d \in DOMAIN Single :
       Suffixed[c][2] # Single[d] /\ Suffixed[c][3] # Single[d]
<1>1. ASSUME NEW c \in DOMAIN Suffixed, NEW d \in DOMAIN Suffixed
      PROVE  /\ Suffixed[c][2] = Suffixed[d][2] => c = d
             /\ Suffixed[c][3] = Suffixed[d][3] => c = d
             /\ Suffixed[c][2] # Suffixed[d][3]
  BY SuffixedTable
<1> DEFINE written ==
      [LPAREN |-> "(", RPAREN |-> ")", LSQUARE |-> "[", RSQUARE |-> "]", LBRACE |-> "{",
       RBRACE |-> "}", DOT |-> ".", SEMICOLON |-> ";", COMMA |-> ",", EQUALS |-> "=",
       BINNOT |-> "~", COLON |-> ":", TERNARY |-> "?"]
<1>2. ASSUME NEW c \in DOMAIN Single, NEW d \in DOMAIN Single
      PROVE  Single[c] = Single[d] => c = d
  <2>1. /\ written.LPAREN = "(" /\ written.RPAREN = ")" /\ written.LSQUARE = "["
        /\ written.RSQUARE = "]" /\ written.LBRACE = "{" /\ written.RBRACE = "}"
        /\ written.DOT = "." /\ written.SEMICOLON = ";" /\ written.COMMA = ","
        /\ written.EQUALS = "=" /\ written.BINNOT = "~" /\ written.COLON = ":"
        /\ written.TERNARY = "?"
    OBVIOUS
  <2> HIDE DEF written
  <2>2. ASSUME NEW e \in DOMAIN Single PROVE written[Single[e]] = e
    <3>1. CASE e = "("
      BY <3>1, <2>1, SingleTable
    <3>2. CASE e = ")"
      BY <3>2, <2>1, SingleTable
    <3>3. CASE e = "["
      BY <3>3, <2>1, SingleTable
    <3>4. CASE e = "]"
      BY <3>4, <2>1, SingleTable
    <3>5. CASE e = "{"
      BY <3>5, <2>1, SingleTable
    <3>6. CASE e = "}"
      BY <3>6, <2>1, SingleTable
    <3>7. CASE e = "."
      BY <3>7, <2>1, SingleTable
    <3>8. CASE e = ";"
      BY <3>8, <2>1, SingleTable
    <3>9. CASE e = ","
      BY <3>9, <2>1, SingleTable
    <3>10. CASE e = "="
      BY <3>10, <2>1, SingleTable
    <3>11. CASE e = "~"
      BY <3>11, <2>1, SingleTable
    <3>12. CASE e = ":"
      BY <3>12, <2>1, SingleTable
    <3>13. CASE e = "?"
      BY <3>13, <2>1, SingleTable
    <3> QED
      BY SingleTable, <3>1, <3>2, <3>3, <3>4, <3>5, <3>6, <3>7, <3>8, <3>9, <3>10, <3>11, <3>12, <3>13
  <2> QED
    BY <2>2
<1>3. ASSUME NEW c \in DOMAIN Suffixed, NEW d \in DOMAIN Single
      PROVE  Suffixed[c][2] # Single[d] /\ Suffixed[c][3] # Single[d]
  <2>1. Single[d] \in DOMAIN written
    BY SingleTable
  <2>2. Suffixed[c][2] \notin DOMAIN written /\ Suffixed[c][3] \notin DOMAIN written
    BY SuffixedTable
  <2> HIDE DEF written
  <2> QED
    BY <2>1, <2>2
<1> QED
  BY <1>1, <1>2, <1>3

\* How the symbols are written.
LEMMA Spellings ==
  /\ Spelling("SWAP") = <<"<", "-", ">">> /\ Spelling("ASSIGN") = <<"<", "-">>
  /\ Spelling("LESSEQUALS") = <<"<", "=">> /\ Spelling("LESS") = <<"<">>
  /\ \A c \in DOMAIN Suffixed :
       /\ Spelling(Suffixed[c][2]) = <<c, Suffixed[c][1]>>
       /\ Spelling(Suffixed[c][3]) = <<c>>
  /\ \A c \in DOMAIN Single : Spelling(Single[c]) = <<c>>
<1>1. /\ Spelling("SWAP") = <<"<", "-", ">">> /\ Spelling("ASSIGN") = <<"<", "-">>
      /\ Spelling("LESSEQUALS") = <<"<", "=">> /\ Spelling("LESS") = <<"<">>
  BY DEF Spelling
<1> DEFINE single(s) == {c \in DOMAIN Single : Single[c] = s}
           short(s) == {c \in DOMAIN Suffixed : Suffixed[c][3] = s}
           long(s) == {c \in DOMAIN Suffixed : Suffixed[c][2] = s}
<1>2. ASSUME NEW s, s \notin {"SWAP", "ASSIGN", "LESSEQUALS", "LESS"}
      PROVE  /\ \A c : long(s) = {c} => Spelling(s) = <<c, Suffixed[c][1]>>
             /\ \A c : long(s) = {} /\ single(s) \cup short(s) = {c} => Spelling(s) = <<c>>
  <2>1. Spelling(s) = IF long(s) # {} THEN LET c == CHOOSE c \in long(s) : TRUE IN <<c, Suffixed[c][1]>>
                      ELSE <<CHOOSE c \in single(s) \cup short(s) : TRUE>>
    BY <1>2 DEF Spelling
  <2> HIDE DEF single, short, long
  <2>2. \A c : (CHOOSE x \in {c} : TRUE) = c
    OBVIOUS
  <2> QED
    BY <2>1, <2>2
<1>3. ASSUME NEW c \in DOMAIN Suffixed
      PROVE  /\ Spelling(Suffixed[c][2]) = <<c, Suffixed[c][1]>>
             /\ Spelling(Suffixed[c][3]) = <<c>>
  <2>1. Suffixed[c][2] \notin {"SWAP", "ASSIGN", "LESSEQUALS", "LESS"}
        /\ Suffixed[c][3] \notin {"SWAP", "ASSIGN", "LESSEQUALS", "LESS"}
    BY <1>3, SuffixedTable
  <2>2. long(Suffixed[c][2]) = {c}
    BY <1>3, TablesAreInjective
  <2>3. long(Suffixed[c][3]) = {} /\ single(Suffixed[c][3]) \cup short(Suffixed[c][3]) = {c}
    BY <1>3, TablesAreInjective
  <2> HIDE DEF single, short, long
  <2> QED
    BY <1>2, <2>1, <2>2, <2>3
<1>4. ASSUME NEW c \in DOMAIN Single
      PROVE  Spelling(Single[c]) = <<c>>
  <2>1. Single[c] \notin {"SWAP", "ASSIGN", "LESSEQUALS", "LESS"}
    BY <1>4, SingleTable
  <2>2. long(Single[c]) = {} /\ single(Single[c]) \cup short(Single[c]) = {c}
    BY <1>4, TablesAreInjective
  <2> HIDE DEF single, short, long
  <2> QED
    BY <1>2, <2>1, <2>2
<1> QED
  BY <1>1, <1>3, <1>4

\* What may be one character longer.
LEMMA Longer ==
  ASSUME NEW x
  PROVE  /\ \A c \in DOMAIN Single : ~IsToken("SYMBOL", <<c, x>>)
         /\ \A c \in DOMAIN Suffixed :
              /\ x # Suffixed[c][1] => ~IsToken("SYMBOL", <<c, x>>)
              /\ \A d : ~IsToken("SYMBOL", <<c, d, x>>)
         /\ x \notin {"-", "="} => ~IsToken("SYMBOL", <<"<", x>>)
         /\ x # ">" => ~IsToken("SYMBOL", <<"<", "-", x>>)
         /\ ~IsToken("SYMBOL", <<"<", "=", x>>)
         /\ ~IsToken("SYMBOL", <<"<", "-", ">", x>>)
<1>1. ASSUME NEW s \in Symbols
      PROVE  \/ Spelling(s) \in {<<"<", "-", ">">>, <<"<", "-">>, <<"<", "=">>, <<"<">>}
             \/ \E c \in DOMAIN Suffixed : Spelling(s) \in {<<c, Suffixed[c][1]>>, <<c>>}
             \/ \E c \in DOMAIN Single : Spelling(s) = <<c>>
  BY Spellings DEF Symbols
<1>2. "<" \notin DOMAIN Suffixed /\ "<" \notin DOMAIN Single /\ DOMAIN Suffixed \cap DOMAIN Single = {}
  BY SuffixedTable, SingleTable
<1>3. \A a, b, c, d, e, f :
        /\ <<a>> # <<c, d>> /\ <<a, b>> # <<c, d, e>> /\ <<a>> # <<c, d, e>>
        /\ <<a>> # <<c, d, e, f>> /\ <<a, b>> # <<c, d, e, f>> /\ <<a, b, c>> # <<c, d, e, f>>
  OBVIOUS
<1>4. ASSUME NEW t, NEW u, IsToken("SYMBOL", <<t, u>>)
      PROVE  \/ t = "<" /\ u \in {"-", "="}
             \/ t \in DOMAIN Suffixed /\ u = Suffixed[t][1]
  <2>1. PICK s \in Symbols : Spelling(s) = <<t, u>>
    BY <1>4 DEF IsToken
  <2>2. \A c, d : <<t, u>> = <<c, d>> => t = c /\ u = d
    OBVIOUS
  <2>3. \A c : <<t, u>> # <<c>>
    OBVIOUS
  <2>4. <<t, u>> # <<"<", "-", ">">>
    OBVIOUS
  <2> QED
    BY <1>1, <2>1, <2>2, <2>3, <2>4
<1>5. ASSUME NEW t, NEW u, NEW v, IsToken("SYMBOL", <<t, u, v>>)
      PROVE  t = "<" /\ u = "-" /\ v = ">"
  <2>1. PICK s \in Symbols : Spelling(s) = <<t, u, v>>
    BY <1>5 DEF IsToken
  <2>2. \A c, d : <<t, u, v>> # <<c, d>>
    OBVIOUS
  <2>3. \A c : <<t, u, v>> # <<c>>
    OBVIOUS
  <2> QED
    BY <1>1, <2>1, <2>2, <2>3
<1>6. ~IsToken("SYMBOL", <<"<", "-", ">", x>>)
  <2> SUFFICES ASSUME IsToken("SYMBOL", <<"<", "-", ">", x>>) PROVE FALSE
    OBVIOUS
  <2>1. PICK s \in Symbols : Spelling(s) = <<"<", "-", ">", x>>
    BY DEF IsToken
  <2> QED
    BY <1>1, <2>1
<1> QED
  BY <1>2, <1>4, <1>5, <1>6


\* What a scanner has read: characters of "rest", the first of them "first".
Scanned(first, rest) ==
  /\ \A i \in start + 1 .. index : input[i] \in rest
  /\ IF index = start THEN Peek(0) = first ELSE input[start + 1] = first

Scanning ==
  /\ pc = "name" => Scanned("letter", {"letter", "digit"})
  /\ pc = "number" => Scanned("digit", {"digit", "."})

MaxInv == OwnInv /\ Scanning /\ TokensAreMaximal

\* A scanner reads a character.
LEMMA ScanOn ==
  ASSUME TypeOK, UNCHANGED <<input, start>>, Advance(1), NEW first, NEW rest,
         Scanned(first, rest), Peek(0) \in rest, EOF \notin rest
  PROVE  Scanned(first, rest)'
<1>1. /\ index \in Nat /\ start \in Nat /\ start <= index /\ Len(input) \in Nat
      /\ index + 1 <= Len(input) /\ Peek(0) = input[index + 1]
  <2>1. Len(input) \in Nat /\ index \in 0 .. Len(input) /\ start \in 0 .. index
    BY DEF TypeOK
  <2> QED
    BY <2>1 DEF Peek
<1>2. index' = index + 1
  BY <1>1 DEF Advance
<1>3. ASSUME NEW i \in start' + 1 .. index' PROVE input'[i] \in rest
  <2>1. i \in start + 1 .. index \/ i = index + 1
    BY <1>1, <1>2
  <2> QED
    BY <1>1, <2>1 DEF Scanned
<1>4. index' # start' /\ input'[start' + 1] = first
  BY <1>1, <1>2 DEF Scanned
<1> QED
  BY <1>3, <1>4 DEF Scanned

\* A scanner ends at a character that is not of its token.
LEMMA ScanEnds ==
  ASSUME TypeOK, NEW first, NEW rest, first \in rest,
         Scanned(first, rest), Peek(0) \notin rest
  PROVE  /\ Lexeme[1] = first /\ Ranges(Lexeme) \subseteq rest
         /\ ~(Ranges(Append(Lexeme, Peek(0))) \subseteq rest)
<1>1. /\ index \in Nat /\ start \in Nat /\ start <= index /\ Len(input) \in Nat /\ index <= Len(input)
      /\ input \in Seq(Alphabet)
  <2>1. start \in 0 .. index
    BY DEF TypeOK
  <2> QED
    BY <2>1, Seen
<1>2. index # start /\ input[start + 1] = first
  BY DEF Scanned
<1>3. \A i \in start + 1 .. index : input[i] \in Alphabet
  BY <1>1, ElementOfSeq
<1>4. /\ Lexeme \in Seq(Alphabet) /\ Len(Lexeme) = index - start
      /\ \A i \in 1 .. index - start : Lexeme[i] = input[start + i]
  <2>1. start + 1 \in Int /\ index \in Int
    BY <1>1
  <2>2. /\ Lexeme \in Seq(Alphabet)
        /\ Len(Lexeme) = IF start + 1 <= index THEN index - (start + 1) + 1 ELSE 0
        /\ \A i \in 1 .. index - (start + 1) + 1 : Lexeme[i] = input[start + 1 + i - 1]
    BY <1>3, <2>1, SubSeqProperties DEF Lexeme
  <2>3. \A i \in 1 .. index - start : i \in 1 .. index - (start + 1) + 1 /\ start + 1 + i - 1 = start + i
    BY <1>1
  <2>4. Len(Lexeme) = index - start
    BY <1>1, <2>2
  <2>5. \A i \in 1 .. index - start : Lexeme[i] = input[start + i]
    BY <2>2, <2>3
  <2> QED
    BY <2>2, <2>4, <2>5
<1>5. Lexeme[1] = first
  <2>1. 1 \in 1 .. index - start
    BY <1>1, <1>2
  <2> QED
    BY <1>2, <1>4, <2>1
<1>6. ASSUME NEW i \in DOMAIN Lexeme PROVE Lexeme[i] \in rest
  <2>1. i \in 1 .. index - start
    BY <1>1, <1>4
  <2>2. start + i \in start + 1 .. index
    BY <1>1, <2>1
  <2> QED
    BY <1>4, <2>1, <2>2 DEF Scanned
<1>7. Peek(0) \in Ranges(Append(Lexeme, Peek(0)))
  <2> HIDE DEF Lexeme
  <2>1. Lexeme \in Seq(Alphabet \cup {Peek(0)})
    <3>1. Len(Lexeme) \in Nat /\ Lexeme \in [1 .. Len(Lexeme) -> Alphabet]
      BY <1>4, LenProperties
    <3>2. Lexeme \in [1 .. Len(Lexeme) -> Alphabet \cup {Peek(0)}]
      BY <3>1
    <3> QED
      BY <3>1, <3>2, SeqDef
  <2>2. /\ Append(Lexeme, Peek(0))[Len(Lexeme) + 1] = Peek(0)
        /\ Len(Lexeme) + 1 \in DOMAIN Append(Lexeme, Peek(0))
    BY <2>1, AppendProperties
  <2> QED
    BY <2>2 DEF Ranges
<1> QED
  BY <1>5, <1>6, <1>7 DEF Ranges

LEMMA OneMore ==
  ASSUME NEW a, NEW b, NEW c, NEW x
  PROVE  /\ Append(<<a>>, x) = <<a, x>> /\ Append(<<a, b>>, x) = <<a, b, x>>
         /\ Append(<<a, b, c>>, x) = <<a, b, c, x>>
<1> DEFINE S == {a, b, c, x}
<1>1. /\ <<a>> \in Seq(S) /\ Len(<<a>>) = 1 /\ <<a, b>> \in Seq(S) /\ Len(<<a, b>>) = 2
      /\ <<a, b, c>> \in Seq(S) /\ Len(<<a, b, c>>) = 3 /\ <<a, x>> \in Seq(S) /\ Len(<<a, x>>) = 2
      /\ <<a, b, x>> \in Seq(S) /\ Len(<<a, b, x>>) = 3
      /\ <<a, b, c, x>> \in Seq(S) /\ Len(<<a, b, c, x>>) = 4 /\ x \in S
  OBVIOUS
<1> HIDE DEF S
<1>2. Append(<<a>>, x) = <<a, x>>
  <2>1. /\ Append(<<a>>, x) \in Seq(S) /\ Len(Append(<<a>>, x)) = 2
        /\ \A i \in 1 .. 1 : Append(<<a>>, x)[i] = <<a>>[i]
        /\ Append(<<a>>, x)[2] = x
    BY <1>1, AppendProperties
  <2>2. \A i \in 1 .. 2 : Append(<<a>>, x)[i] = <<a, x>>[i]
    BY <2>1
  <2> QED
    BY <1>1, <2>1, <2>2, SeqEqual
<1>3. Append(<<a, b>>, x) = <<a, b, x>>
  <2>1. /\ Append(<<a, b>>, x) \in Seq(S) /\ Len(Append(<<a, b>>, x)) = 3
        /\ \A i \in 1 .. 2 : Append(<<a, b>>, x)[i] = <<a, b>>[i]
        /\ Append(<<a, b>>, x)[3] = x
    BY <1>1, AppendProperties
  <2>2. \A i \in 1 .. 3 : Append(<<a, b>>, x)[i] = <<a, b, x>>[i]
    BY <2>1
  <2> QED
    BY <1>1, <2>1, <2>2, SeqEqual
<1>4. Append(<<a, b, c>>, x) = <<a, b, c, x>>
  <2>1. /\ Append(<<a, b, c>>, x) \in Seq(S) /\ Len(Append(<<a, b, c>>, x)) = 4
        /\ \A i \in 1 .. 3 : Append(<<a, b, c>>, x)[i] = <<a, b, c>>[i]
        /\ Append(<<a, b, c>>, x)[4] = x
    BY <1>1, AppendProperties
  <2>2. \A i \in 1 .. 4 : Append(<<a, b, c>>, x)[i] = <<a, b, c, x>>[i]
    BY <2>1
  <2> QED
    BY <1>1, <2>1, <2>2, SeqEqual
<1> QED
  BY <1>2, <1>3, <1>4

\* The same of a text that one character is appended to.
LEMMA NotLonger ==
  /\ \A x : \A c \in DOMAIN Single : ~IsToken("SYMBOL", Append(<<c>>, x))
  /\ \A x : \A c \in DOMAIN Suffixed :
       /\ x # Suffixed[c][1] => ~IsToken("SYMBOL", Append(<<c>>, x))
       /\ \A d : ~IsToken("SYMBOL", Append(<<c, d>>, x))
  /\ \A x : x \notin {"-", "="} => ~IsToken("SYMBOL", Append(<<"<">>, x))
  /\ \A x : x # ">" => ~IsToken("SYMBOL", Append(<<"<", "-">>, x))
  /\ \A x : ~IsToken("SYMBOL", Append(<<"<", "=">>, x))
  /\ \A x : ~IsToken("SYMBOL", Append(<<"<", "-", ">">>, x))
<1>1. ASSUME NEW x, NEW text, NEW longer, Append(text, x) = longer, ~IsToken("SYMBOL", longer)
      PROVE  ~IsToken("SYMBOL", Append(text, x))
  BY <1>1
<1>2. \A a, b, c, x : /\ Append(<<a>>, x) = <<a, x>> /\ Append(<<a, b>>, x) = <<a, b, x>>
                      /\ Append(<<a, b, c>>, x) = <<a, b, c, x>>
  BY OneMore
<1>3. ASSUME NEW x, NEW c \in DOMAIN Single PROVE ~IsToken("SYMBOL", Append(<<c>>, x))
  BY <1>1, <1>2, Longer
<1>4. ASSUME NEW x, NEW c \in DOMAIN Suffixed
      PROVE  /\ x # Suffixed[c][1] => ~IsToken("SYMBOL", Append(<<c>>, x))
             /\ \A d : ~IsToken("SYMBOL", Append(<<c, d>>, x))
  <2>1. x # Suffixed[c][1] => ~IsToken("SYMBOL", Append(<<c>>, x))
    <3>1. Append(<<c>>, x) = <<c, x>>
      BY <1>2
    <3>2. x # Suffixed[c][1] => ~IsToken("SYMBOL", <<c, x>>)
      BY Longer
    <3> QED
      BY <1>1, <3>1, <3>2
  <2>2. ASSUME NEW d PROVE ~IsToken("SYMBOL", Append(<<c, d>>, x))
    <3>1. Append(<<c, d>>, x) = <<c, d, x>>
      BY <1>2
    <3>2. ~IsToken("SYMBOL", <<c, d, x>>)
      BY Longer
    <3> QED
      BY <1>1, <3>1, <3>2
  <2> QED
    BY <2>1, <2>2
<1>5. ASSUME NEW x
      PROVE  /\ x \notin {"-", "="} => ~IsToken("SYMBOL", Append(<<"<">>, x))
             /\ x # ">" => ~IsToken("SYMBOL", Append(<<"<", "-">>, x))
             /\ ~IsToken("SYMBOL", Append(<<"<", "=">>, x))
             /\ ~IsToken("SYMBOL", Append(<<"<", "-", ">">>, x))
  <2>1. x \notin {"-", "="} => ~IsToken("SYMBOL", Append(<<"<">>, x))
    <3>1. Append(<<"<">>, x) = <<"<", x>>
      BY <1>2
    <3>2. x \notin {"-", "="} => ~IsToken("SYMBOL", <<"<", x>>)
      BY Longer
    <3> QED
      BY <1>1, <3>1, <3>2
  <2>2. x # ">" => ~IsToken("SYMBOL", Append(<<"<", "-">>, x))
    <3>1. Append(<<"<", "-">>, x) = <<"<", "-", x>>
      BY <1>2
    <3>2. x # ">" => ~IsToken("SYMBOL", <<"<", "-", x>>)
      BY Longer
    <3> QED
      BY <1>1, <3>1, <3>2
  <2>3. ~IsToken("SYMBOL", Append(<<"<", "=">>, x))
    <3>1. Append(<<"<", "=">>, x) = <<"<", "=", x>>
      BY <1>2
    <3>2. ~IsToken("SYMBOL", <<"<", "=", x>>)
      BY Longer
    <3> QED
      BY <1>1, <3>1, <3>2
  <2>4. ~IsToken("SYMBOL", Append(<<"<", "-", ">">>, x))
    <3>1. Append(<<"<", "-", ">">>, x) = <<"<", "-", ">", x>>
      BY <1>2
    <3>2. ~IsToken("SYMBOL", <<"<", "-", ">", x>>)
      BY Longer
    <3> QED
      BY <1>1, <3>1, <3>2
  <2> QED
    BY <2>1, <2>2, <2>3, <2>4
<1> QED
  BY <1>3, <1>4, <1>5

\* A symbol, its spelling and what comes after it.
LEMMA SymbolIsMaximal ==
  ASSUME NEW s, NEW text, next_token' = SymbolToken(s), Spelling(s) = text, Lexeme' = text,
         ~IsToken("SYMBOL", Append(text, Peek(0)'))
  PROVE  TokensAreMaximal'
<1>1. next_token'.type = "SYMBOL" /\ next_token'.symbol = s
  BY DEF SymbolToken, NoToken
<1> QED
  BY <1>1 DEF TokensAreMaximal

LEMMA StepSymbol ==
  ASSUME OwnInv, LexSymbol
  PROVE  TokensAreMaximal'
<1>0. /\ TypeOK /\ input' = input /\ start' = index
      /\ index \in Nat /\ Len(input) \in Nat /\ index <= Len(input)
  BY Seen DEF OwnInv, LexSymbol
<1>1. ASSUME Peek(0) # EOF
      PROVE  /\ Advance(1) => /\ Lexeme' = <<Peek(0)>> /\ Peek(0)' = Peek(1)
             /\ Advance(2) /\ Peek(1) # EOF => /\ Lexeme' = <<Peek(0), Peek(1)>> /\ Peek(0)' = Peek(2)
             /\ Advance(3) /\ Peek(2) # EOF => /\ Lexeme' = <<Peek(0), Peek(1), Peek(2)>> /\ Peek(0)' = Peek(3)
  <2>1. /\ Advance(1) => index' = index + 1
        /\ Advance(2) /\ Peek(1) # EOF => index' = index + 2
        /\ Advance(3) /\ Peek(2) # EOF => index' = index + 3
    BY <1>0, <1>1, Seen DEF Advance
  <2>2. /\ index' = index + 1 => Peek(0)' = Peek(1)
        /\ index' = index + 2 => Peek(0)' = Peek(2)
        /\ index' = index + 3 => Peek(0)' = Peek(3)
    BY <1>0 DEF Peek
  <2>3. /\ index' = index + 1 => Lexeme' = SubSeq(input, index + 1, index + 1)
        /\ index' = index + 2 => Lexeme' = SubSeq(input, index + 1, index + 2)
        /\ index' = index + 3 => Lexeme' = SubSeq(input, index + 1, index + 3)
    BY <1>0 DEF Lexeme
  <2> QED
    BY <1>0, <1>1, <2>1, <2>2, <2>3, Seen
<1>3. ASSUME Peek(0) = "<", Advance(LessSymbol[2]), next_token' = SymbolToken(LessSymbol[1])
      PROVE  TokensAreMaximal'
  <2>1. CASE Peek(1) = "-" /\ Peek(2) = ">"
    <3>1. LessSymbol = <<"SWAP", 3>>
      BY <2>1 DEF LessSymbol
    <3>2. Lexeme' = <<"<", "-", ">">> /\ Peek(0)' = Peek(3)
      BY <1>1, <1>3, <2>1, <3>1 DEF EOF, Advance
    <3> QED
      <4>1. next_token' = SymbolToken("SWAP") /\ Spelling("SWAP") = <<"<", "-", ">">>
        BY <1>3, <3>1, Spellings
      <4>2. ~IsToken("SYMBOL", Append(<<"<", "-", ">">>, Peek(0)'))
        BY NotLonger
      <4> QED
        BY <3>2, <4>1, <4>2, SymbolIsMaximal
  <2>2. CASE Peek(1) = "-" /\ Peek(2) # ">"
    <3>1. LessSymbol = <<"ASSIGN", 2>>
      BY <2>2 DEF LessSymbol
    <3>2. Lexeme' = <<"<", "-">> /\ Peek(0)' = Peek(2)
      BY <1>1, <1>3, <2>2, <3>1 DEF EOF, Advance
    <3> QED
      <4>1. next_token' = SymbolToken("ASSIGN") /\ Spelling("ASSIGN") = <<"<", "-">>
        BY <1>3, <3>1, Spellings
      <4>2. ~IsToken("SYMBOL", Append(<<"<", "-">>, Peek(0)'))
        BY <2>2, <3>2, NotLonger
      <4> QED
        BY <3>2, <4>1, <4>2, SymbolIsMaximal
  <2>3. CASE Peek(1) = "="
    <3>1. LessSymbol = <<"LESSEQUALS", 2>>
      BY <2>3 DEF LessSymbol
    <3>2. Lexeme' = <<"<", "=">> /\ Peek(0)' = Peek(2)
      BY <1>1, <1>3, <2>3, <3>1 DEF EOF, Advance
    <3> QED
      <4>1. next_token' = SymbolToken("LESSEQUALS") /\ Spelling("LESSEQUALS") = <<"<", "=">>
        BY <1>3, <3>1, Spellings
      <4>2. ~IsToken("SYMBOL", Append(<<"<", "=">>, Peek(0)'))
        BY NotLonger
      <4> QED
        BY <3>2, <4>1, <4>2, SymbolIsMaximal
  <2>4. CASE Peek(1) \notin {"-", "="}
    <3>1. LessSymbol = <<"LESS", 1>>
      BY <2>4 DEF LessSymbol
    <3>2. Lexeme' = <<"<">> /\ Peek(0)' = Peek(1)
      BY <1>1, <1>3, <3>1 DEF EOF, Advance
    <3> QED
      <4>1. next_token' = SymbolToken("LESS") /\ Spelling("LESS") = <<"<">>
        BY <1>3, <3>1, Spellings
      <4>2. ~IsToken("SYMBOL", Append(<<"<">>, Peek(0)'))
        BY <2>4, <3>2, NotLonger
      <4> QED
        BY <3>2, <4>1, <4>2, SymbolIsMaximal
  <2> QED
    BY <2>1, <2>2, <2>3, <2>4
<1>4. ASSUME NEW c \in DOMAIN Suffixed, Peek(0) = c, Advance(SuffixedSymbol(c)[2]),
             next_token' = SymbolToken(SuffixedSymbol(c)[1])
      PROVE  TokensAreMaximal'
  <2>0. c # EOF /\ Suffixed[c][1] # EOF
    BY SuffixedTable DEF EOF
  <2>1. CASE Peek(1) = Suffixed[c][1]
    <3>1. SuffixedSymbol(c) = <<Suffixed[c][2], 2>>
      BY <2>1 DEF SuffixedSymbol
    <3>2. Lexeme' = <<c, Suffixed[c][1]>> /\ Peek(0)' = Peek(2)
      BY <1>1, <1>4, <2>0, <2>1, <3>1 DEF Advance
    <3> QED
      <4>1. next_token' = SymbolToken(Suffixed[c][2]) /\ Spelling(Suffixed[c][2]) = <<c, Suffixed[c][1]>>
        BY <1>4, <3>1, Spellings
      <4>2. ~IsToken("SYMBOL", Append(<<c, Suffixed[c][1]>>, Peek(0)'))
        BY <1>4, NotLonger
      <4> QED
        BY <3>2, <4>1, <4>2, SymbolIsMaximal
  <2>2. CASE Peek(1) # Suffixed[c][1]
    <3>1. SuffixedSymbol(c) = <<Suffixed[c][3], 1>>
      BY <2>2 DEF SuffixedSymbol
    <3>2. Lexeme' = <<c>> /\ Peek(0)' = Peek(1)
      BY <1>1, <1>4, <2>0, <3>1 DEF Advance
    <3> QED
      <4>1. next_token' = SymbolToken(Suffixed[c][3]) /\ Spelling(Suffixed[c][3]) = <<c>>
        BY <1>4, <3>1, Spellings
      <4>2. ~IsToken("SYMBOL", Append(<<c>>, Peek(0)'))
        BY <1>4, <2>2, <3>2, NotLonger
      <4> QED
        BY <3>2, <4>1, <4>2, SymbolIsMaximal
  <2> QED
    BY <2>1, <2>2
<1>5. ASSUME NEW c \in DOMAIN Single, Peek(0) = c, Advance(1), next_token' = SymbolToken(Single[c])
      PROVE  TokensAreMaximal'
  <2>0. c # EOF
    BY SingleTable DEF EOF
  <2>1. Lexeme' = <<c>> /\ Peek(0)' = Peek(1)
    BY <1>1, <1>5, <2>0
  <2> QED
    <3>1. Spelling(Single[c]) = <<c>>
      BY <1>5, Spellings
    <3>2. ~IsToken("SYMBOL", Append(<<c>>, Peek(0)'))
      BY <1>5, NotLonger
    <3> QED
      BY <1>5, <2>1, <3>1, <3>2, SymbolIsMaximal
<1> QED
  <2>1. \A c : Advance(<<c, 1>>[2]) => Advance(1)
    BY DEF Advance
  <2> QED
    BY <1>3, <1>4, <1>5, <2>1 DEF LexSymbol, AcceptSymbol, Accept

\* A name or a number, when its scanner stops.
LEMMA ScannedIsMaximal ==
  ASSUME TypeOK, UNCHANGED <<input, start>>, Advance(0), NEW first, NEW rest, NEW t,
         \A text : IsToken(t, text) <=> text[1] = first /\ Ranges(text) \subseteq rest,
         first \in rest, Scanned(first, rest), Peek(0) \notin rest,
         next_token'.type = t, t # "SYMBOL"
  PROVE  TokensAreMaximal'
<1>1. index' = index
  <2>1. index \in Nat /\ Len(input) \in Nat /\ index <= Len(input)
    BY Seen
  <2> QED
    BY <2>1 DEF Advance
<1>2. Lexeme' = Lexeme /\ Peek(0)' = Peek(0)
  BY <1>1 DEF Lexeme, Peek
<1>3. /\ Lexeme[1] = first /\ Ranges(Lexeme) \subseteq rest
      /\ ~(Ranges(Append(Lexeme, Peek(0))) \subseteq rest)
  BY ScanEnds
<1> DEFINE read == Lexeme
           longer == Append(Lexeme, Peek(0))
<1>4. IsToken(t, read) /\ ~IsToken(t, longer)
  BY <1>3
<1>5. read = Lexeme' /\ longer = Append(Lexeme', Peek(0)')
  BY <1>2
<1> HIDE DEF read, longer
<1>6. IsToken(t, Lexeme') /\ ~IsToken(t, Append(Lexeme', Peek(0)'))
  BY <1>4, <1>5
<1> QED
  BY <1>6 DEF TokensAreMaximal

LEMMA StepMax ==
  ASSUME MaxInv, Step
  PROVE  Scanning' /\ TokensAreMaximal'
<1>0. /\ OwnInv /\ TypeOK /\ ~next_token.valid /\ pc \in Loops /\ Scanning
      /\ index \in Nat /\ Len(input) \in Nat /\ index <= Len(input)
  BY Seen DEF MaxInv, OwnInv, Validity, Step, AtEnd, SkipWhitespace, LexSymbol, Enter, ParseCharacter,
     NoMatch, SkipLineComment, SkipBlockComment, ParseString, ParseName, ParseNumber, Loops
<1>a. pc' \notin {"name", "number"} => Scanning'
  BY DEF Scanning
<1>b. pc' # "idle" => TokensAreMaximal'
  BY DEF TokensAreMaximal
<1>c. \A text : ~IsToken("STRING", text) /\ ~IsToken("CHAR", text)
  BY DEF IsToken
<1>d. next_token'.type \in {"STRING", "CHAR"} => TokensAreMaximal'
  <2> DEFINE longer == Append(Lexeme', Peek(0)')
  <2>1. ~IsToken("STRING", longer) /\ ~IsToken("CHAR", longer)
    BY <1>c
  <2>2. longer = Append(Lexeme', Peek(0)')
    OBVIOUS
  <2> HIDE DEF longer
  <2> QED
    BY <2>1, <2>2 DEF TokensAreMaximal
<1>e. /\ \A t : Accept(t) => next_token' = t /\ pc' = "idle"
      /\ \A t : AcceptString(t) => next_token'.type = t /\ pc' = "idle"
      /\ \A t : PlainToken(t).type = t
      /\ \A loop : Continue(loop) => pc' = loop
      /\ Throw => pc' = "threw"
  BY MadeTokens DEF Accept, AcceptString, Finish, PlainToken, StringToken, NoToken, Continue, Throw
<1>1. CASE AtEnd
  <2>1. ~next_token'.valid /\ pc' = "idle"
    BY <1>0, <1>1 DEF AtEnd, Finish
  <2> QED
    BY <1>a, <2>1 DEF TokensAreMaximal
<1>2. CASE SkipWhitespace \/ NoMatch \/ SkipLineComment \/ SkipBlockComment
  <2>1. pc' \notin {"idle", "name", "number"}
    BY <1>2, <1>e DEF SkipWhitespace, NoMatch, SkipLineComment, SkipBlockComment
  <2> QED
    BY <1>a, <1>b, <2>1
<1>3. CASE LexSymbol
  <2>1. pc' = "idle"
    BY <1>3, <1>e DEF LexSymbol, AcceptSymbol
  <2> QED
    BY <1>0, <1>3, <1>a, <2>1, StepSymbol
<1>4. CASE Enter
  <2>1. CASE pc' \notin {"name", "number"}
    <3>1. pc' # "idle"
      BY <1>4, <1>e DEF Enter
    <3> QED
      BY <1>a, <1>b, <2>1, <3>1
  <2>2. CASE pc' \in {"name", "number"}
    <3>1. /\ Advance(0) /\ input' = input /\ start' = index
          /\ \/ Peek(0) = "letter" /\ pc' = "name"
             \/ Peek(0) = "digit" /\ pc' = "number"
      BY <1>4, <1>e, <2>2 DEF Enter
    <3>2. index' = index
      BY <1>0, <3>1 DEF Advance
    <3>3. Peek(0)' = Peek(0)
      BY <3>1, <3>2 DEF Peek
    <3>4. \A first, rest : Peek(0) = first => Scanned(first, rest)'
      <4>1. start' + 1 .. index' = {}
        BY <1>0, <3>1, <3>2
      <4> QED
        BY <3>1, <3>2, <3>3, <4>1 DEF Scanned
    <3> QED
      BY <1>b, <3>1, <3>4 DEF Scanning
  <2> QED
    BY <2>1, <2>2
<1>5. CASE ParseCharacter
  <2>1. pc' = "threw" \/ (pc' = "idle" /\ next_token'.type = "CHAR")
    <3>1. Accept(PlainToken("CHAR")) \/ Throw
      BY <1>5 DEF ParseCharacter
    <3>2. Accept(PlainToken("CHAR")) => next_token'.type = "CHAR" /\ pc' = "idle"
      BY <1>e
    <3>3. Throw => pc' = "threw"
      BY DEF Throw
    <3> QED
      BY <3>1, <3>2, <3>3
  <2> QED
    BY <1>a, <1>b, <1>d, <2>1
<1>6. CASE ParseString
  <2>1. pc' \in {"threw", "string"} \/ (pc' = "idle" /\ next_token'.type = "STRING")
    <3>1. AcceptString("STRING") \/ Throw \/ Continue("string")
      BY <1>6 DEF ParseString
    <3>2. AcceptString("STRING") => next_token'.type = "STRING" /\ pc' = "idle"
      BY <1>e
    <3>3. (Throw => pc' = "threw") /\ (Continue("string") => pc' = "string")
      BY DEF Throw, Continue
    <3> QED
      BY <3>1, <3>2, <3>3
  <2> QED
    BY <1>a, <1>b, <1>d, <2>1
<1>7. CASE ParseName
  <2>0. Scanned("letter", {"letter", "digit"}) /\ UNCHANGED <<input, start>>
    BY <1>0, <1>7 DEF Scanning, ParseName
  <2>1. CASE Peek(0) \in {"letter", "digit"} /\ Advance(1) /\ Continue("name")
    <3>1. Scanned("letter", {"letter", "digit"})' /\ pc' = "name"
      BY <1>0, <1>e, <2>0, <2>1, ScanOn DEF EOF
    <3> QED
      BY <1>b, <3>1 DEF Scanning
  <2>2. CASE Peek(0) \notin {"letter", "digit"} /\ Advance(0)
             /\ (AcceptString("NAME") \/ Accept(PlainToken("KEYWORD")))
    <3>1. next_token'.type \in {"NAME", "KEYWORD"} /\ pc' = "idle"
      BY <1>e, <2>2
    <3>2. /\ \A text : IsToken("NAME", text) <=> text[1] = "letter" /\ Ranges(text) \subseteq {"letter", "digit"}
          /\ \A text : IsToken("KEYWORD", text) <=> text[1] = "letter" /\ Ranges(text) \subseteq {"letter", "digit"}
      BY DEF IsToken
    <3>3. CASE next_token'.type = "NAME"
      BY <1>0, <1>a, <2>0, <2>2, <3>1, <3>2, <3>3, ScannedIsMaximal
    <3>4. CASE next_token'.type = "KEYWORD"
      BY <1>0, <1>a, <2>0, <2>2, <3>1, <3>2, <3>4, ScannedIsMaximal
    <3> QED
      BY <3>1, <3>3, <3>4
  <2> QED
    BY <1>7, <2>1, <2>2 DEF ParseName
<1>8. CASE ParseNumber
  <2>0. Scanned("digit", {"digit", "."}) /\ UNCHANGED <<input, start>>
    BY <1>0, <1>8 DEF Scanning, ParseNumber
  <2>1. CASE Peek(0) \in {"digit", "."} /\ Advance(1) /\ Continue("number")
    <3>1. Scanned("digit", {"digit", "."})' /\ pc' = "number"
      BY <1>0, <1>e, <2>0, <2>1, ScanOn DEF EOF
    <3> QED
      BY <1>b, <3>1 DEF Scanning
  <2>2. CASE Peek(0) \notin {"digit", "."} /\ Advance(0)
             /\ (Accept(PlainToken("INT")) \/ Accept(PlainToken("FLOAT")))
    <3>1. next_token'.type \in {"INT", "FLOAT"} /\ pc' = "idle"
      BY <1>e, <2>2
    <3>2. /\ \A text : IsToken("INT", text) <=> text[1] = "digit" /\ Ranges(text) \subseteq {"digit", "."}
          /\ \A text : IsToken("FLOAT", text) <=> text[1] = "digit" /\ Ranges(text) \subseteq {"digit", "."}
      BY DEF IsToken
    <3>3. CASE next_token'.type = "INT"
      BY <1>0, <1>a, <2>0, <2>2, <3>1, <3>2, <3>3, ScannedIsMaximal
    <3>4. CASE next_token'.type = "FLOAT"
      BY <1>0, <1>a, <2>0, <2>2, <3>1, <3>2, <3>4, ScannedIsMaximal
    <3> QED
      BY <3>1, <3>3, <3>4
  <2>3. CASE pc' = "threw"
    BY <1>a, <1>b, <2>3
  <2> QED
    BY <1>8, <1>e, <2>1, <2>2, <2>3 DEF ParseNumber
<1> QED
  BY <1>1, <1>2, <1>3, <1>4, <1>5, <1>6, <1>7, <1>8 DEF Step

LEMMA NextMax == MaxInv /\ [Next]_vars => MaxInv'
<1> SUFFICES ASSUME MaxInv, [Next]_vars PROVE Scanning' /\ TokensAreMaximal'
  BY NextOwned DEF MaxInv
<1>1. CASE Step
  BY <1>1, StepMax
<1>2. CASE AdvanceTokens \/ Destroy
  <2>1. pc' \in {"dispatch", "destroyed"}
    BY <1>2 DEF AdvanceTokens, Destroy
  <2> QED
    BY <2>1 DEF Scanning, TokensAreMaximal
<1>3. CASE UNCHANGED vars
  <2>1. /\ Lexeme' = Lexeme /\ Peek(0)' = Peek(0)
        /\ UNCHANGED <<pc, next_token, input, start, index>>
    BY <1>3 DEF vars, window, Lexeme, Peek
  <2>2. Scanning'
    BY <2>1 DEF MaxInv, Scanning, Scanned
  <2>3. TokensAreMaximal'
    BY <2>1 DEF MaxInv, TokensAreMaximal
  <2> QED
    BY <2>2, <2>3
<1> QED
  BY <1>1, <1>2, <1>3 DEF Next

-----------------------------------------------------------------------------
(***************************************************************************)
(* The theorems.                                                           *)
(***************************************************************************)

\* The state is well typed; no text makes the lexer read past its end.
THEOREM LexerTyped == Spec => []TypeOK
<1> QED
  BY InitTyped, NextTyped, PTL DEF Spec

\* Each string on the heap belongs to exactly one valid token of the window,
\* through every call of AdvanceNext, every exception and the destructor,
\* whatever the text.
THEOREM OwnedOnce == Spec => []StringsAreOwnedOnce
<1>1. OwnInv => StringsAreOwnedOnce
  BY DEF OwnInv
<1> QED
  BY <1>1, InitOwned, NextOwned, PTL DEF Spec

\* The position of the next token lies after the one of the current token,
\* whatever the lexer skipped, counted or failed to count between them.
THEOREM Advancing == Spec => []PositionsAdvance
<1>1. Init => PosInv
  BY InitOwned DEF Init, PosInv, Reading, PositionsAdvance, NoToken, Loops
<1>2. PosInv => PositionsAdvance
  BY DEF PosInv
<1> QED
  BY <1>1, <1>2, NextReads, PTL DEF Spec

\* A line comment ends with the first newline after it, or with the text, and
\* a block comment with the first "*/" that does not overlap its opening,
\* however slashes, stars and newlines follow each other; the lexer throws
\* only where there is none.
THEOREM CommentsEnd == Spec => CommentsEndWhereTheyShould
<1> DEFINE Ends ==
      /\ pc = "line comment" /\ pc' = "dispatch" => EndsLine(index')
      /\ pc = "block comment" /\ pc' = "dispatch" => EndsBlock(index')
      /\ pc = "block comment" /\ pc' = "threw" => \A i \in DOMAIN input : ~Closes(i)
<1>1. Init => CommentInv
  BY InitTyped DEF Init, CommentInv, Commenting
<1>2. CommentInv /\ [Next]_vars => [Ends]_vars
  <2> SUFFICES ASSUME CommentInv, Next PROVE Ends
    OBVIOUS
  <2>1. CASE Step
    BY <2>1, StepComments
  <2>2. CASE AdvanceTokens \/ Destroy
    BY <2>2 DEF AdvanceTokens, Destroy
  <2> QED
    BY <2>1, <2>2 DEF Next
<1> QED
  BY <1>1, <1>2, NextComments, PTL DEF Spec, CommentsEndWhereTheyShould

\* In a text without the newlines the lexer is known not to count, the line
\* of a token is one more than the newlines before its end, after any mix of
\* comments, strings and characters.
THEOREM Counted == Spec => []LinesAreCounted
<1>1. Init => LineInv
  <2> SUFFICES ASSUME Init PROVE Counting
    BY InitTyped DEF LineInv
  <2>1. {i \in 1 .. index : input[i] = "newline"} = {}
    BY DEF Init
  <2>2. NewlinesUpTo(index) = 0
    BY <2>1, FS_EmptySet DEF NewlinesUpTo
  <2> QED
    BY <2>2 DEF Init, Counting
<1>2. LineInv => LinesAreCounted
  BY DEF LineInv, Counting, Countable, LinesAreCounted, LineNumbersAreRight, Newlines, NewlinesUpTo
<1> QED
  BY <1>1, <1>2, NextCounts, PTL DEF Spec

\* A symbol, a name, a keyword or a number is made of all the characters that
\* could belong to it, however the characters after it begin another token.
THEOREM Maximal == Spec => []TokensAreMaximal
<1>1. Init => MaxInv
  BY InitOwned DEF Init, MaxInv, Scanning, TokensAreMaximal, NoToken
<1>2. MaxInv => TokensAreMaximal
  BY DEF MaxInv
<1> QED
  BY <1>1, <1>2, NextMax, PTL DEF Spec
=============================================================================
