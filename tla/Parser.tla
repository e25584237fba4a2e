------------------------------- MODULE Parser -------------------------------
(***************************************************************************)
(* dcl/parser.go: the recursive-descent parser of DCL, which goes on after *)
(* an error, so that one mistake in a file costs as little of it as        *)
(* possible. The calls under way are a stack of frames: the file, the      *)
(* blocks, the attribute and the nested values being read. A step either   *)
(* reads on in the topmost frame ("loop"), reads a value for it ("value")  *)
(* or returns a node to the frame below ("return").                        *)
(*                                                                         *)
(* Positions and messages are left out. A node keeps its children in the   *)
(* order of the text, as the ranges of the code's nodes do.                *)
(***************************************************************************)
EXTENDS Naturals, Sequences
LOCAL INSTANCE FiniteSetsExt
LOCAL INSTANCE SequencesExt

CONSTANTS
    Texts,      \* what may be parsed: sequences of tokens [kind, lit]
    MaxErrors   \* the number of errors after which the parser gives up

ASSUME ParserAssumption == MaxErrors \in Nat \ {0}

VARIABLES
    tokens,     \* the text without its comments
    at,         \* the position of the current token
    stack,      \* the calls under way: frames [kind, name, kids]
    pc,         \* what the topmost frame does next
    ret,        \* the node that is returned, or Failed
    errs        \* how many errors were reported

vars == <<tokens, at, stack, pc, ret, errs>>

Node(kind, name, kids) == [kind |-> kind, name |-> name, kids |-> kids]
Failed == Node("failed", <<>>, <<>>)

\* The lexer's tokens, of which the parser sees all but the comments.
NonComment(text) == SelectSeq(text, LAMBDA t : t.kind # "comment")

Init ==
    /\ \E text \in Texts : tokens = NonComment(text)
    /\ at = 1
    /\ stack = <<Node("file", <<>>, <<>>)>>
    /\ pc = "loop"
    /\ ret = Failed
    /\ errs = 0

-----------------------------------------------------------------------------
(* Tokens, errors and recovery. *)

End == Len(tokens) + 1
Kind(i) == IF i < End THEN tokens[i].kind ELSE "eof"
Lit(i) == tokens[i].lit

SkipNewlines(i) == Min({j \in i .. End : Kind(j) # "newline"})

TooManyErrors == errs = MaxErrors

AddError == errs' = IF TooManyErrors THEN errs ELSE errs + 1

\* To the next line, or to the brace or the end before it.
RecoverToNextStatement(i) ==
    LET j == Min({k \in i .. End : Kind(k) \in {"newline", "}", "eof"}})
    IN  IF Kind(j) = "newline" THEN j + 1 ELSE j

\* (Mutant of MatchingClosing: the first one, whatever was opened.)
FirstClosing(i, open, close) ==
    Min({j \in i .. End : Kind(j) \in {close, "eof"}} \cup {End})

\* Behind the bracket that closes the one opened before position i.
MatchingClosing(i, open, close) ==
    LET Count(k, j) == Cardinality({m \in i .. j : Kind(m) = k})
    IN  Min({j \in i .. End : Kind(j) = close /\ Count(close, j) > Count(open, j)}
              \cup {End})

Behind(j) == IF j = End THEN End ELSE j + 1
RecoverToBlockEnd(i) == Behind(MatchingClosing(i, "{", "}"))
RecoverToListEnd(i) == Behind(MatchingClosing(i, "[", "]"))

-----------------------------------------------------------------------------
(* The stack. *)

top == stack[Len(stack)]
Push(f) == stack' = Append(stack, f)
Pop == stack' = Front(stack)
AddTo(st, node) == [st EXCEPT ![Len(st)].kids = Append(@, node)]

\* The topmost call, or the value being read, ends with this result.
Return(node, i) == ret' = node /\ at' = i /\ pc' = "return"
GoOn(i) == at' = i /\ pc' = "loop" /\ UNCHANGED ret
ReadValue(i) == at' = i /\ pc' = "value" /\ UNCHANGED ret

InBody == pc = "loop" /\ top.kind \in {"file", "block"}
here == SkipNewlines(at)
AtEnd == Kind(here) \in (IF top.kind = "block" THEN {"}", "eof"} ELSE {"eof"})

-----------------------------------------------------------------------------
(* parseFile and the body of parseBlock: one statement after the other. *)

\* (Mutant of FileEnds: only the end of the file ends it.)
FileEndsAtEOF ==
    /\ InBody /\ top.kind = "file"
    /\ Kind(here) = "eof"
    /\ pc' = "done" /\ UNCHANGED <<tokens, at, stack, ret, errs>>

FileEnds ==
    /\ InBody /\ top.kind = "file"
    /\ TooManyErrors \/ AtEnd
    /\ pc' = "done" /\ UNCHANGED <<tokens, at, stack, ret, errs>>

BlockEnds ==
    /\ InBody /\ top.kind = "block"
    /\ TooManyErrors \/ AtEnd
    /\ LET i == IF TooManyErrors THEN at ELSE here IN
       \/ Kind(i) = "}" /\ Return(top, i + 1) /\ UNCHANGED errs
       \/ Kind(i) # "}" /\ Return(top, RecoverToBlockEnd(i)) /\ AddError
    /\ Pop
    /\ UNCHANGED tokens

\* What the current token and the one after it begin.
Statement ==
    CASE Kind(here) # "ident" -> "none"
      [] Kind(here + 1) = "=" -> IF top.kind = "file" THEN "none" ELSE "attribute"
      [] OTHER -> IF top.kind = "file" \/ Kind(here + 1) \in {"string", "{"}
                  THEN "block" ELSE "none"

NotAStatement ==
    /\ InBody /\ ~TooManyErrors /\ ~AtEnd
    /\ Statement = "none"
    /\ AddError
    /\ GoOn(RecoverToNextStatement(here))
    /\ UNCHANGED <<tokens, stack>>

\* type ["label"] {
StartBlock ==
    /\ InBody /\ ~TooManyErrors /\ ~AtEnd
    /\ Statement = "block"
    /\ LET labelled == Kind(here + 1) = "string"
           name == IF labelled THEN <<Lit(here), Lit(here + 1)>> ELSE <<Lit(here)>>
           i == IF labelled THEN here + 2 ELSE here + 1
       IN  IF Kind(i) = "{"
           THEN /\ Push(Node("block", name, <<>>))
                /\ GoOn(i + 1)
                /\ UNCHANGED errs
           ELSE /\ AddError
                /\ Return(Node("block", name, <<>>), RecoverToNextStatement(i))
                /\ UNCHANGED stack
    /\ UNCHANGED tokens

\* key =
StartAttribute ==
    /\ InBody /\ ~TooManyErrors /\ ~AtEnd
    /\ Statement = "attribute"
    /\ Push(Node("attribute", <<Lit(here)>>, <<>>))
    /\ ReadValue(here + 2)
    /\ UNCHANGED <<tokens, errs>>

Returned(kind) == pc = "return" /\ top.kind = kind

\* Attributes never repeat, and share no name with a nested block.
Taken(name, kinds) ==
    \E i \in DOMAIN top.kids : top.kids[i].name[1] = name /\ top.kids[i].kind \in kinds

BlockInFile ==
    /\ Returned("file")
    /\ stack' = AddTo(stack, ret)
    /\ GoOn(at)
    /\ UNCHANGED <<tokens, errs>>

BlockInBlock ==
    /\ Returned("block")
    /\ IF Taken(ret.name[1], {"attribute"})
       THEN AddError /\ UNCHANGED stack
       ELSE stack' = AddTo(stack, ret) /\ UNCHANGED errs
    /\ GoOn(at)
    /\ UNCHANGED tokens

\* The value of an attribute is complete, or failed and is given up.
EndAttribute ==
    /\ Returned("attribute")
    /\ LET body == Front(stack)
           block == body[Len(body)]
           taken == \E i \in DOMAIN block.kids : block.kids[i].name[1] = top.name[1]
       IN  CASE ret = Failed -> /\ GoOn(RecoverToNextStatement(at))
                                /\ stack' = body /\ UNCHANGED errs
             [] ret # Failed /\ taken -> GoOn(at) /\ AddError /\ stack' = body
             [] OTHER -> /\ GoOn(at) /\ UNCHANGED errs
                         /\ stack' = AddTo(body, Node("attribute", top.name, <<ret>>))
    /\ UNCHANGED tokens

-----------------------------------------------------------------------------
(* parseExpression. *)

LiteralKinds == {"string", "int", "float", "true", "false"}

Literal ==
    /\ pc = "value" /\ Kind(at) \in LiteralKinds
    /\ Return(Node(Kind(at), <<Lit(at)>>, <<>>), at + 1)
    /\ UNCHANGED <<tokens, stack, errs>>

\* A number that no 64-bit integer or float holds.
BadNumber ==
    /\ pc = "value" /\ Kind(at) = "badnumber"
    /\ AddError
    /\ Return(Failed, at + 1)
    /\ UNCHANGED <<tokens, stack>>

\* The last identifier of the dotted name that begins at the current token.
LastPart == Max({j \in at .. End : \A k \in at .. j :
                    Kind(k) = IF (k - at) % 2 = 0 THEN "ident" ELSE "."})
Parts == [i \in 1 .. 1 + (LastPart - at) \div 2 |-> Lit(at + 2 * (i - 1))]

BadName ==
    /\ pc = "value" /\ Kind(at) = "ident"
    /\ Kind(LastPart) = "."
    /\ AddError
    /\ Return(Failed, LastPart + 1)
    /\ UNCHANGED <<tokens, stack>>

Name ==
    /\ pc = "value" /\ Kind(at) = "ident"
    /\ Kind(LastPart) = "ident"
    /\ ~(LastPart = at /\ Kind(at + 1) = "(")
    /\ Return(Node("name", Parts, <<>>), LastPart + 1)
    /\ UNCHANGED <<tokens, stack, errs>>

StartCall ==
    /\ pc = "value" /\ Kind(at) = "ident"
    /\ Kind(at + 1) = "("
    /\ LET i == SkipNewlines(at + 2) IN
       IF Kind(i) = ")"
       THEN Return(Node("call", <<Lit(at)>>, <<>>), i + 1) /\ UNCHANGED stack
       ELSE Push(Node("call", <<Lit(at)>>, <<>>)) /\ ReadValue(i)
    /\ UNCHANGED <<tokens, errs>>

StartListOrMap ==
    /\ pc = "value" /\ Kind(at) \in {"[", "{"}
    /\ Push(Node(IF Kind(at) = "[" THEN "list" ELSE "map", <<>>, <<>>))
    /\ GoOn(SkipNewlines(at + 1))
    /\ UNCHANGED <<tokens, errs>>

NoValue ==
    /\ pc = "value"
    /\ Kind(at) \notin LiteralKinds \cup {"badnumber", "ident", "[", "{"}
    /\ AddError
    /\ Return(Failed, at)
    /\ UNCHANGED <<tokens, stack>>

-----------------------------------------------------------------------------
(* parseList, parseMap and parseFunctionCall. *)

\* A comma between two elements, or behind the last, may be left out.
\* (Mutant: a newline behind the comma is not skipped.)
AfterElementOnLine(i) ==
    LET j == SkipNewlines(i) IN IF Kind(j) = "," THEN j + 1 ELSE j

AfterElement(i) ==
    LET j == SkipNewlines(i) IN IF Kind(j) = "," THEN SkipNewlines(j + 1) ELSE j

ListElement ==
    /\ pc = "loop" /\ top.kind = "list"
    /\ Kind(at) \notin {"]", "}", "eof"}
    /\ ReadValue(at)
    /\ UNCHANGED <<tokens, stack, errs>>

\* (Mutant of ListEnds: a brace ends a list as well.)
ListEndsAtBrace ==
    /\ pc = "loop" /\ top.kind = "list"
    /\ \/ Kind(at) \in {"]", "}"} /\ Return(top, at + 1) /\ UNCHANGED errs
       \/ Kind(at) = "eof" /\ AddError /\ Return(Failed, RecoverToListEnd(at))
    /\ Pop
    /\ UNCHANGED tokens

ListEnds ==
    /\ pc = "loop" /\ top.kind = "list"
    /\ \/ Kind(at) = "]" /\ Return(top, at + 1) /\ UNCHANGED errs
       \/ Kind(at) \in {"}", "eof"} /\ AddError /\ Return(Failed, RecoverToListEnd(at))
    /\ Pop
    /\ UNCHANGED tokens

\* The frame of a map holds the key whose value is being read.
MapEntry ==
    /\ pc = "loop" /\ top.kind = "map"
    /\ Kind(at) = "ident" /\ Kind(at + 1) = "="
    /\ stack' = [stack EXCEPT ![Len(stack)].name = <<Lit(at)>>]
    /\ ReadValue(at + 2)
    /\ UNCHANGED <<tokens, errs>>

NotAnEntry ==
    /\ pc = "loop" /\ top.kind = "map"
    /\ Kind(at) \notin {"}", "eof"}
    /\ ~(Kind(at) = "ident" /\ Kind(at + 1) = "=")
    /\ AddError
    /\ Return(Failed, RecoverToBlockEnd(IF Kind(at) = "ident" THEN at + 1 ELSE at))
    /\ Pop
    /\ UNCHANGED tokens

MapEnds ==
    /\ pc = "loop" /\ top.kind = "map"
    /\ \/ /\ Kind(at) = "}"
          /\ Return([top EXCEPT !.name = <<>>], at + 1) /\ UNCHANGED errs
       \/ Kind(at) = "eof" /\ AddError /\ Return(Failed, RecoverToBlockEnd(at))
    /\ Pop
    /\ UNCHANGED tokens

\* An element of a list, or the value of a key, has been read or has failed.
EndElement ==
    /\ Returned("list") \/ Returned("map")
    /\ IF ret = Failed
       THEN /\ Return(Failed, IF top.kind = "list" THEN RecoverToListEnd(at)
                                                   ELSE RecoverToBlockEnd(at))
            /\ Pop
       ELSE /\ stack' = AddTo(stack, IF top.kind = "list" THEN ret
                                     ELSE Node("attribute", top.name, <<ret>>))
            /\ GoOn(AfterElement(at))
    /\ UNCHANGED <<tokens, errs>>

\* An argument has been read: another one follows a comma, or the call ends.
\* After an error the call recovers nothing; its caller does.
EndArgument ==
    /\ Returned("call")
    /\ LET i == SkipNewlines(IF Kind(at) = "," THEN at + 1 ELSE at)
           call == [top EXCEPT !.kids = Append(@, ret)]
       IN  CASE ret = Failed -> Return(Failed, at) /\ Pop /\ UNCHANGED errs
             [] ret # Failed /\ Kind(i) = ")" ->
                    Return(call, i + 1) /\ Pop /\ UNCHANGED errs
             [] ret # Failed /\ Kind(i) # ")" /\ Kind(at) = "," ->
                    ReadValue(i) /\ stack' = AddTo(stack, ret) /\ UNCHANGED errs
             [] OTHER -> AddError /\ Return(Failed, i) /\ Pop
    /\ UNCHANGED tokens

-----------------------------------------------------------------------------
Statements == NotAStatement \/ StartBlock \/ StartAttribute \/ BlockEnds
Values == \/ Literal \/ BadNumber \/ BadName \/ Name \/ StartCall
          \/ StartListOrMap \/ NoValue
Collections == ListElement \/ ListEnds \/ MapEntry \/ NotAnEntry \/ MapEnds
Returns == BlockInFile \/ BlockInBlock \/ EndAttribute \/ EndElement \/ EndArgument

Next == FileEnds \/ Statements \/ Values \/ Collections \/ Returns

Spec == Init /\ [][Next]_vars /\ WF_vars(Next)
=============================================================================
