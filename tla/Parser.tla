------------------------------- MODULE Parser -------------------------------
(***************************************************************************)
(* detail::parse_message (plotter/server.cpp): a line of G-code becomes a  *)
(* ServerMessage or a ParseError, or an exception leaves the function that *)
(* nobody catches.  A line is a sequence of symbols: blanks, characters,   *)
(* and numbers, which are one symbol each and never adjacent.              *)
(***************************************************************************)
EXTENDS SequencesExt, FiniteSetsExt, Naturals

CONSTANT Lines   \* the lines that are sent

Blank == " "
Coordinates == {"X", "Y", "Z", "F"}

\* Numbers that fit an int, one that does not, one of 64 characters, and a text that only %f reads.
Ints == {"0", "1", "5", "20", "21", "28", "90", "91"}
TooBig == {"big", "long"}
Floats == Ints \cup TooBig \cup {"nan"}
Symbols == {Blank, "G", "other"} \cup Coordinates \cup Floats

ASSUME ParserAssumption ==
  \A line \in Lines :
    /\ line \in Seq(Symbols)
    /\ \A i \in 1 .. Len(line) - 1 : ~ (line[i] \in Floats /\ line[i + 1] \in Floats)

VARIABLES
  line,      \* the message
  pc,        \* command, tokens, or done
  pos,       \* where for_each_token is in the line; behind it if there is no more
  command,   \* CheckResult::command, or none
  values,    \* the optional values of the ServerMessage
  outcome    \* none yet, message, error, or throws

vars == <<line, pc, pos, command, values, outcome>>

NoValues == [c \in Coordinates |-> "none"]

Init ==
  /\ line \in Lines
  /\ pc = "command"
  /\ pos = 1
  /\ command = "none"
  /\ values = NoValues
  /\ outcome = "none"

-----------------------------------------------------------------------------
\* find(' ', from), behind the line if there is none.
BlankFrom(from) == Min({i \in from .. Len(line) : line[i] = Blank} \cup {Len(line) + 1})

\* std::stoi: reads the number a text starts with.
Stoi(text) ==
  IF text = <<>> \/ Head(text) \notin Ints \cup TooBig THEN "invalid_argument"
  ELSE IF Head(text) \in TooBig THEN "out_of_range" ELSE Head(text)

CommandOf(number) ==
  CASE number \in {"0", "1"} -> "Go"
    [] number = "20" -> "UseInches"
    [] number = "21" -> "UseMm"
    [] number = "28" -> "Home"
    [] number = "90" -> "AbsolutePositioning"
    [] number = "91" -> "RelativePositioning"
    [] OTHER -> "none"

Done(how) == pc' = "done" /\ outcome' = how

(***************************************************************************)
(* checkCommand, and the switch on what it returns: only Go and Home look  *)
(* at the rest of the line.  What follows the number without a blank is    *)
(* not looked at by anyone.                                                *)
(***************************************************************************)
CheckCommand ==
  /\ pc = "command"
  /\ LET number == IF line # <<>> /\ line[1] = "G" THEN Stoi(SubSeq(line, 2, BlankFrom(2) - 1)) ELSE "none" IN
       /\ command' = CommandOf(number)
       /\ CASE number = "out_of_range" -> Done("throws")
            [] number # "out_of_range" /\ CommandOf(number) = "none" -> Done("error")
            [] CommandOf(number) \in {"Go", "Home"} -> pc' = "tokens" /\ UNCHANGED outcome
            [] OTHER -> Done("message")
  /\ pos' = Min({BlankFrom(2) + 1, Len(line) + 1})
  /\ UNCHANGED <<line, values>>

\* Mutant of Readable: any text may be copied into the buffer.
ReadableAnyLength(text) == text # <<>> /\ Head(text) \in Floats

\* parse_val: a text of 64 characters is too long, another must start with a number.
Readable(text) == ~ ("long" \in ToSet(text)) /\ text # <<>> /\ Head(text) \in Floats

\* What readGo and read_home_command make of a token.
Accepts(token) ==
  IF command = "Home" THEN token \in {<<"X">>, <<"Y">>, <<"Z">>}
  ELSE Head(token) \in Coordinates => Readable(Tail(token))

Read(token) ==
  CASE Head(token) \notin Coordinates -> values
    [] command = "Home" -> [values EXCEPT ![Head(token)] = "1"]
    [] OTHER -> [values EXCEPT ![Head(token)] = token[2]]

\* Mutant of Behind: not past the blank.
BehindNot(p) == BlankFrom(p)

\* Where the next token may start: behind the next blank.
Behind(p) == Min({BlankFrom(p) + 1, Len(line) + 1})

\* for_each_token, a round: the callback is called with a token that is not empty.
Token ==
  /\ pc = "tokens" /\ pos <= Len(line)
  /\ LET token == SubSeq(line, pos, BlankFrom(pos) - 1) IN
       IF token = <<>> \/ Accepts(token)
       THEN /\ values' = IF token = <<>> THEN values ELSE Read(token)
            /\ UNCHANGED <<pc, outcome>>
       ELSE Done("error") /\ UNCHANGED values
  /\ pos' = Behind(pos)
  /\ UNCHANGED <<line, command>>

NoMoreTokens ==
  /\ pc = "tokens" /\ pos = Len(line) + 1
  /\ Done("message")
  /\ UNCHANGED <<line, pos, command, values>>

Next == CheckCommand \/ Token \/ NoMoreTokens

Spec == Init /\ [][Next]_vars

FairSpec == Spec /\ WF_vars(Next)

-----------------------------------------------------------------------------
TypeOK ==
  /\ line \in Lines
  /\ pc \in {"command", "tokens", "done"}
  /\ pos \in 1 .. Len(line) + 1
  /\ command \in {"none", "Go", "UseInches", "UseMm", "Home", "AbsolutePositioning", "RelativePositioning"}
  /\ values \in [Coordinates -> Floats \cup {"none"}]
  /\ outcome \in {"none", "message", "error", "throws"}

(***************************************************************************)
(* What a line says, without reading it from left to right: its words are  *)
(* the longest runs of symbols without a blank.                            *)
(***************************************************************************)
Words ==
  {w \in {<<a, b>> : a \in DOMAIN line, b \in DOMAIN line} :
     /\ w[1] <= w[2]
     /\ \A i \in w[1] .. w[2] : line[i] # Blank
     /\ w[1] = 1 \/ line[w[1] - 1] = Blank
     /\ w[2] = Len(line) \/ line[w[2] + 1] = Blank}

Arguments == {w \in Words : w[1] > 1}
IsCommand(numbers) == Len(line) > 1 /\ line[1] = "G" /\ line[2] \in numbers

GoodArgument(w) ==
  IF IsCommand({"28"}) THEN w[1] = w[2] /\ line[w[1]] \in {"X", "Y", "Z"}
  ELSE line[w[1]] \in Coordinates =>
         w[1] < w[2] /\ line[w[1] + 1] \in Floats /\ \A i \in w[1] .. w[2] : line[i] # "long"

\* Where words for c start before p, and what the last of them says.
SaidBefore(c, p) == {i \in 2 .. p - 1 : line[i] = c /\ \E w \in Arguments : w[1] = i}

ValueBefore(c, p) ==
  IF SaidBefore(c, p) = {} THEN "none"
  ELSE IF IsCommand({"28"}) THEN "1" ELSE line[Max(SaidBefore(c, p)) + 1]

ValueOf(c) == ValueBefore(c, Len(line) + 1)

(***************************************************************************)
(* plotter/server.cpp:67: an exception leaves the parser only for a number *)
(* too big for the command; a message comes of a line that starts with a   *)
(* known command, all of whose arguments are good where it has any, and    *)
(* has what the last word for each coordinate says, whatever blanks there  *)
(* are; all others are errors.                                             *)
(***************************************************************************)
ParsedAsWritten ==
  pc = "done" =>
    /\ outcome = "throws" <=> IsCommand(TooBig)
    /\ outcome = "message" <=>
         \/ IsCommand({"20", "21", "90", "91"})
         \/ IsCommand({"0", "1", "28"}) /\ \A w \in Arguments : GoodArgument(w)
    /\ outcome = "message" =>
         /\ command = CommandOf(line[2])
         /\ values = IF command \in {"Go", "Home"} THEN [c \in Coordinates |-> ValueOf(c)] ELSE NoValues

\* plotter/server.cpp:16: every line is read to its end, or to its first error.
ParseEnds == <>(pc = "done")

(***************************************************************************)
(* On the way there: for_each_token stands behind a blank, or at the end,  *)
(* and the words before have been read, and were good.                     *)
(***************************************************************************)
ReadSoFar ==
  /\ pc = "command" => pos = 1 /\ values = NoValues
  /\ pc # "done" => outcome = "none"
  /\ pc = "tokens" =>
       /\ IsCommand({"0", "1", "28"}) /\ command = CommandOf(line[2])
       /\ pos > 1 /\ (pos <= Len(line) => line[pos - 1] = Blank)
       /\ \A w \in Arguments : w[1] < pos => GoodArgument(w)
       /\ values = [c \in Coordinates |-> ValueBefore(c, pos)]

IInv == TypeOK /\ ParsedAsWritten /\ ReadSoFar
=============================================================================
