----------------------------- MODULE ShellQuote -----------------------------
(***************************************************************************)
(* How grpc_exec makes a command line of its arguments                     *)
(* (src/grpc_exec/cmd/grpc_exec/main.go), against what sh -c makes of it.  *)
(* A text is a sequence of characters, of which five kinds matter: the     *)
(* two quotes, the blank, a character that sh interprets outside of single *)
(* quotes ($, a backslash, ;, ...) and any other.                          *)
(***************************************************************************)
EXTENDS SequencesExt, Naturals

CONSTANTS
    MaxArgs,     \* arguments of the runs
    MaxChars     \* characters they have together

ASSUME ShellAssumption == MaxArgs \in Nat /\ MaxChars \in Nat

Single == "'"
Double == "\""
Blank == " "
ShellChars == {Single, Double, Blank, "$", "a"}

\* MUTANT: quotes in an argument are not escaped.
KeepQuote(ch) == <<ch>>

\* A single quote ends the quoted text, and is itself put into double quotes.
EscapeQuote(ch) ==
    IF ch = Single THEN <<Single, Double, Single, Double, Single>> ELSE <<ch>>

shellQuote(s) ==
    <<Single>> \o FlattenSeq([i \in 1..Len(s) |-> EscapeQuote(s[i])]) \o <<Single>>

shellJoin(list) ==
    FlattenSeq([i \in 1..Len(list) |->
        IF i = 1 THEN shellQuote(list[i]) ELSE <<Blank>> \o shellQuote(list[i])])

\* One argument is a raw command line, several are the words of one.
CommandLine(list) == IF Len(list) = 1 THEN list[1] ELSE shellJoin(list)

(***************************************************************************)
(* The words sh makes of a command line.                                   *)
(***************************************************************************)
\* What comes of a character that sh interprets is nothing a caller wrote.
Interpreted == "interpreted"

\* Where the tokenizer is: within which quotes, whether in a word, that word
\* so far, and the words before it.
State(mode, open, word, words) ==
    [mode |-> mode, open |-> open, word |-> word, words |-> words]

\* A word is open from its first character, or quote, on.
Put(st, ch) == State(st.mode, TRUE, Append(st.word, ch), st.words)

Quote(st, mode) == State(mode, TRUE, st.word, st.words)

EndWord(st) ==
    IF st.open THEN State(st.mode, FALSE, <<>>, Append(st.words, st.word)) ELSE st

\* The first line that applies.
Scan(st, ch) ==
    IF ch = st.mode THEN Quote(st, "plain")
    ELSE IF st.mode = Single THEN Put(st, ch)
    ELSE IF ch = "$" THEN Put(st, Interpreted)
    ELSE IF st.mode = Double THEN Put(st, ch)
    ELSE IF ch = Blank THEN EndWord(st)
    ELSE IF ch \in {Single, Double} THEN Quote(st, ch)
    ELSE Put(st, ch)

\* From a state on, character by character.
Scanned(st, line) ==
    LET scan[i \in 0..Len(line)] == IF i = 0 THEN st ELSE Scan(scan[i - 1], line[i])
    IN scan[Len(line)]

Start == State("plain", FALSE, <<>>, <<>>)

Words(line) ==
    LET end == Scanned(Start, line)
    IN IF end.mode = "plain" THEN EndWord(end).words ELSE <<Interpreted>>

(***************************************************************************)
(* All lists of arguments up to a length, grown character by character.    *)
(***************************************************************************)
VARIABLE args

ShellInit == args = <<>>

Characters == Len(FlattenSeq(args))

NewArg == Len(args) < MaxArgs /\ args' = Append(args, <<>>)

GrowArg ==
    /\ args # <<>> /\ Characters < MaxChars
    /\ \E ch \in ShellChars : args' = [args EXCEPT ![Len(args)] = Append(@, ch)]

ShellNext == NewArg \/ GrowArg

ShellSpec == ShellInit /\ [][ShellNext]_args

\* The shell hands the command the very arguments the caller of grpc_exec
\* gave, "so that spaces and metacharacters in individual args are preserved"
\* (main.go:55-64, 125-141): also when they are empty or full of quotes.
ArgsSurvive == Len(args) >= 2 => Words(CommandLine(args)) = args
=============================================================================
