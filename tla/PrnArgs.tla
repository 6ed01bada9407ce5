------------------------------ MODULE PrnArgs ------------------------------
(***************************************************************************)
(* The command line of prn-check (src/prn_check/main.rs).  An argument is  *)
(* a flag with or without an inline =value; a word that is no flag has the *)
(* flag "word".  A value is a number: what parses as a threshold of at     *)
(* least 1 is positive, all else is 0.                                     *)
(***************************************************************************)
EXTENDS Integers, Sequences

CONSTANTS
  DefaultThreshold,  \* DEFAULT_THRESHOLD_HOURS
  NoValue            \* no inline value

Argument == [flag : {"word"}, value : Nat]
       \cup [flag : STRING \ {"word"}, value : Nat \cup {NoValue}]

\* What the flags set.  Of the state file and the login only whether one was
\* given matters.
Args == [threshold : Nat \ {0}, file : BOOLEAN, json : BOOLEAN,
         quiet : BOOLEAN, login : BOOLEAN]

Defaults == [threshold |-> DefaultThreshold, file |-> FALSE, json |-> FALSE,
             quiet |-> FALSE, login |-> FALSE]

TakesValue == {"--threshold-hours", "--state-file", "--login"}
TakesNone  == {"--json", "--quiet"}

\* The parser between two arguments: what it has decided, what it has set, and
\* the flag that waits for the next argument as its value.
Parsing(args) == [verdict |-> "run", args |-> args, waiting |-> NoValue]
Ended(p, verdict) == [p EXCEPT !.verdict = verdict]

\* Set one flag that has its value; only the threshold is validated.
SetValue(p, flag, value) ==
  IF flag = "--threshold-hours"
  THEN IF value >= 1 THEN Parsing([p.args EXCEPT !.threshold = value])
                     ELSE Ended(p, "error")
  ELSE IF flag = "--login" THEN Parsing([p.args EXCEPT !.login = TRUE])
  ELSE Parsing([p.args EXCEPT !.file = TRUE])

SetSwitch(p, flag) ==
  Parsing(IF flag = "--json" THEN [p.args EXCEPT !.json = TRUE]
                             ELSE [p.args EXCEPT !.quiet = TRUE])

\* As a value, an argument that looks like a flag is text and no number.
AsText(arg) == IF arg.flag = "word" THEN arg.value ELSE 0

\* One turn of the loop.  Every error and --help end it at once.
Consume(p, arg) ==
  IF p.verdict # "run" THEN p
  ELSE IF p.waiting # NoValue THEN SetValue(p, p.waiting, AsText(arg))
  ELSE CASE arg.flag \in TakesValue ->
              IF arg.value = NoValue THEN [p EXCEPT !.waiting = arg.flag]
                                     ELSE SetValue(p, arg.flag, arg.value)
         [] arg.flag \in TakesNone ->
              IF arg.value = NoValue THEN SetSwitch(p, arg.flag) ELSE Ended(p, "error")
         [] arg.flag = "--help" -> Ended(p, "help")
         [] OTHER               -> Ended(p, "error")

\* The parser after i arguments.
Turns(argv) ==
  LET after[i \in 0 .. Len(argv)] ==
        IF i = 0 THEN Parsing(Defaults) ELSE Consume(after[i - 1], argv[i])
  IN  after

\* The outcome for a whole command line: "error", "help" or "run" with args.
\* Without --state-file there must be a place for the default one (located).
parse_args(argv, located) ==
  LET p == Turns(argv)[Len(argv)]
  IN  IF /\ p.verdict = "run"
         /\ p.waiting # NoValue \/ ~(p.args.file \/ located)
      THEN Ended(p, "error") ELSE p
=============================================================================
