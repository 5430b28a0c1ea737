---------------------------- MODULE CommandLine ----------------------------
(***************************************************************************)
(* What main (software/ad9176_config/ad9176_config.c) makes of its         *)
(* arguments: the job it sets out to do, or a usage message.  argv[1] is   *)
(* the command, as in C; the name of the program is left out.  Texts are   *)
(* members of a set; those that strtoul accepts to the end are in the      *)
(* domain of Number, which says what it makes of them.                     *)
(***************************************************************************)
EXTENDS Integers, Sequences

CONSTANTS
  Number,               \* text -> what strtoul returns for it
  WordRange,            \* how many values a uint32_t has, 2 ^ 32
  DEFAULT_TONE_HZ, DEFAULT_FS_HZ,
  DAC_SUBSYS_SPAN,      \* the size of the mapped window
  OptionWord, MaxWords  \* for ParsedAsGiven: the words behind a command

ASSUME CommandLineAssumption ==
  /\ \A s \in DOMAIN Number : Number[s] \in Nat
  /\ WordRange \in Nat \ {0} /\ DAC_SUBSYS_SPAN \in Nat /\ MaxWords \in Nat
  /\ DEFAULT_TONE_HZ \in Nat /\ DEFAULT_FS_HZ \in Nat

\* What is no number to the end.
NaN == -1

\* The value of a number that is too long is cut without notice.
parse_u32(s) == IF s \in DOMAIN Number THEN Number[s] % WordRange ELSE NaN

Job(cmd, args) == [cmd |-> cmd, args |-> args]
Refused == Job("usage", <<>>)

\* Mutant of Pairs: stops one early, as i + 2 < argc would.
PairsShort(argv) == IF Len(argv) = 1 THEN 0 ELSE (Len(argv) - 2) \div 2

\* The options come in pairs; the loop does not look at a last word that has
\* no other behind it.
Pairs(argv) == (Len(argv) - 1) \div 2

Defaults == [ok |-> TRUE, tone |-> DEFAULT_TONE_HZ, fs |-> DEFAULT_FS_HZ]

Take(opts, option, value) ==
  CASE value # NaN /\ option = "--freq" -> [opts EXCEPT !.tone = value]
    [] value # NaN /\ option = "--fs" -> [opts EXCEPT !.fs = value]
    [] OTHER -> [opts EXCEPT !.ok = FALSE]

\* What the loop has read after k pairs.
Options(argv) ==
  LET Upto[k \in 0 .. Pairs(argv)] ==
        IF k = 0 THEN Defaults
        ELSE Take(Upto[k - 1], argv[2 * k], parse_u32(argv[2 * k + 1]))
  IN  Upto[Pairs(argv)]

InWindow(off) == off # NaN /\ off < DAC_SUBSYS_SPAN

\* The commands that main knows behind the opened device.
Dispatch(argv) ==
  CASE argv[1] = "status" -> Job("status", <<>>)
    [] argv[1] \in {"bringup", "tone"} ->
         LET opts == Options(argv)
         IN  IF opts.ok THEN Job(argv[1], <<opts.tone, opts.fs>>) ELSE Refused
    [] argv[1] = "peek" /\ Len(argv) = 2 ->
         LET off == parse_u32(argv[2])
         IN  IF InWindow(off) THEN Job("peek", <<off>>) ELSE Refused
    [] argv[1] = "poke" /\ Len(argv) = 3 ->
         LET off == parse_u32(argv[2])
             val == parse_u32(argv[3])
         IN  IF InWindow(off) /\ val # NaN THEN Job("poke", <<off, val>>)
             ELSE Refused
    [] OTHER -> Refused

\* Neither opens the device.
Unopened(argv) == argv # <<>> => argv[1] \in {"-h", "--help"}
-----------------------------------------------------------------------------
\* Where the options stand that have a value behind them.
OptionAt(argv) == {i \in 2 .. Len(argv) - 1 : i % 2 = 0}

\* The value of an option: the last one given, or else the default.
Given(argv, option, default) ==
  LET at == {i \in OptionAt(argv) : argv[i] = option}
      last == CHOOSE i \in at : \A j \in at : j <= i
  IN  IF at = {} THEN default ELSE Number[argv[last + 1]] % WordRange

\* What the options of a tone command mean, without the loop that reads them.
ToneAsked(argv) ==
  IF \A i \in OptionAt(argv) :
       argv[i] \in {"--freq", "--fs"} /\ argv[i + 1] \in DOMAIN Number
  THEN Job(argv[1], <<Given(argv, "--freq", DEFAULT_TONE_HZ),
                      Given(argv, "--fs", DEFAULT_FS_HZ)>>)
  ELSE Refused

\* Every tone command of these words is read for what it means.
ReadAsMeant ==
  \A cmd \in {"bringup", "tone"}, n \in 0 .. MaxWords :
    \A words \in [1 .. n -> OptionWord] :
      LET argv == <<cmd>> \o words
      IN  Dispatch(argv) = ToneAsked(argv)
=============================================================================
