---------------------------- MODULE LabArguments ----------------------------
(***************************************************************************)
(* The command line of the scaling lab (scripts/scaling-lab.ts):           *)
(* collectArguments, readNumber and parseArgs.                             *)
(*                                                                         *)
(* An argument is --key, --key=value or a plain text.  Numbers are in      *)
(* tenths.  Of the options one per rule is kept: url (given, of the        *)
(* environment, or the default), concurrency (at least 1, rounded down)    *)
(* for those with a least value, max-error-rate for the one with a range;  *)
(* json and help are the flags.                                            *)
(***************************************************************************)
EXTENDS Integers, Sequences, FiniteSets, FiniteSetsExt

CONSTANTS MaxArguments,  \* bound: arguments of a command line
          NULL           \* undefined; also what a function that throws returns

Flags == {"json", "help"}
Options == {"url", "concurrency", "max-error-rate"}
Keys == Flags \cup Options

\* Kinds of text: "empty" also stands for none, "dashes" begins with --,
\* "blank" is neither a number nor a URL, "http" is an HTTP(S) URL.
Number == [zero |-> 0, one |-> 10, onePointFive |-> 15]
Most == Max({Number[t] : t \in DOMAIN Number})
Texts == {"empty", "dashes", "blank", "http"} \cup DOMAIN Number

\* SCALEFORGE_LAB_URL, if it is set, and the URL that is used without one.
Environments == {NULL, "empty", "http"}
DefaultUrl == "localhost"
HttpUrls == {"http", DefaultUrl}

\* --key with its inline value up to a second =, if any, and whether there is
\* one and more behind it; a plain text has no key.
Argument == [key : Options, text : Texts \cup {NULL}, more : {FALSE}]
            \cup [key : Options, text : {"one", "http"}, more : {TRUE}]
            \cup [key : Flags \cup {"unknown"}, text : {"one", NULL}, more : {FALSE}]
            \cup [key : {NULL}, text : Texts \ {"dashes"}, more : {FALSE}]
Maps == [Keys -> Texts \cup {"true", NULL}]

ASSUME NullAssumption ==
  /\ NULL \notin Keys \cup Texts \cup {"unknown", "true", DefaultUrl}
  /\ NULL \notin Maps /\ NULL \notin Nat

Argvs == UNION {[1 .. n -> Argument] : n \in 0 .. MaxArguments}

-----------------------------------------------------------------------------
(* collectArguments *)

\* split('=', 2): what is behind a second = is dropped.
InlineValue(argument) == argument.text

\* inlineValue ?? argv[index + 1]
TextAt(argv, i) ==
  IF InlineValue(argv[i]) # NULL THEN InlineValue(argv[i])
  ELSE IF i = Len(argv) THEN "empty"
  ELSE IF argv[i + 1].key # NULL THEN "dashes"
  ELSE argv[i + 1].text

\* The index is always advanced past the next argument of an option.
SkipsAnArgument(argv, i) == IF argv[i].key \in Options THEN i + 2 ELSE i + 1

NextIndex(argv, i) ==
  IF argv[i].key \in Options /\ InlineValue(argv[i]) = NULL THEN i + 2 ELSE i + 1

Throws(argv, i) ==
  \/ argv[i].key \notin Keys
  \/ argv[i].key \in Flags /\ InlineValue(argv[i]) # NULL
  \/ argv[i].key \in Options /\ TextAt(argv, i) \in {"empty", "dashes"}

\* One iteration of the loop, which ends by throwing or behind the last argument.
Iterate(argv, s) ==
  IF s.values = NULL \/ s.index > Len(argv) THEN s
  ELSE IF Throws(argv, s.index) THEN [s EXCEPT !.values = NULL]
  ELSE LET key == argv[s.index].key
       IN  [index  |-> NextIndex(argv, s.index),
            values |-> [s.values EXCEPT ![key] =
                          IF key \in Flags THEN "true" ELSE TextAt(argv, s.index)]]

\* The map after as many iterations as there are arguments.
CollectArguments(argv) ==
  LET after[n \in 0 .. Len(argv)] ==
        IF n = 0 THEN [index |-> 1, values |-> [k \in Keys |-> NULL]]
        ELSE Iterate(argv, after[n - 1])
  IN  after[Len(argv)].values

-----------------------------------------------------------------------------
(* readNumber, parseArgs *)

\* A value was given and is no number in the range.
OutOfRange(values, key, range) ==
  /\ values[key] # NULL
  /\ values[key] \notin DOMAIN Number \/ Number[values[key]] \notin range

ReadNumber(values, key, fallback) ==
  IF values[key] = NULL THEN fallback ELSE Number[values[key]]

\* values.get('url') ?? environment.SCALEFORGE_LAB_URL, or the default.
Url(values, environment) ==
  IF values["url"] # NULL THEN values["url"]
  ELSE IF environment # NULL THEN environment ELSE DefaultUrl

ParseArgs(argv, environment) ==
  LET values == CollectArguments(argv)
  IN  IF values = NULL THEN NULL
      ELSE IF values["help"] # NULL THEN [help |-> TRUE]
      ELSE IF \/ Url(values, environment) \notin HttpUrls
              \/ OutOfRange(values, "max-error-rate", 0 .. 10)
              \/ OutOfRange(values, "concurrency", 10 .. Most)
        THEN NULL
      ELSE [url          |-> Url(values, environment),
            concurrency  |-> ReadNumber(values, "concurrency", 100) \div 10,
            maxErrorRate |-> ReadNumber(values, "max-error-rate", NULL),
            json         |-> values["json"] # NULL]

\* What parseArgs makes of the command lines and environments there are.
Parsed == {ParseArgs(argv, e) : argv \in Argvs, e \in Environments}

-----------------------------------------------------------------------------
(* Reference *)

\* A plain text belongs to the option before it, which has no value of its own.
TakesNext(argv, i) == i \in DOMAIN argv /\ argv[i].key \in Options /\ argv[i].text = NULL

WellFormed(argv) ==
  /\ ~TakesNext(argv, Len(argv))
  /\ \A i \in DOMAIN argv :
       /\ argv[i].key = NULL <=> TakesNext(argv, i - 1)
       /\ argv[i].key # "unknown" /\ argv[i].text \notin {"empty", "dashes"}
       /\ argv[i].key \in Flags => argv[i].text = NULL

\* The last text given for an option: all of the next argument, or an inline
\* value as far as the second =.
Given(argv, key) ==
  LET at == {i \in DOMAIN argv : argv[i].key = key}
  IN  IF at = {} THEN NULL
      ELSE IF TakesNext(argv, Max(at)) THEN argv[Max(at) + 1].text ELSE argv[Max(at)].text

Has(argv, flag) == \E i \in DOMAIN argv : argv[i].key = flag

\* What a command line asks for.
Requested(argv, environment) ==
  LET u == Given(argv, "url")
      c == Given(argv, "concurrency")
      e == Given(argv, "max-error-rate")
  IN  IF ~WellFormed(argv) THEN NULL
      ELSE IF Has(argv, "help") THEN [help |-> TRUE]
      ELSE IF \/ u \notin {NULL, "http"} \/ (u = NULL /\ environment = "empty")
              \/ c \notin {NULL, "one", "onePointFive"}
              \/ e \notin {NULL, "zero", "one"}
        THEN NULL
      ELSE [url          |-> IF u = NULL /\ environment = NULL THEN "localhost" ELSE "http",
            concurrency  |-> IF c = NULL THEN 10 ELSE 1,
            maxErrorRate |-> IF e = NULL THEN NULL ELSE IF e = "zero" THEN 0 ELSE 10,
            json         |-> Has(argv, "json")]

=============================================================================
