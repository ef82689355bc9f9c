----------------------------- MODULE ScalingLab -----------------------------
(***************************************************************************)
(* The scaling lab (scripts/scaling-lab.ts): an open-loop load generator   *)
(* that offers requests at a fixed rate with a bounded number in flight,   *)
(* a warm-up phase that is discarded, a measured phase, and a report with  *)
(* percentiles and a verdict.                                              *)
(*                                                                         *)
(* Time is counted in ticks from the start of a phase.  The script runs on *)
(* one event loop: a request completes only while the loop of runPhase     *)
(* awaits its timer or the requests in flight, never between two           *)
(* iterations of a loop that is late.                                      *)
(***************************************************************************)
EXTENDS LabArguments

CONSTANTS Concurrency,   \* --concurrency
          Interval,      \* ticks between two scheduled requests
          Warmup,        \* ticks of the warm-up phase, 0 for none
          Duration,      \* ticks of the measured phase
          Timeout,       \* ticks after which a request is aborted
          SloP99,        \* --slo-p99 in 1/100 ms, or NULL
          MaxErrorRate,  \* --max-error-rate in percent, or NULL
          TickMicros,    \* microseconds in a tick
          TimerSlack,    \* ticks a timer may fire early
          Horizon,       \* bound: ticks of a phase
          LongRun        \* bound: samples of the runs percentile is compared on

ASSUME LoadAssumption ==
  /\ Concurrency \in Nat \ {0} /\ Interval \in Nat \ {0} /\ TickMicros \in Nat \ {0}
  /\ Warmup \in Nat /\ Duration \in Nat \ {0} /\ Timeout \in Nat \ {0}
  /\ TimerSlack \in 0 .. Interval
ASSUME ThresholdAssumption ==
  SloP99 \in Nat \cup {NULL} /\ MaxErrorRate \in 0 .. 100 \cup {NULL}
ASSUME BoundsAssumption ==
  /\ Horizon \in Nat /\ Horizon >= Timeout + Max({Warmup, Duration})
  /\ LongRun \in Nat /\ MaxArguments \in Nat

VARIABLES
  stage,      \* "start", "warmup", "measure" or "done"
  loop,       \* "turn" (synchronous), "sleep" (awaits its timer), "drain"
  now,        \* performance.now() - started
  scheduled,
  clientBackpressureDrops,
  active,     \* requests in flight: their number and when they started
  samples,    \* what completed, in the order of completion
  report,     \* the LabReport, or NULL
  exitCode    \* process.exitCode

phase == <<now, scheduled, clientBackpressureDrops, active, samples>>
result == <<report, exitCode>>
vars == <<stage, loop, phase, result>>

Phases == {"warmup", "measure"}
Statuses == {"200", "503"}
Outcomes == Statuses \cup {"network", "timeout"}
Fractions == {50, 95, 99}    \* percent

Deadline == IF stage = "warmup" THEN Warmup ELSE Duration

Init == /\ stage = "start"
        /\ loop = "turn"
        /\ now = 0 /\ scheduled = 0 /\ clientBackpressureDrops = 0
        /\ active = {} /\ samples = <<>>
        /\ report = NULL /\ exitCode = 0

-----------------------------------------------------------------------------
(* runPhase: the scheduling loop *)

\* Off by one: a slot is due one interval early.
ScheduledAhead == (scheduled - 1) * Interval

ScheduledAt == scheduled * Interval

\* The next slot lies in the future: await delay(waitMs).
Sleep ==
  /\ stage \in Phases /\ loop = "turn"
  /\ now < ScheduledAt
  /\ loop' = "sleep"
  /\ UNCHANGED <<stage, phase, result>>

\* The slot has come, or the timer that waits for it fires: Node truncates a
\* delay to milliseconds, so it may fire a little early.
Due == \/ loop = "turn" /\ now >= ScheduledAt
       \/ loop = "sleep" /\ now >= ScheduledAt - TimerSlack

AtLimit == Cardinality(active) >= Concurrency

\* The slot is used: the request starts, or is dropped at the limit.
StartRequest ==
  /\ stage \in Phases /\ Due /\ now < Deadline
  /\ ~AtLimit
  /\ loop' = "turn"
  /\ scheduled' = scheduled + 1
  /\ active' = active \cup {[number |-> scheduled, started |-> now]}
  /\ UNCHANGED <<stage, now, clientBackpressureDrops, samples, result>>

\* The loop continues before it counts the slot.
DropUncounted ==
  /\ stage \in Phases /\ Due /\ now < Deadline
  /\ AtLimit
  /\ loop' = "turn"
  /\ clientBackpressureDrops' = clientBackpressureDrops + 1
  /\ UNCHANGED <<stage, now, scheduled, active, samples, result>>

DropRequest ==
  /\ stage \in Phases /\ Due /\ now < Deadline
  /\ AtLimit
  /\ loop' = "turn"
  /\ scheduled' = scheduled + 1
  /\ clientBackpressureDrops' = clientBackpressureDrops + 1
  /\ UNCHANGED <<stage, now, active, samples, result>>

\* The deadline has passed: await Promise.all(active).
EndLoop ==
  /\ stage \in Phases /\ Due /\ now >= Deadline
  /\ loop' = "drain"
  /\ UNCHANGED <<stage, phase, result>>

-----------------------------------------------------------------------------
(* executeRequest *)

\* The signal of the controller is not passed to fetch.
NeverAborts(r, outcome) == outcome # "timeout"

\* A request aborts only when its timer fires; every other outcome may come
\* at any time, even after the timeout when the event loop is late.
MayEnd(r, outcome) ==
  outcome = "timeout" => now - r.started >= Timeout - TimerSlack

\* The sample is pushed and the request leaves the active set.
Complete(r, outcome) ==
  /\ stage \in Phases /\ loop \in {"sleep", "drain"}
  /\ MayEnd(r, outcome)
  /\ samples' = Append(samples, [ticks |-> now - r.started, outcome |-> outcome])
  /\ active' = active \ {r}
  /\ UNCHANGED <<stage, loop, now, scheduled, clientBackpressureDrops, result>>

-----------------------------------------------------------------------------
(* percentile, latencySummary, summarize *)

\* Number(x.toFixed(2)): milliseconds to 1/100 ms.
ToFixed2(ticks) == (ticks * TickMicros + 5) \div 10

\* Math.floor(fraction * n) without the - 1, kept inside the array.
RankFloor(n, f) == Min({(f * n) \div 100 + 1, n})

\* Math.max(0, Math.ceil(fraction * n) - 1) for a sequence that starts at 1.
RankIndex(n, f) == Max({0, ((f * n + 99) \div 100) - 1}) + 1

\* values.sort, which is stable: where each value goes.
Positions(values) ==
  [i \in DOMAIN values |-> Quantify(DOMAIN values, LAMBDA j :
     values[j] < values[i] \/ (values[j] = values[i] /\ j <= i))]

Sorted(values) ==
  LET position == Positions(values)
  IN  [k \in DOMAIN values |-> values[CHOOSE i \in DOMAIN values : position[i] = k]]

Percentile(values, f) ==
  IF values = <<>> THEN NULL
  ELSE ToFixed2(Sorted(values)[RankIndex(Len(values), f)])

Values(s) == {s[i] : i \in DOMAIN s}

LatencySummary(s) ==
  LET values == [i \in DOMAIN s |-> s[i].ticks]
  IN  [min |-> IF values = <<>> THEN NULL ELSE ToFixed2(Min(Values(values))),
       max |-> IF values = <<>> THEN NULL ELSE ToFixed2(Max(Values(values))),
       at  |-> [f \in Fractions |-> Percentile(values, f)]]

\* samples.filter: those that succeeded, in their order.
Succeeded == {i \in DOMAIN samples : samples[i].outcome = "200"}
Successful ==
  [n \in 1 .. Cardinality(Succeeded) |->
     samples[CHOOSE i \in Succeeded : Quantify(Succeeded, LAMBDA j : j <= i) = n]]
CountOf(outcome) == Quantify(DOMAIN samples, LAMBDA i : samples[i].outcome = outcome)
Failures == CountOf("503") + CountOf("network") + CountOf("timeout")

\* With nothing completed the error rate is 0.
NothingIsNoError(limit) == 100 * Failures > limit * Len(samples)

\* With nothing completed the error rate is 1.
ErrorRateExceeds(limit) ==
  IF samples = <<>> THEN limit < 100 ELSE 100 * Failures > limit * Len(samples)

ThresholdFailures ==
  LET p99 == LatencySummary(Successful).at[99]
  IN  {t \in {"p99", "errors", "drops"} :
         \/ t = "p99" /\ SloP99 # NULL /\ (p99 = NULL \/ p99 > SloP99)
         \/ t = "errors" /\ MaxErrorRate # NULL /\ ErrorRateExceeds(MaxErrorRate)
         \/ t = "drops" /\ clientBackpressureDrops > 0}

Summarize ==
  [scheduled         |-> scheduled,
   completed         |-> Len(samples),
   drops             |-> clientBackpressureDrops,
   outcomes          |-> [o \in Outcomes |-> CountOf(o)],
   latency           |-> LatencySummary(samples),
   successfulLatency |-> LatencySummary(Successful),
   failures          |-> ThresholdFailures]

-----------------------------------------------------------------------------
(* main *)

\* The command line is parsed: it asks for help, is refused, or a phase starts.
\* The phases have the load of the constants, whatever options gave it.
Start ==
  /\ stage = "start"
  /\ \E parsed \in Parsed :
       IF parsed = NULL \/ parsed = [help |-> TRUE]
         THEN stage' = "done" /\ exitCode' = IF parsed = NULL THEN 1 ELSE 0
         ELSE stage' = (IF Warmup > 0 THEN "warmup" ELSE "measure") /\ UNCHANGED exitCode
  /\ UNCHANGED <<loop, phase, report>>

\* The warm-up has drained: its result is discarded, the measured phase starts.
StartMeasuring ==
  /\ stage = "warmup" /\ loop = "drain" /\ active = {}
  /\ stage' = "measure" /\ loop' = "turn"
  /\ now' = 0 /\ scheduled' = 0 /\ clientBackpressureDrops' = 0
  /\ active' = {} /\ samples' = <<>>
  /\ UNCHANGED result

\* The measured phase has drained: report it; exit code 2 unless it passed.
Report ==
  /\ stage = "measure" /\ loop = "drain" /\ active = {}
  /\ stage' = "done"
  /\ report' = Summarize
  /\ exitCode' = IF ThresholdFailures = {} THEN 0 ELSE 2
  /\ UNCHANGED <<loop, phase>>

Tick ==
  /\ stage \in Phases /\ now < Horizon
  /\ now' = now + 1
  /\ UNCHANGED <<stage, loop, scheduled, clientBackpressureDrops, active, samples, result>>

Slot == StartRequest \/ DropRequest \/ EndLoop

Next == \/ Start \/ Sleep \/ Slot \/ StartMeasuring \/ Report \/ Tick
        \/ \E r \in active, o \in Outcomes : Complete(r, o)

Spec == Init /\ [][Next]_vars

\* Time passes, due timers fire and a started abort ends its request; nothing
\* is assumed of the answers of the target.
FairSpec ==
  /\ Spec
  /\ WF_vars(Start) /\ WF_vars(Tick) /\ WF_vars(Sleep) /\ WF_vars(Slot)
  /\ WF_vars(\E r \in active : Complete(r, "timeout"))
  /\ WF_vars(StartMeasuring) /\ WF_vars(Report)

-----------------------------------------------------------------------------
(* Properties *)

\* The slots a timer that fires TimerSlack early lets the loop reach.
OfferedSlots == (Deadline + TimerSlack + Interval - 1) \div Interval

Latency == 0 .. ToFixed2(Horizon) \cup {NULL}
Summaries == [min : Latency, max : Latency, at : [Fractions -> Latency]]

\* Types; at most Concurrency requests are in flight (runPhase's active set).
TypeOK ==
  /\ stage \in Phases \cup {"start", "done"} /\ exitCode \in 0 .. 2
  /\ loop \in {"turn", "sleep", "drain"}
  /\ now \in 0 .. Horizon
  /\ scheduled \in Nat /\ clientBackpressureDrops \in Nat
  /\ active \subseteq [number : Nat, started : 0 .. Horizon]
  /\ Cardinality(active) <= Concurrency
  /\ samples \in Seq([ticks : 0 .. Horizon, outcome : Outcomes])
  /\ report # NULL => /\ report.latency \in Summaries
                      /\ report.successfulLatency \in Summaries

\* Types, and every scheduled request is dropped, in flight or sampled, exactly
\* once; the measured report accounts for all of its own and none of the
\* warm-up's.
Accounting ==
  /\ TypeOK
  /\ scheduled = clientBackpressureDrops + Cardinality(active) + Len(samples)
  /\ report # NULL =>
       /\ report.scheduled = report.drops + report.completed
       /\ report.completed = report.outcomes["200"] + report.outcomes["503"]
                              + report.outcomes["network"] + report.outcomes["timeout"]

\* The load is open-loop (docs/scaling-lab.md): however late, early or slow
\* the timers and the target are, no request starts ahead of its slot by more
\* than the timer's slack, and a phase never offers more slots than its rate
\* allows, the loop's catching up after a stall included.
OnSchedule ==
  /\ \A r \in active : r.started >= r.number * Interval - TimerSlack
  /\ scheduled <= OfferedSlots

\* The nearest-rank percentile: the smallest value that at least f percent of
\* the values do not exceed.
NearestRank(values, f) ==
  IF values = <<>> THEN NULL
  ELSE ToFixed2(Min({v \in Values(values) :
         100 * Quantify(DOMAIN values, LAMBDA i : values[i] <= v) >= f * Len(values)}))

Ticks(s) == [i \in DOMAIN s |-> s[i].ticks]

\* From 20 (100) samples on p95 (p99) is not the maximum: runs of that length,
\* of distinct and of repeated durations in falling order.
LongRuns == {[i \in 1 .. n |-> (n - i) \div repeat] : n \in 1 .. LongRun, repeat \in {1, 7}}

LongRunsAgree ==
  \A values \in LongRuns, f \in Fractions : Percentile(values, f) = NearestRank(values, f)

\* The percentiles, computed by sorting and indexing, are the nearest-rank
\* percentiles: those reported of the samples and of the successful ones, and
\* those of runs longer than the load of the instance allows.
PercentilesAreNearestRank ==
  /\ LongRunsAgree
  /\ report # NULL => \A f \in Fractions :
       /\ report.latency.at[f] = NearestRank(Ticks(samples), f)
       /\ report.successfulLatency.at[f] = NearestRank(Ticks(Successful), f)

\* Successful samples that meet the SLO up to the rounding to 1/100 ms.
WithinSlo == Quantify(DOMAIN Successful,
               LAMBDA i : Successful[i].ticks * TickMicros < 10 * SloP99 + 5)

\* The verdict (summarize, exit code 2) says what happened: a threshold fails
\* exactly when fewer than 99% of the successful samples meet the SLO, too
\* many of the completed requests failed or none completed, or one was dropped.
VerdictJustified ==
  report # NULL =>
    /\ SloP99 # NULL =>
         ("p99" \in report.failures <=>
            Successful = <<>> \/ 100 * WithinSlo < 99 * Len(Successful))
    /\ MaxErrorRate # NULL =>
         ("errors" \in report.failures <=>
            \/ samples = <<>> /\ MaxErrorRate < 100
            \/ 100 * (Len(samples) - Len(Successful)) > MaxErrorRate * Len(samples))
    /\ "drops" \in report.failures <=> scheduled > Len(samples)
    /\ exitCode = 2 <=> report.failures # {}

\* parseArgs takes exactly the well-formed command lines with an HTTP(S) URL and
\* numbers in range, both ends included, or with --help: a value is never taken
\* for an option or given to another one, the last one counts, the environment
\* only where no URL is given, and what is run has at least one request in
\* flight.  Of an inline value what is behind a second = is dropped.
CommandLineHonoured ==
  stage = "start" =>
    \A argv \in Argvs, e \in Environments : ParseArgs(argv, e) = Requested(argv, e)

\* The lab ends, a load it started with a report, although the target may
\* never answer: timeouts end the requests and the deadline ends the phases.
EventuallyReported == <>(stage = "done")

=============================================================================
