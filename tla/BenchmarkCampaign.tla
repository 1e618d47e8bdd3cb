-------------------------- MODULE BenchmarkCampaign --------------------------
(***************************************************************************)
(* The benchmark campaign: BenchmarkRunner.run drives the gateways, the    *)
(* network and the event publisher through commands whose failure nobody   *)
(* notices, waits a fixed time, and takes its numbers from two telemetry   *)
(* files that the gateways go on writing; analyze_telemetry.py later works *)
(* on the copies it archived.                                              *)
(*                                                                         *)
(* Combinations are numbered in the order of the runner's loops, and the   *)
(* transactions of combination k are the EventCount numbers from           *)
(* (k - 1) * EventCount + 1 on.  Transaction 0 stands for the lines of an  *)
(* earlier campaign, whose archives and report are still there.            *)
(***************************************************************************)
EXTENDS Integers, FiniteSets, SequencesExt

CONSTANTS Iterations,   \* iterations of the campaign
          Cryptos,      \* [CLASSICAL, HYBRID_PQC], in order
          Profiles,     \* ["stable", "adverse"], in order
          EventCount,   \* events injected for a combination
          Discard,      \* warm_up_discard
          Window,       \* events per iteration the analysis keeps
          MaxLines,     \* bound on the attempts at one transaction that reach B
          MaxRetried,   \* bound on the transactions with more than one of them
          MaxFailures   \* bound on commands that fail

ASSUME CampaignAssumption ==
    /\ Cryptos \in Seq(STRING) /\ Profiles \in Seq({"stable", "adverse"})
    /\ {Iterations, EventCount, Len(Cryptos), Len(Profiles), MaxLines} \subseteq Nat \ {0}
    /\ {Discard, Window, MaxRetried, MaxFailures} \subseteq Nat

NumCombos == Iterations * Len(Cryptos) * Len(Profiles)
Combo == 1..NumCombos
ProfileOf(k) == Profiles[((k - 1) % Len(Profiles)) + 1]
CryptoOf(k) == Cryptos[(((k - 1) \div Len(Profiles)) % Len(Cryptos)) + 1]
FirstOfCrypto(k) == (k - 1) % Len(Profiles) = 0

Tx == 1..(NumCombos * EventCount)
ComboOf(t) == ((t - 1) \div EventCount) + 1
Iface == {"eth0", "eth1"}

VARIABLES
    pc,        \* the runner's next step
    k,         \* the combination it works on
    envCrypto, \* the crypto mode in the runner's environment
    gwCrypto,  \* the crypto mode the gateways run
    shaped,    \* router interfaces that have the netem rules
    rtt,       \* what probe_rtt returned
    injected,  \* events published so far for the combination
    phase,     \* [Tx -> "none", "missed", "queued", "acked", "failed" or "killed"]
    tries,     \* [Tx -> attempts of Gateway A that reached Gateway B]
    handlers,  \* [Tx -> of these, the ones that still have to log]
    telA,      \* Gateway A's telemetry file: transactions in the order of their lines
    telB,      \* Gateway B's
    snap,      \* lines of telA that collect() has read
    results,   \* the runner's list of results
    raw,       \* [Combo -> the archived files]
    csv,       \* results in benchmark_report.csv
    exit,      \* the exit status, "none" before
    failures   \* commands that failed so far

runner == <<pc, k, envCrypto, rtt, injected, snap, results, raw, csv, exit>>
gateways == <<gwCrypto, phase, tries, handlers>>
vars == <<runner, gateways, shaped, telA, telB, failures>>

OldResult == [k |-> 0, crypto |-> "old", profile |-> "old", rtt |-> "old",
              counted |-> << >>, plotted |-> {}, ranUnder |-> "old", net |-> {}]

Init ==
    /\ pc = "switch" /\ k = 1
    /\ envCrypto = "unset" /\ gwCrypto = "unset"
    /\ shaped \in SUBSET Iface
    /\ rtt = "none" /\ injected = 0
    /\ phase = [t \in Tx |-> "none"]
    /\ tries = [t \in Tx |-> 0]
    /\ handlers = [t \in Tx |-> 0]
    /\ telA = << >> /\ telB = << >> /\ snap = << >>
    /\ results = << >>
    /\ raw = [c \in Combo |-> [a |-> <<0>>, b |-> <<0>>]]
    /\ csv = <<OldResult>>
    /\ exit = "none"
    /\ failures = 0

-----------------------------------------------------------------------------
(* The gateways, as far as telemetry goes (Delivery.tla has the rest)      *)

Queued == {t \in Tx : phase[t] = "queued"}
IsHead(t) == t \in Queued /\ \A u \in Queued : t <= u

MayTry(t) ==
    \/ tries[t] = 0
    \/ tries[t] < MaxLines /\ Cardinality({u \in Tx \ {t} : tries[u] > 1}) < MaxRetried

\* An attempt at the oldest transaction reaches Gateway B, which accepts it.
Attempt(t) ==
    /\ IsHead(t) /\ MayTry(t)
    /\ tries' = [tries EXCEPT ![t] = @ + 1]
    /\ handlers' = [handlers EXCEPT ![t] = @ + 1]
    /\ UNCHANGED <<runner, gwCrypto, phase, shaped, telA, telB, failures>>

\* Gateway B logs after it has written the ACK.
HandlerLogs(t) ==
    /\ handlers[t] > 0
    /\ handlers' = [handlers EXCEPT ![t] = @ - 1]
    /\ telB' = Append(telB, t)
    /\ UNCHANGED <<runner, gwCrypto, phase, tries, shaped, telA, failures>>

\* Gateway A receives an ACK and logs.
AckArrives(t) ==
    /\ IsHead(t) /\ tries[t] > 0
    /\ phase' = [phase EXCEPT ![t] = "acked"]
    /\ telA' = Append(telA, t)
    /\ UNCHANGED <<runner, gwCrypto, tries, handlers, shaped, telB, failures>>

\* Gateway A gives the transaction up.
GivesUp(t) ==
    /\ IsHead(t)
    /\ phase' = [phase EXCEPT ![t] = "failed"]
    /\ UNCHANGED <<runner, gwCrypto, tries, handlers, shaped, telA, telB, failures>>

GatewayStep == \E t \in Tx : Attempt(t) \/ HandlerLogs(t) \/ AckArrives(t) \/ GivesUp(t)

-----------------------------------------------------------------------------
(* The runner                                                              *)

\* _default_exec returns the command's output and drops its status.
ExecWorks == UNCHANGED failures
ExecFails == failures < MaxFailures /\ failures' = failures + 1

\* Mutated form: the new environment is not given to the containers.
RestartKeepsContainers == UNCHANGED gateways

\* docker compose up -d: containers whose environment changed are recreated,
\* and what the old ones held is gone.
Restart ==
    IF gwCrypto = envCrypto' THEN UNCHANGED gateways
    ELSE /\ gwCrypto' = envCrypto'
         /\ phase' = [t \in Tx |-> IF phase[t] = "queued" THEN "killed" ELSE phase[t]]
         /\ handlers' = [t \in Tx |-> 0]
         /\ UNCHANGED tries

\* The top of the two outer loops: _set_crypto_env and _restart_gateways.
SwitchCrypto ==
    /\ pc = "switch"
    /\ IF FirstOfCrypto(k)
       THEN /\ envCrypto' = CryptoOf(k)
            /\ (ExecWorks /\ Restart) \/ (ExecFails /\ UNCHANGED gateways)
       ELSE UNCHANGED <<envCrypto, gateways, failures>>
    /\ pc' = "eth0"
    /\ UNCHANGED <<k, rtt, injected, snap, results, raw, csv, exit, shaped, telA, telB>>

\* Mutated form: the rules of an adverse run are never taken away.
ShapedAfterNoClear(iface) == IF ProfileOf(k) = "adverse" THEN shaped \cup {iface} ELSE shaped

\* _apply_adverse (tc add, or change where there is a rule) and _clear_rules.
ShapedAfter(iface) ==
    IF ProfileOf(k) = "adverse" THEN shaped \cup {iface} ELSE shaped \ {iface}

\* toggle_profile, one interface after the other.
Toggle(iface, next) ==
    /\ pc = iface
    /\ \/ ExecWorks /\ shaped' = ShapedAfter(iface)
       \/ ExecFails /\ UNCHANGED shaped
    /\ pc' = next
    /\ UNCHANGED <<k, envCrypto, rtt, injected, snap, results, raw, csv, exit,
                   gateways, telA, telB>>

\* probe_rtt: what ping sees of the two interfaces, 0.0 when it has no answer.
Seen == CASE shaped = {} -> "stable" [] shaped = Iface -> "adverse" [] OTHER -> "mixed"
ProbeRtt ==
    /\ pc = "probe"
    /\ \/ ExecWorks /\ rtt' = Seen
       \/ ExecFails /\ rtt' = "0.0"
    /\ pc' = "clearA"
    /\ UNCHANGED <<k, envCrypto, injected, snap, results, raw, csv, exit,
                   gateways, shaped, telA, telB>>

\* _clear_telemetry removes one file, then the other.
ClearA ==
    /\ pc = "clearA"
    /\ telA' = << >>
    /\ pc' = "clearB"
    /\ UNCHANGED <<k, envCrypto, rtt, injected, snap, results, raw, csv, exit,
                   gateways, shaped, telB, failures>>

ClearB ==
    /\ pc = "clearB"
    /\ telB' = << >>
    /\ injected' = 0
    /\ pc' = "inject"
    /\ UNCHANGED <<k, envCrypto, rtt, snap, results, raw, csv, exit, gateways,
                   shaped, telA, failures>>

\* _inject_events: the publisher sends the next event, which Gateway A receives
\* or misses; or the command fails and nothing more is sent.
InjectOne ==
    LET t == (k - 1) * EventCount + injected + 1 IN
    /\ pc = "inject" /\ injected < EventCount
    /\ \/ /\ ExecWorks
          /\ injected' = injected + 1
          /\ \E p \in {"queued", "missed"} : phase' = [phase EXCEPT ![t] = p]
       \/ /\ ExecFails /\ injected = 0
          /\ injected' = EventCount
          /\ UNCHANGED phase
    /\ UNCHANGED <<pc, k, envCrypto, rtt, snap, results, raw, csv, exit, gwCrypto,
                   tries, handlers, shaped, telA, telB>>

\* Mutated form: the runner waits until the gateways have nothing left to do.
WaitForTelemetry ==
    /\ pc = "inject" /\ injected = EventCount
    /\ Len(telA) = EventCount
    /\ pc' = "readA"
    /\ UNCHANGED <<k, envCrypto, rtt, injected, snap, results, raw, csv, exit,
                   gateways, shaped, telA, telB, failures>>

\* time.sleep(wait_seconds) ends, whatever the gateways are doing.
WaitEnds ==
    /\ pc = "inject" /\ injected = EventCount
    /\ pc' = "readA"
    /\ UNCHANGED <<k, envCrypto, rtt, injected, snap, results, raw, csv, exit,
                   gateways, shaped, telA, telB, failures>>

\* TelemetryCollector.collect parses Gateway A's file first ...
ReadA ==
    /\ pc = "readA"
    /\ snap' = telA
    /\ pc' = "readB"
    /\ UNCHANGED <<k, envCrypto, rtt, injected, results, raw, csv, exit, gateways,
                   shaped, telA, telB, failures>>

\* pd.merge on tx_id: one row for every pair of lines, in the order of the left.
Merge(a, b) ==
    FlattenSeq([i \in DOMAIN a |->
        [j \in 1..Cardinality({j \in DOMAIN b : b[j] = a[i]}) |-> a[i]]])

\* Mutated form: the comparison lets exactly Discard rows through.
EnoughRowsOrEqual(rows) == Len(rows) >= Discard

\* compute() returns None for too few rows, else it looks at iloc[discard:].
EnoughRows(rows) == rows # << >> /\ Len(rows) > Discard
AfterWarmUp(rows) == SubSeq(rows, Discard + 1, Len(rows))

\* ... and then Gateway B's, merges them and computes the metrics.  ranUnder and
\* net record, for the properties, what was in force.
CollectAndCompute ==
    LET rows == Merge(snap, telB) IN
    /\ pc = "readB"
    /\ IF EnoughRows(rows)
       THEN /\ results' = Append(results,
                 [k |-> k, crypto |-> CryptoOf(k), profile |-> ProfileOf(k), rtt |-> rtt,
                  counted |-> AfterWarmUp(rows), plotted |-> {}, ranUnder |-> gwCrypto,
                  net |-> shaped])
            /\ pc' = "plotA"
       ELSE pc' = "next" /\ UNCHANGED results
    /\ snap' = << >>
    /\ UNCHANGED <<k, envCrypto, rtt, injected, raw, csv, exit, gateways, shaped,
                   telA, telB, failures>>

\* _get_latency_series collects once more, for the plots: one file ...
ReadSeriesA ==
    /\ pc = "plotA"
    /\ snap' = telA
    /\ pc' = "plotB"
    /\ UNCHANGED <<k, envCrypto, rtt, injected, results, raw, csv, exit, gateways,
                   shaped, telA, telB, failures>>

SeriesOf(rows) == IF EnoughRows(rows) THEN ToSet(AfterWarmUp(rows)) ELSE {}

\* ... and the other.
ReadSeriesB ==
    /\ pc = "plotB"
    /\ results' = [results EXCEPT ![Len(results)].plotted = SeriesOf(Merge(snap, telB))]
    /\ snap' = << >>
    /\ pc' = "copyA"
    /\ UNCHANGED <<k, envCrypto, rtt, injected, raw, csv, exit, gateways, shaped,
                   telA, telB, failures>>

\* Mutated form: the archive's names leave the crypto mode out.
CopyByProfile(file) ==
    raw' = [raw EXCEPT ![((k - 1) % Len(Profiles)) + 1][file] =
              IF file = "a" THEN telA ELSE telB]

\* The raw files are archived, one after the other, under the combination's name.
Copy(file) == raw' = [raw EXCEPT ![k][file] = IF file = "a" THEN telA ELSE telB]

ArchiveA ==
    /\ pc = "copyA"
    /\ Copy("a")
    /\ pc' = "copyB"
    /\ UNCHANGED <<k, envCrypto, rtt, injected, snap, results, csv, exit, gateways,
                   shaped, telA, telB, failures>>

ArchiveB ==
    /\ pc = "copyB"
    /\ Copy("b")
    /\ pc' = "next"
    /\ UNCHANGED <<k, envCrypto, rtt, injected, snap, results, csv, exit, gateways,
                   shaped, telA, telB, failures>>

NextCombination ==
    /\ pc = "next" /\ k < NumCombos
    /\ k' = k + 1
    /\ pc' = "switch"
    /\ UNCHANGED <<envCrypto, rtt, injected, snap, results, raw, csv, exit, gateways,
                   shaped, telA, telB, failures>>

\* Mutated form: any result is success.
ExitStatusAny == IF results = << >> THEN "1" ELSE "0"

\* repeat_runner.main: one result for every combination, or an error.
ExitStatus == IF Len(results) # NumCombos THEN "1" ELSE "0"

\* ReportGenerator.generate, which writes nothing without results, and the end
\* of main().
Report ==
    /\ pc = "next" /\ k = NumCombos
    /\ csv' = IF results = << >> THEN csv ELSE results
    /\ exit' = ExitStatus
    /\ pc' = "done"
    /\ UNCHANGED <<k, envCrypto, rtt, injected, snap, results, raw, gateways, shaped,
                   telA, telB, failures>>

RunnerStep ==
    \/ SwitchCrypto \/ Toggle("eth0", "eth1") \/ Toggle("eth1", "probe") \/ ProbeRtt
    \/ ClearA \/ ClearB \/ InjectOne \/ WaitEnds \/ ReadA \/ CollectAndCompute
    \/ ReadSeriesA \/ ReadSeriesB \/ ArchiveA \/ ArchiveB
    \/ NextCombination \/ Report

Next == GatewayStep \/ RunnerStep

Spec == Init /\ [][Next]_vars

\* The runner's commands return and its sleeps end.  Nothing is assumed of the
\* gateways.
FairSpec == Spec /\ WF_vars(RunnerStep)

-----------------------------------------------------------------------------
(* analyze_telemetry.py                                                    *)

\* Mutated form: the lines are not grouped by transaction.
GroupedNot(lines) == lines

\* groupby('transaction_id'), sorted by t_received: injection order.
Grouped(lines) ==
    CHOOSE s \in SetToSeqs(ToSet(lines)) : \A i, j \in DOMAIN s : i < j => s[i] < s[j]

MergedRows(files) == Merge(Grouped(files.a), Grouped(files.b))

\* Mutated form: iloc counts from one.
AnalysedFromOne(files) ==
    LET rows == MergedRows(files) IN
    IF Len(rows) >= Discard + Window THEN SubSeq(rows, Discard, Discard + Window - 1)
    ELSE IF Len(rows) > Window THEN SubSeq(rows, Len(rows) - Window + 1, Len(rows))
    ELSE rows

\* The window of the merged rows, before the rows whose times are not positive
\* are dropped from it.
Analysed(files) ==
    LET rows == MergedRows(files) IN
    IF Len(rows) >= Discard + Window THEN SubSeq(rows, Discard + 1, Discard + Window)
    ELSE IF Len(rows) > Window THEN SubSeq(rows, Len(rows) - Window + 1, Len(rows))
    ELSE rows

-----------------------------------------------------------------------------
(* Properties                                                              *)

Result == [k : Combo, crypto : ToSet(Cryptos), profile : ToSet(Profiles),
           rtt : {"stable", "adverse", "mixed", "0.0"}, counted : Seq(Tx),
           plotted : SUBSET Tx, ranUnder : ToSet(Cryptos) \cup {"unset"}, net : SUBSET Iface]

\* Type invariant; a result is never computed from no rows.
CampaignTypeOK ==
    /\ pc \in {"switch", "eth0", "eth1", "probe", "clearA", "clearB", "inject", "readA",
               "readB", "plotA", "plotB", "copyA", "copyB", "next", "done"}
    /\ k \in Combo
    /\ injected \in 0..EventCount
    /\ phase \in [Tx -> {"none", "missed", "queued", "acked", "failed", "killed"}]
    /\ tries \in [Tx -> 0..MaxLines]
    /\ \A t \in Tx : handlers[t] \in 0..tries[t]
    /\ telA \in Seq(Tx) /\ telB \in Seq(Tx) /\ snap \in Seq(Tx)
    /\ results \in Seq(Result) /\ \A i \in DOMAIN results : results[i].counted # << >>
    /\ failures \in 0..MaxFailures

\* A result carries the label of what was measured: without a failed command
\* the gateways ran the crypto mode, and both interfaces and the measured round
\* trip had the network profile, under which the result is filed.
LabelsTrue ==
    failures = 0 =>
        \A i \in DOMAIN results :
            LET r == results[i] IN
            /\ r.ranUnder = r.crypto
            /\ r.net = IF r.profile = "adverse" THEN Iface ELSE {}
            /\ r.rtt = r.profile

\* No transaction that was injected for one crypto mode is counted for another:
\* the restart at the switch takes the backlog away before the files are cleared.
CryptosNotMixed ==
    failures = 0 =>
        \A i \in DOMAIN results : \A j \in DOMAIN results[i].counted :
            CryptoOf(ComboOf(results[i].counted[j])) = results[i].crypto

\* The runner has finished the combination of result i.
Finished(i) == pc \notin {"plotA", "plotB", "copyA", "copyB"} \/ i < Len(results)

\* The files are read three times while the gateways write: for the metrics, for
\* the plots and for the archive.  What the metrics count, the plots show, and
\* of what the plots show the archive holds both sides.
ArchiveCovers ==
    \A i \in DOMAIN results : Finished(i) =>
        /\ ToSet(results[i].counted) \subseteq results[i].plotted
        /\ results[i].plotted \subseteq ToSet(raw[results[i].k].a)
                                       \cap ToSet(raw[results[i].k].b)

\* However often Gateway B logged a retried transaction, the analysis has one row
\* for it.
AnalysedOnce ==
    \A c \in Combo : LET rows == MergedRows(raw[c]) IN
        \A i, j \in DOMAIN rows : i # j => rows[i] # rows[j]

\* Exit status 0 means that report and archives are complete and of this
\* campaign: every combination has its result, and nothing of an earlier one is
\* left for the analysis to find.
SuccessMeansComplete ==
    exit = "0" =>
        /\ \A c \in Combo : \E i \in DOMAIN csv : csv[i].k = c
        /\ \A c \in Combo : 0 \notin ToSet(raw[c].a) \cup ToSet(raw[c].b)

\* Of a combination whose own transactions, and no others, Gateway A has
\* acknowledged before the archive was made, the analysis cuts out exactly Window
\* events and none of the Discard events of the warm-up, in whatever order and
\* however often Gateway B logged them.  (Rows whose times are not positive are
\* dropped from these afterwards, so the statistics may rest on fewer.)
WarmUpExcluded ==
    \A c \in Combo :
        LET own == {t \in Tx : ComboOf(t) = c}
            rows == Analysed(raw[c])
        IN  EventCount >= Discard + Window /\ ToSet(raw[c].a) = own /\ own \subseteq ToSet(raw[c].b)
              => /\ Len(rows) = Window
                 /\ \A i \in DOMAIN rows : (rows[i] - 1) % EventCount >= Discard

\* The campaign comes to its end whatever becomes of the events.
CampaignEnds == <>(pc = "done")
=============================================================================
