------------------------------ MODULE Analysis ------------------------------
(***************************************************************************)
(* What kdt computes at length and asks a model about: the panel of the    *)
(* assistant (src/ai.rs, `enter_ai_panel`), the diagnostic of the cluster  *)
(* (src/diagnostic.rs), the usage of a node (`fetch_node_usage`), the       *)
(* extraction (src/extract.rs), and the reports made of them.              *)
(*                                                                         *)
(* Each is a state that several tasks of its own may be writing at once:    *)
(* asking again stops nobody.  The assistant and the usage know theirs by  *)
(* a key, the diagnostic and the extraction by a number taken when a task  *)
(* starts.  What reads the cluster may end at any time, and what it finds  *)
(* is left out.                                                            *)
(***************************************************************************)
EXTENDS Naturals, Sequences, FiniteSets, SequencesExt

CONSTANTS
    Hosts,      \* the rows of the nodes view
    Widths,     \* of each check of the diagnostic, the steps it shows at once
    Stages,     \* how many times an extraction tells of its progress
    Chunks,     \* bound: pieces of an answer
    MaxTasks,   \* bound: tasks started
    NoOne

ASSUME AnalysisAssumption ==
    /\ NoOne \notin Hosts /\ Widths \in Seq(Nat \ {0})
    /\ Stages \in Nat \ {0} /\ Chunks \in Nat /\ MaxTasks \in Nat

VARIABLES
    page,       \* [mode, back, host]: the view, return_mode, the node under the cursor
    answer,     \* ai_state
    queries,    \* its tasks
    lost,       \* history: the keys of those that panicked
    usage,      \* node_usage_state
    readings,   \* its tasks: how many are yet to start, and under way, by node
    diag,       \* diagnostic_state
    probes,     \* its tasks, and how many are yet to start
    extract,    \* extract_state
    jobs,       \* its tasks, and how many are yet to start
    questions,  \* history: what each question of the assistant was about
    report      \* history: what the last report with an answer holds

analysisVars == <<page, answer, queries, lost, usage, readings, diag, probes, extract, jobs,
                  questions, report>>

NoKey == 0
BadKey == MaxTasks + 1      \* the key of a question that could not be asked

Started == Len(questions) + diag.run + probes.due + extract.run + jobs.due
             + readings.count

AnalysisInit ==
    /\ page = [mode |-> "events", back |-> "events", host |-> NoOne]
    /\ answer = [key |-> NoKey, loading |-> FALSE, error |-> FALSE, text |-> 0, by |-> NoKey]
    /\ queries = {} /\ lost = {}
    /\ usage = [of |-> NoOne, rows |-> NoOne, loading |-> FALSE]
    /\ readings = [due |-> [h \in Hosts |-> 0], going |-> [h \in Hosts |-> 0], count |-> 0]
    /\ diag = [run |-> 0, running |-> FALSE, finished |-> FALSE, steps |-> << >>]
    /\ probes = [due |-> 0, tasks |-> {}]
    /\ extract = [run |-> 0, running |-> FALSE, finished |-> FALSE, path |-> 0]
    /\ jobs = [due |-> 0, tasks |-> {}]
    /\ questions = << >>
    /\ report = NoOne

-----------------------------------------------------------------------------
(* The views *)

Goes(p) ==
    /\ page' = p
    /\ UNCHANGED <<answer, queries, lost, usage, readings, diag, probes, extract, jobs, questions,
                   report>>

OpenNodes == page.mode = "events" /\ Goes([page EXCEPT !.mode = "nodes"])
LeaveNodes == page.mode = "nodes" /\ Goes([page EXCEPT !.mode = "events"])

(* Another row, by a key or because the list was read again: its loop goes  *)
(* on under the usage of a node and under the assistant.                   *)
SelectedNode(h) ==
    /\ page.mode \in {"nodes", "usage", "ai"} /\ h # page.host
    /\ Goes([page EXCEPT !.host = h])

ReadsUsage(mode) ==
    /\ page.host # NoOne /\ Started < MaxTasks
    /\ page' = [page EXCEPT !.mode = mode]
    /\ readings' = [readings EXCEPT !.due[page.host] = @ + 1, !.count = @ + 1]
    /\ UNCHANGED <<answer, queries, lost, usage, diag, probes, extract, jobs, questions, report>>

EnterNodeUsage == page.mode = "nodes" /\ ReadsUsage("usage")
RefreshNodeUsage == page.mode = "usage" /\ ReadsUsage("usage")
ExitNodeUsage == page.mode = "usage" /\ Goes([page EXCEPT !.mode = "nodes"])

RunsDiagnostic(p) ==
    /\ Started < MaxTasks
    /\ page' = p
    /\ probes' = [probes EXCEPT !.due = @ + 1]
    /\ UNCHANGED <<answer, queries, lost, usage, readings, diag, extract, jobs, questions, report>>

EnterDiagnostic ==
    page.mode = "events" /\ RunsDiagnostic([page EXCEPT !.mode = "diagnostic", !.back = "events"])
RefreshDiagnostic == page.mode = "diagnostic" /\ RunsDiagnostic(page)
ExitDiagnostic == page.mode = "diagnostic" /\ Goes([page EXCEPT !.mode = "events"])

EnterExtract(configured) ==
    /\ page.mode = "events"
    /\ ~extract.running /\ configured => Started < MaxTasks
    /\ page' = [page EXCEPT !.mode = "extract", !.back = "events"]
    /\ jobs' = IF extract.running \/ ~configured THEN jobs ELSE [jobs EXCEPT !.due = @ + 1]
    /\ extract' = IF extract.running \/ configured THEN extract
                  ELSE [extract EXCEPT !.running = FALSE, !.finished = TRUE]
    /\ UNCHANGED <<answer, queries, lost, usage, readings, diag, probes, questions, report>>

ExitExtract ==
    page.mode = "extract" /\ ~extract.running /\ Goes([page EXCEPT !.mode = page.back])

(* What a question is about: under the assistant, what it was opened over. *)
Source == IF page.mode = "ai" THEN page.back ELSE page.mode

(* `i`, and under the assistant the keys that change the model and the      *)
(* language: the former question is not stopped, it only loses its key.    *)
EnterAiPanel(configured) ==
    /\ page.mode \in {"events", "nodes", "usage", "diagnostic", "ai"}
    /\ Source \in {"nodes", "usage"} => page.host # NoOne
    /\ page' = [page EXCEPT !.back = Source, !.mode = "ai"]
    /\ IF configured
       THEN /\ Started < MaxTasks
            /\ questions' = Append(questions, Source)
            /\ answer' = [key |-> Len(questions'), loading |-> TRUE, error |-> FALSE,
                          text |-> 0, by |-> NoKey]
            /\ queries' = queries \cup {[key |-> Len(questions'), at |-> "gather", text |-> 0]}
       ELSE /\ answer' = [key |-> BadKey, loading |-> FALSE, error |-> TRUE,
                          text |-> 0, by |-> NoKey]
            /\ UNCHANGED <<questions, queries>>
    /\ UNCHANGED <<lost, usage, readings, diag, probes, extract, jobs, report>>

ExitAiPanel == page.mode = "ai" /\ Goes([page EXCEPT !.mode = page.back])

Exports(r) ==
    /\ report' = r
    /\ UNCHANGED <<page, answer, queries, lost, usage, readings, diag, probes, extract, jobs, questions>>

(* `p` under the assistant: the steps there are now, and the answer so far. *)
ExportDiagnosticPdf ==
    /\ page.mode = "ai" /\ page.back = "diagnostic" /\ diag.steps # << >>
    /\ Exports([of |-> "diagnostic", runs |-> {s.run : s \in Range(diag.steps)},
                by |-> IF answer.text > 0 THEN answer.by ELSE NoKey])

ExportNodeUsagePdf ==
    /\ page.mode = "ai" /\ page.back = "usage" /\ usage.rows # NoOne
    /\ Exports([of |-> "usage", runs |-> {}, by |-> IF answer.text > 0 THEN answer.by ELSE NoKey])

-----------------------------------------------------------------------------
(* The tasks *)

Answers(a, Q) ==
    /\ answer' = a
    /\ queries' = Q
    /\ UNCHANGED <<page, lost, usage, readings, diag, probes, extract, jobs, questions, report>>

(* The context is gathered, the prompt built and sent, key or no key. *)
Gathered(q) ==
    q.at = "gather" /\ Answers(answer, (queries \ {q}) \cup {[q EXCEPT !.at = "stream"]})

(* A section cut in the middle of a character: the task panics.            *)
GatherPanics(q) ==
    /\ q.at = "gather"
    /\ queries' = queries \ {q}
    /\ lost' = lost \cup {q.key}
    /\ UNCHANGED <<page, answer, usage, readings, diag, probes, extract, jobs, questions, report>>

(* A piece of the answer: the panel shows all there is of it, or the task   *)
(* learns that its key is no longer there and leaves.                      *)
Streamed(q) ==
    /\ q.at = "stream" /\ q.text < Chunks
    /\ IF answer.key = q.key
       THEN Answers([answer EXCEPT !.text = q.text + 1, !.by = q.key, !.error = FALSE],
                    (queries \ {q}) \cup {[q EXCEPT !.text = @ + 1]})
       ELSE Answers(answer, queries \ {q})

StreamEnds(q) ==
    /\ q.at = "stream"
    /\ Answers(IF answer.key = q.key
               THEN [answer EXCEPT !.loading = FALSE, !.error = FALSE, !.text = q.text, !.by = q.key]
               ELSE answer, queries \ {q})

StreamFails(q) ==
    /\ q.at = "stream"
    /\ Answers(IF answer.key = q.key THEN [answer EXCEPT !.loading = FALSE, !.error = TRUE]
               ELSE answer, queries \ {q})

(* The name of the node is written when the task starts, whoever else has   *)
(* started since it was asked for.                                         *)
ReadingStarts(h) ==
    /\ readings.due[h] > 0
    /\ readings' = [readings EXCEPT !.due[h] = @ - 1, !.going[h] = @ + 1]
    /\ usage' = [of |-> h, rows |-> NoOne, loading |-> TRUE]
    /\ UNCHANGED <<page, answer, queries, lost, diag, probes, extract, jobs, questions, report>>

ReadingEnds(h, found) ==
    /\ readings.going[h] > 0
    /\ readings' = [readings EXCEPT !.going[h] = @ - 1]
    /\ usage' = IF usage.of # h THEN usage
                ELSE [usage EXCEPT !.loading = FALSE, !.rows = IF found THEN h ELSE @]
    /\ UNCHANGED <<page, answer, queries, lost, diag, probes, extract, jobs, questions, report>>

Probes(d, p) ==
    /\ diag' = d
    /\ probes' = p
    /\ UNCHANGED <<page, answer, queries, lost, usage, readings, extract, jobs, questions, report>>

StepsOf == [i \in 1..Len(Widths) + 1 |-> IF i <= Len(Widths) THEN Widths[i] ELSE 0]

ProbeStarts ==
    /\ probes.due > 0
    /\ LET run == diag.run + 1
       IN  Probes([run |-> run, running |-> TRUE, finished |-> FALSE, steps |-> << >>],
                  [due   |-> probes.due - 1,
                   tasks |-> probes.tasks
                               \cup {[run |-> run, check |-> 1, left |-> StepsOf[1], shown |-> << >>]}])

GoesOn(t, next) == [probes EXCEPT !.tasks = (@ \ {t}) \cup {next}]

(* A check shows its steps, at the end of those there are.  A task that was *)
(* superseded does nothing from here on: its number will not come back.    *)
PushStep(t) ==
    /\ t.left > 0
    /\ IF diag.run = t.run
       THEN Probes([diag EXCEPT !.steps = Append(@, [run |-> t.run, check |-> t.check, by |-> 0])],
                   GoesOn(t, [t EXCEPT !.left = @ - 1, !.shown = Append(@, Len(diag.steps) + 1)]))
       ELSE Probes(diag, [probes EXCEPT !.tasks = @ \ {t}])

(* One of them told, at the place it was put; then the next check.          *)
Told(t) ==
    IF Len(t.shown) > 1 THEN [t EXCEPT !.shown = Tail(@)]
    ELSE [t EXCEPT !.shown = << >>, !.check = @ + 1, !.left = StepsOf[t.check + 1]]

(* Mutant of FinishStep: a superseded task still tells of its step. *)
FinishStepAnyway(t) ==
    /\ t.left = 0 /\ t.shown # << >>
    /\ Probes(IF Head(t.shown) \in DOMAIN diag.steps
              THEN [diag EXCEPT !.steps[Head(t.shown)].by = t.run] ELSE diag,
              GoesOn(t, Told(t)))

FinishStep(t) ==
    /\ t.left = 0 /\ t.shown # << >>
    /\ Probes(IF diag.run = t.run THEN [diag EXCEPT !.steps[Head(t.shown)].by = t.run] ELSE diag,
              GoesOn(t, Told(t)))

ProbeEnds(t) ==
    /\ t.check > Len(Widths)
    /\ Probes(IF diag.run = t.run THEN [diag EXCEPT !.running = FALSE, !.finished = TRUE] ELSE diag,
              [probes EXCEPT !.tasks = @ \ {t}])

Extracts(e, j) ==
    /\ extract' = e
    /\ jobs' = j
    /\ UNCHANGED <<page, answer, queries, lost, usage, readings, diag, probes, questions, report>>

JobStarts ==
    /\ jobs.due > 0
    /\ LET run == extract.run + 1
       IN  Extracts([run |-> run, running |-> TRUE, finished |-> FALSE, path |-> 0],
                    [due   |-> jobs.due - 1,
                     tasks |-> jobs.tasks \cup {[run |-> run, stage |-> 0]}])

(* The nodes, the diagnostic, each question: told of before it is started,  *)
(* and the moment to learn that another extraction has taken over.         *)
JobTells(j) ==
    /\ j.stage < Stages
    /\ Extracts(extract,
                [jobs EXCEPT !.tasks = (@ \ {j}) \cup
                    (IF extract.run = j.run THEN {[j EXCEPT !.stage = @ + 1]} ELSE {})])

(* The file is written, whoever shows it. *)
JobEnds(j, written) ==
    /\ j.stage = Stages
    /\ Extracts(IF extract.run # j.run THEN extract
                ELSE [extract EXCEPT !.running = FALSE, !.finished = TRUE,
                                     !.path = IF written THEN j.run ELSE @],
                [jobs EXCEPT !.tasks = @ \ {j}])

AnalysisNext ==
    \/ OpenNodes \/ LeaveNodes \/ EnterNodeUsage \/ RefreshNodeUsage \/ ExitNodeUsage
    \/ \E h \in Hosts : SelectedNode(h) \/ ReadingStarts(h)
    \/ \E h \in Hosts, found \in BOOLEAN : ReadingEnds(h, found)
    \/ EnterDiagnostic \/ RefreshDiagnostic \/ ExitDiagnostic
    \/ \E configured \in BOOLEAN :
          EnterExtract(configured) \/ EnterAiPanel(configured)
    \/ ExitExtract \/ ExitAiPanel \/ ExportDiagnosticPdf \/ ExportNodeUsagePdf
    \/ \E q \in queries :
          Gathered(q) \/ GatherPanics(q) \/ Streamed(q) \/ StreamEnds(q) \/ StreamFails(q)
    \/ ProbeStarts
    \/ \E t \in probes.tasks : PushStep(t) \/ FinishStep(t) \/ ProbeEnds(t)
    \/ JobStarts
    \/ \E j \in jobs.tasks : JobTells(j) \/ \E written \in BOOLEAN : JobEnds(j, written)

AnalysisSpec == AnalysisInit /\ [][AnalysisNext]_analysisVars

-----------------------------------------------------------------------------
(* The assistant shows the answer to the question asked last, and says it   *)
(* is loading only while that question is under way or its task has        *)
(* panicked (`query_ai`).                                                  *)
AnswerIsTheLastAsked ==
    /\ answer.text > 0 => answer.by = answer.key
    /\ answer.loading => \/ answer.key \in lost
                         \/ \E q \in queries : q.key = answer.key

(* The usage shown under the name of a node is of that node, and somebody   *)
(* is reading it while it says so (`fetch_node_usage`).                    *)
UsageIsOfTheNode ==
    /\ usage.rows \in {NoOne, usage.of}
    /\ usage.loading => readings.going[usage.of] > 0

(* The diagnostic on screen is one run's: its checks in their order, none   *)
(* twice, none told of by another run, all told of when it says it is      *)
(* finished, and a task under way when it says it runs (`run_diagnostic`). *)
OneDiagnostic ==
    /\ \A i \in DOMAIN diag.steps :
          diag.steps[i].run = diag.run /\ diag.steps[i].by \in {0, diag.run}
    /\ \A i, j \in DOMAIN diag.steps : i < j => diag.steps[i].check <= diag.steps[j].check
    /\ diag.running => \E t \in probes.tasks : t.run = diag.run
    /\ diag.finished => \A c \in DOMAIN Widths :
          Cardinality({i \in DOMAIN diag.steps :
                         diag.steps[i].check = c /\ diag.steps[i].by = diag.run}) = Widths[c]

(* The file named is the one of the extraction shown, and one runs while    *)
(* there is no way out of its view (`run_full_extract`, `exit_extract`).   *)
OneExtraction ==
    /\ extract.path \in {0, extract.run}
    /\ extract.running => \E j \in jobs.tasks : j.run = extract.run

(* A report holds no answer to a question about something else             *)
(* (`export_diagnostic_pdf`, `export_node_usage_pdf`).                     *)
ReportsMatch ==
    report # NoOne => /\ report.by # NoKey => questions[report.by] = report.of
                      /\ Cardinality(report.runs) <= 1

(* What asking again leaves behind never shows as what was asked last. *)
AnswersAreOwn ==
    AnswerIsTheLastAsked /\ UsageIsOfTheNode /\ OneDiagnostic /\ OneExtraction /\ ReportsMatch
=============================================================================
