----------------------------- MODULE LLMRouting -----------------------------
(***************************************************************************)
(* The LLM router and its command executors (llm.py): a call goes down a   *)
(* chain of backends, each tried up to MaxTries times, all of them writing *)
(* into the run directory of the call.  A call is a record; what a backend *)
(* does with one try is an input.                                          *)
(***************************************************************************)
EXTENDS Naturals, Sequences, SequencesExt

CONSTANTS
  Backends,     \* the configured executors, in the router's order of preference
  FileContract, \* those that write the response file themselves
  MaxTries      \* tries of one backend in one call: 3 in the code

ASSUME RoutingAssumption ==
  /\ Backends \in Seq(STRING) /\ IsInjective(Backends) /\ Backends # <<>>
  /\ FileContract \subseteq ToSet(Backends)
  /\ MaxTries \in Nat \ {0}

\* What a response file can hold: nothing, a backend's answer, what a failing
\* backend printed, or its error report (a JSON result with is_error), of which
\* some say that trying again may help.
Text(kind, by) == [kind |-> kind, by |-> by]
NoText == Text("none", "")
Texts == {NoText} \cup
  [kind : {"answer", "noise", "report", "transient"}, by : ToSet(Backends)]

IsReport(text) == text.kind \in {"report", "transient"}

\* What one try of a backend can come to: an answer, nothing at all, a nonzero exit
\* code after printing something, an error report, or a timeout.
Outcomes == {"answer", "silent", "noise", "report", "transient", "timeout"}

\* resolve_chain: the demoted backends go last.
ResolveChain(demoted) ==
  SelectSeq(Backends, LAMBDA b : b \notin demoted) \o
  SelectSeq(Backends, LAMBDA b : b \in demoted)

NoCall == [chain |-> <<>>, try |-> 0, file |-> NoText]
NewCall(demoted) == [chain |-> ResolveChain(demoted), try |-> 1, file |-> NoText]

\* What the executor reads after a try: the response file if there is anything in
\* it, else what the command printed, which then becomes the response file.
Stdout(b, outcome) ==
  IF outcome \in {"silent", "timeout"} THEN NoText ELSE Text(outcome, b)

Response(call, b, outcome) ==
  LET own == Stdout(b, outcome)
  IN  IF b \in FileContract /\ outcome = "answer" THEN own
      ELSE IF call.file # NoText THEN call.file
      ELSE own

\* A mutant: only what the command printed is looked at for an error report.
StdoutVerdict(call, b, outcome) ==
  LET text == Response(call, b, outcome)
  IN  IF outcome = "timeout" THEN "failed"
      ELSE IF outcome \in {"report", "transient"} THEN outcome
      ELSE IF outcome = "noise" \/ text = NoText THEN "failed"
      ELSE "accepted"

\* CommandLLMExecutor.execute: accepted, or the kind of error it raises.
Verdict(call, b, outcome) ==
  LET text == Response(call, b, outcome)
  IN  IF outcome = "timeout" THEN "failed"
      ELSE IF IsReport(text) THEN text.kind
      ELSE IF outcome \in {"report", "transient"} THEN outcome
      ELSE IF outcome = "noise" \/ text = NoText THEN "failed"
      ELSE "accepted"

\* The call after a try that was not accepted: again, the next backend, or no more.
AfterFailure(call, b, outcome) ==
  LET file == IF outcome = "timeout" THEN call.file ELSE Response(call, b, outcome)
  IN  IF Verdict(call, b, outcome) = "transient" /\ call.try < MaxTries
      THEN [call EXCEPT !.try = @ + 1, !.file = file]
      ELSE [chain |-> Tail(call.chain), try |-> 1, file |-> file]

\* Which backends the next call prefers.
Demoted(demoted, b, verdict) ==
  CASE verdict = "accepted"  -> demoted \ {b}
    [] verdict = "transient" -> demoted
    [] OTHER                 -> demoted \cup {b}
=============================================================================
