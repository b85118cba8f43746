-------------------------- MODULE UpstreamStream --------------------------
(***************************************************************************)
(* One attempt of proxy.attempt on one backend, from dispatch to the       *)
(* verdict runAttempt gives the breaker, with everything that can end it   *)
(* or hold it: the upstream answering, finishing, breaking off or falling  *)
(* silent; the client hanging up, or no longer reading; RequestTimeout and *)
(* the idle timer.                                                         *)
(*                                                                         *)
(* The three contexts of the code are three facts here.  The client's is   *)
(* "inbound"; RequestTimeout ends only the derived one, with               *)
(* DeadlineExceeded; the idle timer calls cancelAttempt, which ends the    *)
(* derived one with Canceled, the error a hang-up gives as well.  Both end  *)
(* a round trip and a read of the upstream's body; neither ends a Write to *)
(* the client, for which no server sets a timeout.                         *)
(*                                                                         *)
(* httputil.ReverseProxy is external: a failed round trip goes to          *)
(* ErrorHandler and ServeHTTP returns; once the headers are out, an error  *)
(* of the copy, from either side, panics with ErrAbortHandler, since the   *)
(* request comes from an http.Server.                                      *)
(***************************************************************************)
EXTENDS Integers

CONSTANTS
  MaxChunks,   \* bound: body chunks an upstream sends
  NoVerdict    \* nothing recorded yet

ASSUME VerdictAssumption == NoVerdict \notin {"Success", "Failure", "Ignored"}

VARIABLES
  bounded,     \* RequestTimeout > 0
  upstream,    \* "silent", "answered", "ended" or "broke"
  status,      \* the answer's status: "none", "ok", "full" or "error"
  chunks,      \* body chunks sent and not yet read
  sent,        \* body chunks sent
  marker,      \* the stream's terminal marker has been sent
  hungUp,      \* the inbound context is cancelled
  expired,     \* RequestTimeout has passed
  idled,       \* the idle timer has fired
  stalled,     \* the client's connection takes no bytes: a Write to it blocks
  step,        \* "dial", "copy", "write", "returned", "panicked" or "over"
  scan,        \* scanBody: first byte seen, sawEnd, aborted, and the label counted
  load,        \* what the lease charges: "prefill", "decode" or "none"
  failed,      \* upstreamErr is set
  verdict      \* what the breaker was told

world ==
  << upstream, status, chunks, sent, marker, hungUp, expired, idled, stalled >>
streamVars == << bounded, world, step, scan, load, failed, verdict >>

NewScan == [first |-> FALSE, sawEnd |-> FALSE, aborted |-> FALSE, label |-> "none"]

StreamInit ==
  /\ bounded \in BOOLEAN
  /\ upstream = "silent" /\ status = "none" /\ chunks = 0 /\ sent = 0 /\ marker = FALSE
  /\ hungUp = FALSE /\ expired = FALSE /\ idled = FALSE /\ stalled = FALSE
  /\ step = "dial" /\ scan = NewScan /\ load = "prefill" /\ failed = FALSE
  /\ verdict = NoVerdict

Running == step \in {"dial", "copy", "write"}

----------------------------------------------------------------------------
\* The upstream: headers before any token, chunks, an end or a break at any time.
UpstreamAnswers(s) ==
  /\ Running /\ upstream = "silent" /\ status = "none"
  /\ upstream' = "answered" /\ status' = s
  /\ UNCHANGED << bounded, chunks, sent, marker, hungUp, expired, idled, stalled, step,
                  scan, load, failed, verdict >>

UpstreamSends(last) ==
  /\ Running /\ upstream = "answered" /\ sent < MaxChunks /\ ~marker
  /\ sent' = sent + 1 /\ chunks' = chunks + 1 /\ marker' = last
  /\ UNCHANGED << bounded, upstream, status, hungUp, expired, idled, stalled, step,
                  scan, load, failed, verdict >>

UpstreamStops(how) ==
  /\ Running /\ upstream \in {"silent", "answered"}
  /\ how = "ended" => upstream = "answered" /\ marker
  /\ upstream' = how
  /\ UNCHANGED << bounded, status, chunks, sent, marker, hungUp, expired, idled,
                  stalled, step, scan, load, failed, verdict >>

ClientLeaves ==
  /\ Running /\ ~hungUp
  /\ hungUp' = TRUE
  /\ UNCHANGED << bounded, upstream, status, chunks, sent, marker, expired, idled,
                  stalled, step, scan, load, failed, verdict >>

\* The client stops reading and its window fills, with its connection open.
ClientStalls ==
  /\ Running /\ ~stalled
  /\ stalled' = TRUE
  /\ UNCHANGED << bounded, upstream, status, chunks, sent, marker, hungUp, expired,
                  idled, step, scan, load, failed, verdict >>

\* It reads on, or its connection is torn down: a Write returns again.
ClientResumes ==
  /\ Running /\ stalled
  /\ stalled' = FALSE
  /\ UNCHANGED << bounded, upstream, status, chunks, sent, marker, hungUp, expired,
                  idled, step, scan, load, failed, verdict >>

\* Mutant: RequestTimeout is configured and never read.
Limited_Never == FALSE

\* The derived context has a deadline.
Limited == bounded

DeadlinePasses ==
  /\ Running /\ Limited /\ ~expired
  /\ expired' = TRUE
  /\ UNCHANGED << bounded, upstream, status, chunks, sent, marker, hungUp, idled,
                  stalled, step, scan, load, failed, verdict >>

\* The idle timer, armed when the headers are relayed and pushed back by every
\* read and by nothing else: it fires in a long wait for the upstream, and as well
\* while the copy is held in a Write, whatever there is to read.
IdleFires ==
  /\ step \in {"copy", "write"} /\ ~idled
  /\ idled' = TRUE
  /\ UNCHANGED << bounded, upstream, status, chunks, sent, marker, hungUp, expired,
                  stalled, step, scan, load, failed, verdict >>

\* The attempt's own context is done.
ContextDone == hungUp \/ expired \/ idled

----------------------------------------------------------------------------
\* No response: ErrorHandler keeps the error, and ServeHTTP returns.
RoundTripFails ==
  /\ step = "dial" /\ (ContextDone \/ (upstream = "broke" /\ status = "none"))
  /\ failed' = TRUE
  /\ step' = "returned"
  /\ UNCHANGED << bounded, world, scan, load, verdict >>

\* ModifyResponse relays the response: canRetry is false, or nobody else is left.
Relayed ==
  /\ step = "dial" /\ status # "none"
  /\ step' = "copy"
  /\ UNCHANGED << bounded, world, scan, load, failed, verdict >>

\* scanBody.Read with a chunk, which the copy goes on to write.  The first byte of
\* a 2xx ends the prefill phase and begins the decode one.
ReadChunk ==
  /\ step = "copy" /\ chunks > 0
  /\ step' = "write"
  /\ chunks' = chunks - 1
  /\ scan' = [scan EXCEPT !.first = TRUE, !.sawEnd = marker /\ chunks = 1]
  /\ load' = IF ~scan.first /\ status = "ok" THEN "decode" ELSE load
  /\ UNCHANGED << bounded, upstream, status, sent, marker, hungUp, expired, idled,
                  stalled, failed, verdict >>

\* scanBody.Read at the end of the body, and so the end of the copy.
ReadEOF ==
  /\ step = "copy" /\ upstream = "ended" /\ chunks = 0
  /\ step' = "returned"
  /\ UNCHANGED << bounded, world, scan, load, failed, verdict >>

\* The label of an aborted stream: Canceled, whoever cancelled, is the client.
NamedCause(cause) == IF cause = "canceled" THEN "client_disconnect" ELSE "upstream_error"

\* scanBody.Read fails with cause, and the copy with it.
ReadFails(cause) ==
  /\ step = "copy"
  /\ \/ cause = "canceled" /\ (hungUp \/ idled)
     \/ cause = "deadline" /\ expired
     \/ cause = "eof" /\ upstream = "broke" /\ chunks = 0
  /\ scan' = IF scan.sawEnd THEN scan
             ELSE [scan EXCEPT !.label = NamedCause(cause),
                               !.aborted = NamedCause(cause) = "upstream_error"]
  /\ step' = "panicked"
  /\ UNCHANGED << bounded, world, load, failed, verdict >>

\* attemptWriter.Write returns: the connection takes the bytes of the chunk, or, when
\* the client has left, refuses them, and then no read fails.
Write ==
  /\ step = "write" /\ ~stalled
  /\ \/ step' = "copy"
     \/ hungUp /\ step' = "panicked"
  /\ UNCHANGED << bounded, world, scan, load, failed, verdict >>

----------------------------------------------------------------------------
\* upstreamErr once ServeHTTP has returned.
Err == failed \/ scan.aborted

\* Mutant: the caller's own context is not consulted.
ClientGone_Unasked == FALSE

\* attemptOut.clientGone: the round trip failed and the caller had left.
ClientGone == Err /\ hungUp

Classify ==
  IF Err \/ status = "error" THEN "Failure"
  ELSE IF status = "full" THEN "Ignored"
  ELSE "Success"

\* runAttempt records the outcome of an attempt that returned.
RecordReturned ==
  /\ step = "returned"
  /\ verdict' = IF ClientGone THEN "Ignored" ELSE Classify
  /\ step' = "over" /\ load' = "none"
  /\ UNCHANGED << bounded, world, scan, failed >>

\* runAttempt's recover: ErrAbortHandler is no verdict on the backend.
RecordPanicked ==
  /\ step = "panicked"
  /\ verdict' = "Ignored"
  /\ step' = "over" /\ load' = "none"
  /\ UNCHANGED << bounded, world, scan, failed >>

RouterStep ==
  \/ RoundTripFails \/ Relayed \/ ReadChunk \/ ReadEOF \/ Write
  \/ (\E c \in {"canceled", "deadline", "eof"} : ReadFails(c))
  \/ RecordReturned \/ RecordPanicked

StreamNext ==
  \/ \E s \in {"ok", "full", "error"} : UpstreamAnswers(s)
  \/ \E last \in BOOLEAN : UpstreamSends(last)
  \/ \E how \in {"ended", "broke"} : UpstreamStops(how)
  \/ ClientLeaves \/ ClientStalls \/ ClientResumes \/ DeadlinePasses \/ IdleFires
  \/ RouterStep

\* No read returns: the copy waits for the upstream, or is held in a Write.
Unread == step = "write" \/ chunks = 0

\* The router's goroutine runs and its timers fire, the idle one where no read
\* pushes it back.  A Write returns if its connection takes bytes again and again;
\* that it ever does is not assumed.
StreamFairness ==
  /\ WF_streamVars(RouterStep)
  /\ SF_streamVars(Write)
  /\ WF_streamVars(DeadlinePasses)
  /\ WF_streamVars(Unread /\ IdleFires)

StreamSpec == StreamInit /\ [][StreamNext]_streamVars /\ StreamFairness

----------------------------------------------------------------------------
\* A caller that gives up, at any moment and in any race with the answer, is never
\* charged to the backend (proxy.go:386-390, 669-676): every failure the breaker
\* hears of has a cause of the upstream's own, or ran into RequestTimeout.
BlamelessBackend ==
  verdict = "Failure" => upstream = "broke" \/ status = "error" \/ expired

\* An upstream that falls silent does not hold its lease for ever
\* (proxy.go:477-492, 638-644): with RequestTimeout every attempt ends, and without
\* it every attempt whose headers have come, as long as the client does not stop
\* reading for ever.  Of the client no more is asked: one that does keeps the
\* attempt, and its lease, in a Write that no timer ends.
AttemptEnds ==
  []<>~stalled =>
    ((bounded /\ step = "dial") \/ step \in {"copy", "write"} ~> step = "over")

\* Stated by proxy.go:16 and 659-662: an upstream that truncates its stream gives
\* {200, err set}, a failure, so that a backend which does so every time is ejected.
TruncationIsFailure ==
  verdict # NoVerdict /\ upstream = "broke" /\ status = "ok" /\ ~ContextDone /\ ~scan.sawEnd
    => verdict = "Failure"
============================================================================
