-------------------------------- MODULE Watch --------------------------------
(***************************************************************************)
(* `umber watch`: the main thread of watch.rs, the monitor thread of each  *)
(* compilation, the Ctrl-C dispatcher of umber-interrupt, and the part of  *)
(* NativeCompileSession the loop drives.  A text is the number of the save *)
(* that produced it.  Every thread sleeps between its polls, so a poll is  *)
(* one step and the time between polls is arbitrary.                       *)
(***************************************************************************)
EXTENDS Naturals

CONSTANTS
    MaxEdits,    \* bound: how often the editor saves or removes the input
    MaxBatches,  \* bound: resource batches in one compilation
    MaxSignals,  \* bound: Ctrl-C presses
    Missing,     \* the input cannot be read
    NoText

ASSUME WatchAssumption ==
    /\ MaxEdits \in Nat /\ MaxBatches \in Nat /\ MaxSignals \in Nat
    /\ Missing \notin Nat /\ NoText \notin Nat /\ Missing # NoText

Text == 0..MaxEdits

VARIABLES
    file, edits,       \* the input file
    signals,           \* Ctrl-C presses so far
    interrupt,         \* umber-interrupt: the statics and the dispatcher thread
    interrupted,       \* the flag of the installed closure
    token,             \* the newest FetchCancellation; live: `active` holds it
    main,              \* the main thread: where it is, and its locals
    native,            \* the NativeCompileSession
    monitor,           \* the monitor thread of the current compilation
    dvi                \* the text the written output was compiled from

env == <<file, edits, signals>>
watchVars == <<env, interrupt, interrupted, token, main, native, monitor, dvi>>

NoSession == [source |-> NoText, pendingSource |-> NoText, accepted |-> NoText, revision |-> 0,
              pending |-> NoText, candidate |-> FALSE]

WatchInit ==
    /\ file = 0 /\ edits = 0 /\ signals = 0
    /\ interrupt = [state |-> "IDLE", registered |-> FALSE, signal |-> FALSE, thread |-> "none"]
    /\ interrupted = FALSE
    /\ token = [live |-> FALSE, cancelled |-> FALSE]
    /\ main = [at |-> "claim", exit |-> "running", candidateSource |-> NoText, nextRevision |-> 1,
               next |-> NoText, result |-> "none", waits |-> 0]
    /\ native = NoSession
    /\ monitor = [at |-> "none", finished |-> FALSE, found |-> NoText]
    /\ dvi = NoText

Running == main.exit = "running"
At(where) == Running /\ main.at = where

GoTo(where) == main' = [main EXCEPT !.at = where]
Exit(how) == main' = [main EXCEPT !.exit = how]

SetActive == token' = [live |-> TRUE, cancelled |-> FALSE]
ClearActive == token' = [token EXCEPT !.live = FALSE]

-----------------------------------------------------------------------------
(* set_handler: claim the one installation, start the dispatcher, register *)
(* with the operating system, publish the outcome.                         *)
Claim ==
    /\ At("claim")
    /\ \/ /\ interrupt' = [interrupt EXCEPT !.state = "INSTALLING", !.thread = "spin"]
          /\ GoTo("register")
       \/ /\ interrupt' = [interrupt EXCEPT !.state = "FAILED"]
          /\ Exit("Handler")
    /\ UNCHANGED <<env, interrupted, token, native, monitor, dvi>>

Register ==
    /\ At("register")
    /\ \/ /\ interrupt' = [interrupt EXCEPT !.registered = TRUE]
          /\ GoTo("activate")
       \/ /\ interrupt' = [interrupt EXCEPT !.state = "FAILED"]
          /\ Exit("Handler")
    /\ UNCHANGED <<env, interrupted, token, native, monitor, dvi>>

Activate ==
    /\ At("activate")
    /\ interrupt' = [interrupt EXCEPT !.state = "ACTIVE"]
    /\ GoTo("read")
    /\ UNCHANGED <<env, interrupted, token, native, monitor, dvi>>

(* The signal handler: it only publishes to an atomic. *)
Signal ==
    /\ Running
    /\ interrupt.registered
    /\ signals < MaxSignals
    /\ signals' = signals + 1
    /\ interrupt' = [interrupt EXCEPT !.signal = TRUE]
    /\ UNCHANGED <<file, edits, interrupted, token, main, native, monitor, dvi>>

(* The dispatcher: yield while INSTALLING, then poll while ACTIVE. *)
Dispatch_BugPollsOnce ==
    /\ Running
    /\ \/ /\ interrupt.thread = "spin"
          /\ interrupt.state # "INSTALLING"
          /\ interrupt' = [interrupt EXCEPT !.thread = "poll"]
       \/ /\ interrupt.thread = "poll"
          /\ interrupt.state = "ACTIVE"
          /\ interrupt' = [interrupt EXCEPT !.signal = FALSE,
                                            !.thread = IF interrupt.signal THEN "handler" ELSE "none"]
    /\ UNCHANGED <<env, interrupted, token, main, native, monitor, dvi>>

Dispatch ==
    /\ Running
    /\ \/ /\ interrupt.thread = "spin"
          /\ interrupt.state # "INSTALLING"
          /\ interrupt' = [interrupt EXCEPT !.thread = "poll"]
       \/ /\ interrupt.thread = "poll"
          /\ interrupt.state = "ACTIVE"
          /\ interrupt.signal
          /\ interrupt' = [interrupt EXCEPT !.signal = FALSE, !.thread = "handler"]
    /\ UNCHANGED <<env, interrupted, token, main, native, monitor, dvi>>

(* The installed closure: raise the flag, then cancel what is active. *)
Handler ==
    /\ Running
    /\ \/ /\ interrupt.thread = "handler"
          /\ interrupted' = TRUE
          /\ interrupt' = [interrupt EXCEPT !.thread = "cancel"]
          /\ UNCHANGED token
       \/ /\ interrupt.thread = "cancel"
          /\ token' = [token EXCEPT !.cancelled = token.live \/ token.cancelled]
          /\ interrupt' = [interrupt EXCEPT !.thread = "poll"]
          /\ UNCHANGED interrupted
    /\ UNCHANGED <<env, main, native, monitor, dvi>>

-----------------------------------------------------------------------------
(* The startup of `run`, and the session it creates. *)
ReadInput ==
    /\ At("read")
    /\ \/ /\ file = Missing
          /\ Exit("Io")
          /\ UNCHANGED token
       \/ /\ file # Missing
          /\ main' = [main EXCEPT !.candidateSource = file, !.at = "create"]
          /\ SetActive
    /\ UNCHANGED <<env, interrupt, interrupted, native, monitor, dvi>>

(* NativeCompileSession::new reads the input again. *)
CreateSession ==
    /\ At("create")
    /\ \/ /\ file = Missing
          /\ Exit("Error")
          /\ UNCHANGED native
       \/ /\ file # Missing
          /\ native' = [NoSession EXCEPT !.source = file]
          /\ GoTo("format")
    /\ UNCHANGED <<env, interrupt, interrupted, token, monitor, dvi>>

(* The rest of `new` may fetch a format; then `active` is cleared.  At     *)
(* startup the flag is tested; after a supersession the monitor's text     *)
(* becomes the candidate source.                                           *)
SessionReady_BugRereads ==
    /\ At("format")
    /\ \/ Exit("Error") /\ UNCHANGED token
       \/ /\ file # Missing
          /\ ClearActive
          /\ main' = [main EXCEPT !.candidateSource = file, !.at = "round"]
    /\ UNCHANGED <<env, interrupt, interrupted, native, monitor, dvi>>

SessionReady ==
    /\ At("format")
    /\ \/ /\ token.cancelled
          /\ Exit("Cancelled")
          /\ UNCHANGED token
       \/ Exit("Error") /\ UNCHANGED token
       \/ /\ ClearActive
          /\ \/ /\ main.next = NoText /\ interrupted
                /\ Exit("Ok")
             \/ /\ main.next = NoText /\ ~interrupted
                /\ GoTo("round")
             \/ /\ main.next # NoText
                /\ main' = [main EXCEPT !.candidateSource = main.next, !.at = "round"]
    /\ UNCHANGED <<env, interrupt, interrupted, native, monitor, dvi>>

-----------------------------------------------------------------------------
(* NativeCompileSession::compile, one step between two of its checks of    *)
(* the cancellation token.                                                 *)
Discarded == [native EXCEPT !.candidate = FALSE]

(* A failed attempt drops the candidate, and with an accepted revision the *)
(* pending patch too.                                                      *)
FailedAttempt ==
    [native EXCEPT !.candidate = FALSE,
                   !.pending = IF native.accepted # NoText THEN NoText ELSE native.pending]

(* compile returns `result`, and `finished` is raised. *)
Return(result) ==
    /\ main' = [main EXCEPT !.result = result, !.at = "join"]
    /\ monitor' = [monitor EXCEPT !.finished = TRUE]

StartRound ==
    /\ At("round")
    /\ SetActive
    /\ monitor' = [at |-> "sleep", finished |-> FALSE, found |-> NoText]
    /\ main' = [main EXCEPT !.at = "loop", !.waits = 0, !.result = "none"]
    /\ UNCHANGED <<env, interrupt, interrupted, native, dvi>>

LoopTop ==
    /\ At("loop")
    /\ \/ /\ token.cancelled
          /\ native' = Discarded
          /\ Return("Cancelled")
       \/ /\ ~token.cancelled
          /\ GoTo("attempt")
          /\ UNCHANGED <<native, monitor>>
    /\ UNCHANGED <<env, interrupt, interrupted, token, dvi>>

CompiledText == IF native.pending # NoText THEN native.pending ELSE native.source

(* `pending_source.take()` and the acceptance of the revision. *)
Accepted_BugSourceKept ==
    [native EXCEPT !.accepted = CompiledText,
                   !.revision = IF native.pending # NoText THEN main.nextRevision ELSE 1,
                   !.pending = NoText, !.pendingSource = NoText, !.candidate = FALSE]

Accepted ==
    [native EXCEPT !.accepted = CompiledText,
                   !.source = IF native.pendingSource # NoText THEN native.pendingSource ELSE @,
                   !.revision = IF native.pending # NoText THEN main.nextRevision ELSE 1,
                   !.pending = NoText, !.pendingSource = NoText, !.candidate = FALSE]

(* publish_lookup_manifest fails after the engine accepted the revision. *)
AcceptedUnpublished == [Accepted EXCEPT !.source = native.source,
                                        !.pendingSource = native.pendingSource]

CompileAttempt ==
    /\ At("attempt")
    /\ \/ native' = Accepted /\ Return("Complete")
       \/ native' = AcceptedUnpublished /\ Return("Error")
       \/ native' = FailedAttempt /\ Return("Error")
       \/ token.cancelled /\ native' = FailedAttempt /\ Return("Cancelled")
       \/ /\ main.waits < MaxBatches
          /\ native' = [native EXCEPT !.candidate = TRUE]
          /\ main' = [main EXCEPT !.at = "resolve", !.waits = @ + 1]
          /\ UNCHANGED monitor
    /\ UNCHANGED <<env, interrupt, interrupted, token, dvi>>

Resolve ==
    /\ At("resolve")
    /\ \/ token.cancelled /\ native' = Discarded /\ Return("Cancelled")
       \/ native' = Discarded /\ Return("Error")
       \/ ~token.cancelled /\ GoTo("drain") /\ UNCHANGED <<native, monitor>>
    /\ UNCHANGED <<env, interrupt, interrupted, token, dvi>>

(* drain_prefetch_closure: its errors leave through `?`. *)
DrainPrefetch ==
    /\ At("drain")
    /\ \/ token.cancelled /\ Return("Cancelled")
       \/ Return("Error")
       \/ ~token.cancelled /\ GoTo("loop") /\ UNCHANGED monitor
    /\ UNCHANGED <<env, interrupt, interrupted, token, native, dvi>>

-----------------------------------------------------------------------------
(* The monitor thread of compile_monitored. *)
Poll ==
    /\ Running
    /\ monitor.at = "sleep"
    /\ \/ monitor.finished /\ monitor' = [monitor EXCEPT !.at = "done"] /\ UNCHANGED token
       \/ /\ ~monitor.finished /\ interrupted
          /\ token' = [token EXCEPT !.cancelled = TRUE]
          /\ UNCHANGED monitor
       \/ /\ ~monitor.finished /\ ~interrupted
          /\ monitor' = [monitor EXCEPT !.at = "read"]
          /\ UNCHANGED token
    /\ UNCHANGED <<env, interrupt, interrupted, main, native, dvi>>

PollRead ==
    /\ Running
    /\ monitor.at = "read"
    /\ \/ /\ file # main.candidateSource
          /\ token' = [token EXCEPT !.cancelled = TRUE]
          /\ monitor' = [monitor EXCEPT !.found = file, !.at = "done"]
       \/ /\ file = main.candidateSource
          /\ monitor' = [monitor EXCEPT !.at = "sleep"]
          /\ UNCHANGED token
    /\ UNCHANGED <<env, interrupt, interrupted, main, native, dvi>>

(* Joining the monitor, and what the round was. *)
Join ==
    /\ At("join")
    /\ monitor.at = "done"
    /\ ClearActive
    /\ \/ monitor.found = Missing /\ Exit("Io")
       \/ monitor.found # Missing /\ interrupted /\ Exit("Ok")
       \/ /\ monitor.found \in Text /\ ~interrupted
          /\ main' = [main EXCEPT !.next = monitor.found, !.at = "superseded"]
       \/ /\ monitor.found = NoText /\ ~interrupted
          /\ IF main.result = "Complete" THEN GoTo("write") ELSE Exit(main.result)
    /\ UNCHANGED <<env, interrupt, interrupted, native, monitor, dvi>>

-----------------------------------------------------------------------------
(* apply_source on session s: refused without an accepted revision, with a *)
(* patch pending, or when the revision does not grow.                      *)
Refused(s, revision) == s.accepted = NoText \/ s.pending # NoText \/ revision <= s.revision

ApplySource(s, text) ==
    LET revision == main.nextRevision + 1
    IN  IF Refused(s, revision)
        THEN /\ main' = [main EXCEPT !.nextRevision = revision, !.exit = "Refused"]
             /\ native' = s
        ELSE /\ native' = [s EXCEPT !.pending = text, !.pendingSource = text, !.candidate = FALSE]
             /\ main' = [main EXCEPT !.nextRevision = revision, !.candidateSource = text,
                                     !.at = "round"]

WriteDvi ==
    /\ At("write")
    /\ \/ dvi' = native.accepted /\ GoTo("wait")
       \/ Exit("Io") /\ UNCHANGED dvi
    /\ UNCHANGED <<env, interrupt, interrupted, token, native, monitor>>

(* As if only the first edit were waited for. *)
WaitForEdit_BugFirstOnly ==
    /\ At("wait")
    /\ \/ interrupted /\ Exit("Ok") /\ UNCHANGED native
       \/ ~interrupted /\ file = Missing /\ Exit("Io") /\ UNCHANGED native
       \/ /\ ~interrupted /\ file \in Text \ {main.candidateSource}
          /\ main.nextRevision = 1
          /\ ApplySource(native, file)
    /\ UNCHANGED <<env, interrupt, interrupted, token, monitor, dvi>>

WaitForEdit ==
    /\ At("wait")
    /\ \/ interrupted /\ Exit("Ok") /\ UNCHANGED native
       \/ ~interrupted /\ file = Missing /\ Exit("Io") /\ UNCHANGED native
       \/ /\ ~interrupted /\ file \in Text \ {main.candidateSource}
          /\ ApplySource(native, file)
    /\ UNCHANGED <<env, interrupt, interrupted, token, monitor, dvi>>

(* cancel_pending_revision. *)
Withdrawn == [native EXCEPT !.pending = NoText, !.pendingSource = NoText, !.candidate = FALSE]

(* The new text goes to the session when a patch was pending; otherwise    *)
(* the session is dropped and read again from the file.                    *)
Supersede_BugKeepsSession ==
    /\ At("superseded")
    /\ \/ native.pending # NoText /\ ApplySource(Withdrawn, main.next)
       \/ /\ native.pending = NoText
          /\ main' = [main EXCEPT !.candidateSource = main.next, !.at = "round"]
          /\ UNCHANGED native
    /\ UNCHANGED <<env, interrupt, interrupted, token, monitor, dvi>>

Supersede ==
    /\ At("superseded")
    /\ \/ /\ native.pending # NoText
          /\ ApplySource(Withdrawn, main.next) /\ UNCHANGED token
       \/ /\ native.pending = NoText
          /\ SetActive
          /\ native' = NoSession
          /\ GoTo("create")
    /\ UNCHANGED <<env, interrupt, interrupted, monitor, dvi>>

-----------------------------------------------------------------------------
(* The editor: save a new text or an earlier one, or remove the file. *)
Edit ==
    /\ Running
    /\ edits < MaxEdits
    /\ edits' = edits + 1
    /\ file' \in (0..(edits + 1) \union {Missing}) \ {file}
    /\ UNCHANGED <<signals, interrupt, interrupted, token, main, native, monitor, dvi>>

Main ==
    \/ Claim \/ Register \/ Activate \/ ReadInput \/ CreateSession \/ SessionReady
    \/ StartRound \/ LoopTop \/ CompileAttempt \/ Resolve \/ DrainPrefetch \/ Join
    \/ WriteDvi \/ WaitForEdit \/ Supersede
Monitor == Poll \/ PollRead
Dispatcher == Dispatch \/ Handler

WatchNext == Main \/ Monitor \/ Dispatcher \/ Signal \/ Edit

(* Each thread is scheduled.  Fetches have timeouts and attempts are       *)
(* limited by engine_steps, so a step of the main thread always ends.      *)
WatchSpec ==
    /\ WatchInit /\ [][WatchNext]_watchVars
    /\ WF_watchVars(Main) /\ WF_watchVars(Monitor) /\ WF_watchVars(Dispatcher)

-----------------------------------------------------------------------------
(* The patch apply_source computes from its own copy of the source is a    *)
(* patch of the text the engine accepted, and the engine does not refuse   *)
(* it: whenever the loop is about to patch, both copies agree and no other *)
(* patch is pending, whatever cancelled or failed rounds came before.      *)
PatchesApply ==
    /\ main.exit # "Refused"
    /\ (At("wait") \/ (At("superseded") /\ native.pending # NoText)) =>
            native.source = native.accepted

(* A round never continues the suspended engine run of an earlier round:   *)
(* every compilation starts without a candidate, also after a compilation  *)
(* that was cancelled while it drained prefetches and kept its candidate.  *)
RoundStartsFresh == At("loop") /\ main.waits = 0 => ~native.candidate

(* An output that does not belong to the file is still going to be         *)
(* noticed: the loop waits for an edit with a candidate source that        *)
(* differs from the file.  Texts are compared by content only, so this     *)
(* cannot be said of a file that went back to an earlier text.             *)
WentBack == file \in Text /\ file < edits

StaleOutputIsNoticed == At("wait") /\ dvi # file /\ ~WentBack => main.candidateSource # file

(* Ctrl-C ends the process, wherever the three threads were: during the    *)
(* installation, between two rounds when no token is active, while an edit *)
(* supersedes the round, or while the loop waits for an edit.              *)
InterruptStops == (interrupt.signal \/ interrupted) ~> ~Running

(* When the editor stops saving, the output ends up as the compilation of  *)
(* the file's text, unless the process ends or the last save went back to  *)
(* an earlier text.                                                        *)
EditsReachOutput == <>[](~Running \/ dvi = file \/ WentBack)
=============================================================================
