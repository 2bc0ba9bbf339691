--------------------------- MODULE SessionLifecycle ---------------------------
(***************************************************************************)
(* The life of the MNAB process over its data directory, launch after      *)
(* launch: main() consumes the clean-shutdown marker and decides how       *)
(* thoroughly the ledger is checked, the window runs, and shutdown() stops *)
(* the worker, saves the settings and publishes the marker, in that order. *)
(* The process can be killed at every step (src/src/main.rs,               *)
(* src/src/app.rs, src/src/app/lifecycle.rs, src/src/app/runtime.rs).      *)
(*                                                                         *)
(* A StorageWorker is here whether it is open; what its stop does to the   *)
(* requests it still holds is the subject of WorkerSession.                *)
(***************************************************************************)
EXTENDS Naturals

CONSTANTS
  Faults,       \* which operations can fail: "Open", "Stop", "Settings", "Marker"
  MaxLaunches   \* bound: how often the program is started

ASSUME LifecycleAssumption ==
  /\ Faults \subseteq {"Open", "Stop", "Settings", "Marker"}
  /\ MaxLaunches \in Nat

VARIABLES
  (* The data directory. *)
  marker,         \* whether .clean-shutdown exists
  ledger,         \* mnab.sqlite3: "Missing", "Sound" or "Damaged"
  dirty,          \* transactions of this launch that are not checkpointed
  unsaved,        \* settings changed in this launch and not saved: "None", those of
                  \* the "Session", or "Late" ones, changed after the settings step
  (* The process. *)
  phase,          \* "Off", "Idle" between frames, or the step of shutdown()
  exiting,        \* whether shutdown() was called by on_exit
  lifecycle,      \* LifecycleState, without the two passed through in one call
  steps,          \* ShutdownSteps: those that were completed
  worker,         \* whether the session owns a worker
  database,       \* DatabaseLifecycle
  accepting,      \* accepting_commands
  closeRequested, \* the viewport's close request that the next frame sees
  (* History: what the properties need and the program does not keep. *)
  launches,       \* how often the program was started
  stopFailed,     \* whether stopping the worker failed in this launch
  checkDue        \* an unclean end that no full diagnostic suite followed

diskVars == <<marker, ledger, dirty, unsaved>>
processVars ==
  <<phase, exiting, lifecycle, steps, worker, database, accepting, closeRequested>>
historyVars == <<launches, stopFailed, checkDue>>
vars == <<diskVars, processVars, historyVars>>

ShutdownPhases == {"Stopping", "Saving", "Marking"}

\* A step that always runs through, or one that may also fail.
Attempt(step) == IF step \in Faults THEN {TRUE, FALSE} ELSE {TRUE}

TypeOK ==
  /\ marker \in BOOLEAN
  /\ ledger \in {"Missing", "Sound", "Damaged"}
  /\ dirty \in BOOLEAN
  /\ unsaved \in {"None", "Session", "Late"}
  /\ phase \in {"Off", "Idle"} \union ShutdownPhases
  /\ exiting \in BOOLEAN
  /\ lifecycle \in {"Running", "ShuttingDown", "ShutdownFailed", "ReadyToClose", "Exiting"}
  /\ steps \subseteq {"worker", "settings", "marker"}
  /\ worker \in BOOLEAN
  /\ database \in {"FirstRunRequired", "Ready", "RecoveryRequired"}
  /\ accepting \in BOOLEAN
  /\ closeRequested \in BOOLEAN
  /\ launches \in 0..MaxLaunches
  /\ stopFailed \in BOOLEAN
  /\ checkDue \in BOOLEAN

\* A fresh installation.
Init ==
  /\ marker = FALSE
  /\ ledger = "Missing"
  /\ dirty = FALSE
  /\ unsaved = "None"
  /\ phase = "Off"
  /\ exiting = FALSE
  /\ lifecycle = "Running"
  /\ steps = {}
  /\ worker = FALSE
  /\ database = "FirstRunRequired"
  /\ accepting = TRUE
  /\ closeRequested = FALSE
  /\ launches = 0
  /\ stopFailed = FALSE
  /\ checkDue = FALSE

-----------------------------------------------------------------------------
(* Starting                                                                *)

\* diagnostics::all: only the full suite sees damage below the tables.
Suite == IF marker THEN "Quick" ELSE "Full"
Passes(suite) == ledger = "Sound" \/ suite = "Quick"

\* Mutant: the marker of the previous run is left where it is.
LaunchMutant ==
  /\ phase = "Off"
  /\ launches < MaxLaunches
  /\ launches' = launches + 1
  /\ worker' = (ledger # "Missing" /\ Passes(Suite))
  /\ database' = IF ledger = "Missing" THEN "FirstRunRequired"
                 ELSE IF Passes(Suite) THEN "Ready" ELSE "RecoveryRequired"
  /\ dirty' = FALSE
  /\ unsaved' = "None"
  /\ phase' = "Idle"
  /\ exiting' = FALSE
  /\ lifecycle' = "Running"
  /\ steps' = {}
  /\ accepting' = TRUE
  /\ closeRequested' = FALSE
  /\ stopFailed' = FALSE
  /\ UNCHANGED <<ledger, marker, checkDue>>

\* main() up to the first frame: capture, consume the marker, apply_startup.
Launch ==
  /\ phase = "Off"
  /\ launches < MaxLaunches
  /\ launches' = launches + 1
  /\ marker' = FALSE
  /\ \E opens \in Attempt("Open") :
       LET opened == ledger # "Missing" /\ Passes(Suite) /\ opens IN
       /\ database' = IF ledger = "Missing" THEN "FirstRunRequired"
                      ELSE IF opened THEN "Ready" ELSE "RecoveryRequired"
       /\ worker' = opened
  /\ checkDue' = (checkDue /\ ~(Suite = "Full" /\ Passes("Full")))
  /\ dirty' = FALSE
  /\ unsaved' = "None"
  /\ phase' = "Idle"
  /\ exiting' = FALSE
  /\ lifecycle' = "Running"
  /\ steps' = {}
  /\ accepting' = TRUE
  /\ closeRequested' = FALSE
  /\ stopFailed' = FALSE
  /\ UNCHANGED ledger

\* CompleteOnboarding: creates the ledger and opens it in the same process.
CompleteOnboarding ==
  /\ phase = "Idle"
  /\ accepting
  /\ database = "FirstRunRequired"
  /\ ledger' = "Sound"
  /\ dirty' = TRUE
  /\ worker' = TRUE
  /\ database' = "Ready"
  /\ UNCHANGED <<marker, unsaved, phase, exiting, lifecycle, steps, accepting,
                 closeRequested, historyVars>>

\* The worker commits a transaction, if need be one it was given before the stop.
Commit ==
  /\ worker
  /\ phase \in {"Idle", "Stopping"}
  /\ dirty' = TRUE
  /\ UNCHANGED <<marker, ledger, unsaved, processVars, historyVars>>

\* Window bounds and selections, kept in memory until they are saved.  Frames
\* record them also when commands are no longer accepted (record_window).
ChangeSettings ==
  /\ phase = "Idle"
  /\ unsaved' = IF "settings" \in steps THEN "Late" ELSE "Session"
  /\ UNCHANGED <<marker, ledger, dirty, processVars, historyVars>>

-----------------------------------------------------------------------------
(* Ending                                                                  *)

\* The process is gone; what it leaves behind says whether it was clean.
End(markerLeft) ==
  /\ phase' = "Off"
  /\ checkDue' = (ledger # "Missing" /\ (checkDue \/ ~markerLeft))

\* The title bar or the platform asks the window to close.
RequestClose ==
  /\ phase = "Idle"
  /\ ~closeRequested
  /\ closeRequested' = TRUE
  /\ UNCHANGED <<diskVars, phase, exiting, lifecycle, steps, worker, database,
                 accepting, historyVars>>

\* shutdown() is entered, from update() or from on_exit().
EnterShutdown(byExit) ==
  /\ lifecycle' = "ShuttingDown"
  /\ accepting' = FALSE
  /\ exiting' = byExit
  /\ phase' = "Stopping"
  /\ UNCHANGED <<diskVars, steps, worker, database, historyVars>>

\* update() of a running window: native_close_requested, then shutdown().
CloseRunning ==
  /\ phase = "Idle"
  /\ closeRequested
  /\ lifecycle = "Running"
  /\ closeRequested' = FALSE
  /\ EnterShutdown(FALSE)

\* The Exit command: request_exit, then shutdown() in the same frame.
RequestExit ==
  /\ phase = "Idle"
  /\ accepting
  /\ lifecycle = "Running"
  /\ UNCHANGED closeRequested
  /\ EnterShutdown(FALSE)

\* After a failed shutdown every close request is cancelled and nothing retried.
CancelClose ==
  /\ phase = "Idle"
  /\ closeRequested
  /\ lifecycle = "ShutdownFailed"
  /\ closeRequested' = FALSE
  /\ UNCHANGED <<diskVars, phase, exiting, lifecycle, steps, worker, database,
                 accepting, historyVars>>

\* AllowClose: the window closes, and on_exit finds the marker step done.
AllowClose ==
  /\ phase = "Idle"
  /\ closeRequested
  /\ lifecycle = "ReadyToClose"
  /\ lifecycle' = "Exiting"
  /\ closeRequested' = FALSE
  /\ End(marker)
  /\ UNCHANGED <<diskVars, exiting, steps, worker, database, accepting,
                 launches, stopFailed>>

\* The event loop ends without a close request: on_exit runs shutdown(), which
\* retries the steps that are not done.
LoseWindow ==
  /\ phase = "Idle"
  /\ "marker" \notin steps
  /\ UNCHANGED closeRequested
  /\ EnterShutdown(TRUE)

\* Mutant: the failed step is reported and the lifecycle left as it is.
FailShutdownMutant(markerLeft) ==
  /\ UNCHANGED lifecycle
  /\ IF exiting THEN End(markerLeft) ELSE phase' = "Idle" /\ UNCHANGED checkDue

\* fail_shutdown: the error is kept; on_exit has nobody to report it to.
FailShutdown(markerLeft) ==
  /\ lifecycle' = "ShutdownFailed"
  /\ IF exiting THEN End(markerLeft) ELSE phase' = "Idle" /\ UNCHANGED checkDue

\* The worker is taken out of the runtime before it is asked to stop, so a
\* second attempt finds none and counts the step as done.
StopWorker ==
  /\ phase = "Stopping"
  /\ worker' = FALSE
  /\ \E ok \in IF worker THEN Attempt("Stop") ELSE {TRUE} :
       /\ dirty' = (dirty /\ ~(worker /\ ok))
       /\ stopFailed' = (stopFailed \/ ~ok)
       /\ IF ok
            THEN /\ steps' = steps \union {"worker"}
                 /\ phase' = "Saving"
                 /\ UNCHANGED <<lifecycle, checkDue>>
            ELSE FailShutdown(marker) /\ UNCHANGED steps
  /\ UNCHANGED <<marker, ledger, unsaved, exiting, database, accepting,
                 closeRequested, launches>>

\* save_settings, unless an earlier attempt did it.
SaveSettings ==
  /\ phase = "Saving"
  /\ \E ok \in IF "settings" \in steps THEN {TRUE} ELSE Attempt("Settings") :
       IF ok
         THEN /\ unsaved' = IF "settings" \in steps THEN unsaved ELSE "None"
              /\ steps' = steps \union {"settings"}
              /\ phase' = "Marking"
              /\ UNCHANGED <<lifecycle, checkDue>>
         ELSE FailShutdown(marker) /\ UNCHANGED <<unsaved, steps>>
  /\ UNCHANGED <<marker, ledger, dirty, exiting, worker, database, accepting,
                 closeRequested, launches, stopFailed>>

\* Mutant: a marker that could not be written is only logged.
WriteMarkerMutant ==
  /\ phase = "Marking"
  /\ \E ok \in Attempt("Marker") : marker' = (marker \/ ok)
  /\ steps' = steps \union {"marker"}
  /\ lifecycle' = "ReadyToClose"
  /\ closeRequested' = TRUE
  /\ IF exiting THEN End(marker') ELSE phase' = "Idle" /\ UNCHANGED checkDue
  /\ UNCHANGED <<ledger, dirty, unsaved, exiting, worker, database, accepting,
                 launches, stopFailed>>

\* write_clean_marker, then shutdown_succeeded and its programmatic close.  A
\* write or sync that fails leaves the file that was created before it.
WriteMarker ==
  /\ phase = "Marking"
  /\ \E ok \in Attempt("Marker") :
       IF ok
         THEN /\ marker' = TRUE
              /\ steps' = steps \union {"marker"}
              /\ lifecycle' = "ReadyToClose"
              /\ closeRequested' = TRUE
              /\ IF exiting THEN End(TRUE) ELSE phase' = "Idle" /\ UNCHANGED checkDue
         ELSE /\ \E left \in {marker, TRUE} : marker' = left /\ FailShutdown(left)
              /\ UNCHANGED <<steps, closeRequested>>
  /\ UNCHANGED <<ledger, dirty, unsaved, exiting, worker, database, accepting,
                 launches, stopFailed>>

\* The process is killed or the power fails; with the worker open the latter
\* can damage the file.
Kill ==
  /\ phase # "Off"
  /\ End(marker)
  /\ ledger' \in IF worker THEN {ledger, "Damaged"} ELSE {ledger}
  /\ UNCHANGED <<marker, dirty, unsaved, exiting, lifecycle, steps, worker,
                 database, accepting, closeRequested, launches, stopFailed>>

-----------------------------------------------------------------------------
CloseFrame == CloseRunning \/ CancelClose \/ AllowClose
ShutdownStep == StopWorker \/ SaveSettings \/ WriteMarker

Next ==
  \/ Launch
  \/ CompleteOnboarding
  \/ Commit
  \/ ChangeSettings
  \/ RequestClose
  \/ RequestExit
  \/ CloseFrame
  \/ LoseWindow
  \/ ShutdownStep
  \/ Kill

\* A close request wakes the event loop, and a frame that began runs to its end.
Fairness == WF_vars(CloseFrame) /\ WF_vars(ShutdownStep)

Spec == Init /\ [][Next]_vars
FairSpec == Spec /\ Fairness

-----------------------------------------------------------------------------
\* The marker never vouches for a launch whose session left its settings unsaved
\* or its transactions not checkpointed, at whatever step the process dies and
\* however often the exit is attempted, unless the stop of the worker failed.
MarkerMeansDurable ==
  marker => unsaved # "Session" /\ (dirty => stopFailed)

\* The window is let go only by a shutdown that is complete: no worker is left
\* running and the next launch will find the marker.
ClosesOnlyWhenComplete ==
  phase = "Idle" /\ lifecycle \in {"ReadyToClose", "Exiting"} =>
    marker /\ ~worker /\ ~accepting /\ steps = {"worker", "settings", "marker"}

\* Asking a running window to close leads to a closed process or to a failed
\* step that the lifecycle records.
CloseIsAnswered ==
  closeRequested /\ lifecycle = "Running" /\ phase = "Idle"
    ~> phase = "Off" \/ lifecycle = "ShutdownFailed"

\* "A marker is published only after every required durability step has
\* succeeded" (runtime.rs:2536), the checkpoint of the worker among them.
MarkerAfterEveryStep == marker => ~dirty

\* "The full suite [...] is mandatory [...] after an unclean startup [...]. A
\* failed required suite refuses normal opening"
\* (docs/performance-and-validation.md:38): while the last unclean end has not
\* been followed by a full suite that passed, the ledger is not opened.
UncheckedLedgerStaysClosed == phase # "Off" /\ database = "Ready" => ~checkDue
=============================================================================
