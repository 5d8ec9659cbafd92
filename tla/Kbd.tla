--------------------------------- MODULE Kbd ---------------------------------
(***************************************************************************)
(* The keyboard monitor of kbd.c: a detached thread that switches the      *)
(* terminal to single-key mode and toggles the debug flags, main(), which  *)
(* puts the terminal back when it winds down, and the shell whose job the  *)
(* bridge is.  Nothing orders the thread against main(), and other threads *)
(* end the process with exit() without a word to either.                   *)
(***************************************************************************)
EXTENDS Naturals

CONSTANTS
    MaxKeys,  \* bound: keys the user types
    MaxJobs   \* bound: times the user moves the job

ASSUME KbdBounds == MaxKeys \in Nat /\ MaxJobs \in Nat

VARIABLES
    tty,      \* stdin is a terminal
    term,     \* its settings: "orig" or "raw", single keys without echo
    typed,    \* keys in its input queue
    fg,       \* the bridge is the foreground job of the terminal
    stopped,  \* the job is stopped
    kpc,      \* kbd_monitor: "none", "get", "saved", "set", "read", "restore", "end"
    old,      \* kbd_old_term
    saved,    \* kbd_term_saved
    debug,    \* cfg->pus_debug
    short,    \* cfg->debug_short
    mpc,      \* main(): "start", "setup", "pause", "stop", "shutdown"
    ended,    \* "no", "clean" when main() returned, "failed" by exit(EXIT_FAILURE)
    keys,     \* keys typed so far
    jobs,     \* times the job was moved so far
    rawAt     \* history: the terminal was in single-key mode when kbd_stop ran

terminal == <<tty, term, typed>>
job      == <<fg, stopped>>
monitor  == <<kpc, old, saved>>
flags    == <<debug, short>>
counts   == <<keys, jobs>>
vars     == <<terminal, job, monitor, flags, mpc, ended, counts, rawAt>>

Runs == ended = "no" /\ ~stopped

Init == /\ tty \in BOOLEAN /\ fg \in BOOLEAN /\ term = "orig" /\ typed = 0
        /\ stopped = FALSE
        /\ kpc = "none" /\ old = "unset" /\ saved = FALSE
        /\ debug \in BOOLEAN /\ short \in BOOLEAN
        /\ mpc = "start" /\ ended = "no"
        /\ keys = 0 /\ jobs = 0 /\ rawAt = FALSE

-----------------------------------------------------------------------------
\* The shell, its user and the terminal driver.

\* A background job that sets its terminal or reads from it is stopped
\* (SIGTTOU, SIGTTIN, which setup_signals leaves alone), and the call is made
\* again once the job is continued.
StoppedByTerminal == ~fg /\ stopped' = TRUE /\ UNCHANGED fg

Type ==
    /\ ended = "no" /\ tty /\ fg /\ ~stopped /\ keys < MaxKeys
    /\ keys' = keys + 1 /\ typed' = typed + 1
    /\ UNCHANGED <<tty, term, job, monitor, flags, mpc, ended, jobs, rawAt>>

\* Ctrl-Z
Suspend ==
    /\ ended = "no" /\ tty /\ fg /\ ~stopped /\ jobs < MaxJobs
    /\ fg' = FALSE /\ stopped' = TRUE /\ jobs' = jobs + 1
    /\ UNCHANGED <<terminal, monitor, flags, mpc, ended, keys, rawAt>>

\* the shell's fg and bg
Continue ==
    /\ ended = "no" /\ stopped /\ jobs < MaxJobs
    /\ fg' \in BOOLEAN /\ stopped' = FALSE /\ jobs' = jobs + 1
    /\ UNCHANGED <<terminal, monitor, flags, mpc, ended, keys, rawAt>>

-----------------------------------------------------------------------------
\* kbd_restore_term: what the terminal becomes
Restored == IF saved THEN old ELSE term

\* The thread's tcsetattr() and read() touch the terminal; its isatty() and
\* tcgetattr() do not.
KbdGet ==
    /\ kpc = "get"
    /\ \/ tty /\ old' = term /\ kpc' = "saved"
       \/ kpc' = "end" /\ UNCHANGED old      \* not a terminal, or the call failed
    /\ UNCHANGED <<terminal, job, saved, flags, mpc, ended, counts, rawAt>>

KbdSave ==
    /\ kpc = "saved"
    /\ saved' = TRUE /\ kpc' = "set"
    /\ UNCHANGED <<terminal, job, old, flags, mpc, ended, counts, rawAt>>

KbdSet ==
    /\ kpc = "set"
    /\ \/ fg /\ term' = "raw" /\ kpc' = "read" /\ UNCHANGED job
       \/ fg /\ kpc' = "end" /\ UNCHANGED <<term, job>>            \* the call failed
       \/ StoppedByTerminal /\ UNCHANGED <<term, kpc>>
    /\ UNCHANGED <<tty, typed, old, saved, flags, mpc, ended, counts, rawAt>>

\* One key: d toggles the printout, s its short form, others do nothing.
KbdKey ==
    /\ kpc = "read" /\ fg /\ typed > 0 /\ typed' = typed - 1
    /\ \/ debug' = ~debug /\ UNCHANGED short
       \/ short' = ~short /\ UNCHANGED debug
       \/ UNCHANGED flags
    /\ UNCHANGED <<tty, term, job, monitor, mpc, ended, counts, rawAt>>

KbdReadStops ==
    /\ kpc = "read" /\ StoppedByTerminal
    /\ UNCHANGED <<terminal, monitor, flags, mpc, ended, counts, rawAt>>

\* read() fails or reports the end of the input: the loop is left
KbdReadEnds ==
    /\ kpc = "read" /\ kpc' = "restore"
    /\ UNCHANGED <<terminal, job, old, saved, flags, mpc, ended, counts, rawAt>>

KbdRestore ==
    /\ kpc = "restore"
    /\ \/ fg /\ term' = Restored /\ kpc' = "end" /\ UNCHANGED job
       \/ StoppedByTerminal /\ UNCHANGED <<term, kpc>>
    /\ UNCHANGED <<tty, typed, old, saved, flags, mpc, ended, counts, rawAt>>

Monitor == KbdGet \/ KbdSave \/ KbdSet \/ KbdKey \/ KbdReadStops \/ KbdReadEnds \/ KbdRestore

-----------------------------------------------------------------------------
\* main() from kbd_start on.

\* pthread_create() may fail, and nothing then watches the keyboard
KbdStart ==
    /\ mpc = "start" /\ mpc' = "setup"
    /\ kpc' \in {"get", "end"}
    /\ UNCHANGED <<terminal, job, old, saved, flags, ended, counts, rawAt>>

\* spw_setup_device and spw_start_link
SetupDone ==
    /\ mpc = "setup" /\ mpc' = "pause"
    /\ UNCHANGED <<terminal, job, monitor, flags, ended, counts, rawAt>>

Signal ==
    /\ mpc = "pause" /\ mpc' = "stop"
    /\ UNCHANGED <<terminal, job, monitor, flags, ended, counts, rawAt>>

\* kbd_stop
KbdStop_Skipped ==
    /\ mpc = "stop"
    /\ mpc' = "shutdown" /\ rawAt' = (term = "raw")
    /\ UNCHANGED <<terminal, job, monitor, flags, ended, counts>>

KbdStop_JoinsMonitor ==
    /\ mpc = "stop" /\ kpc = "end"
    /\ term' = Restored /\ mpc' = "shutdown" /\ rawAt' = (term = "raw")
    /\ UNCHANGED <<tty, typed, job, monitor, flags, ended, counts>>

KbdStop ==
    /\ mpc = "stop"
    /\ \/ saved /\ StoppedByTerminal /\ UNCHANGED <<term, mpc, rawAt>>
       \/ /\ saved => fg
          /\ term' = Restored /\ mpc' = "shutdown" /\ rawAt' = (term = "raw")
          /\ UNCHANGED job
    /\ UNCHANGED <<tty, typed, monitor, flags, ended, counts>>

\* spw_request_shutdown to spw_release, and the return from main()
Shutdown ==
    /\ mpc = "shutdown"
    /\ ended' = "clean"
    /\ UNCHANGED <<terminal, job, monitor, flags, mpc, counts, rawAt>>

\* exit(EXIT_FAILURE) in spw_setup_device, conn_drop, spw_send_packet_chan ...
ExitFailure ==
    /\ mpc # "start"
    /\ ended' = "failed"
    /\ UNCHANGED <<terminal, job, monitor, flags, mpc, counts, rawAt>>

Main == KbdStart \/ SetupDone \/ KbdStop \/ Shutdown

\* pause() may last for ever, a stopped job may stay stopped, and nothing
\* runs after the end.
Idle == (mpc = "pause" \/ ~Runs) /\ UNCHANGED vars

Next == \/ Type \/ Suspend \/ Continue \/ Idle
        \/ Runs /\ (Monitor \/ Main \/ Signal \/ ExitFailure)

\* The kernel runs main() while the job is not stopped.
Fairness == WF_vars(Runs /\ Main)

Spec == Init /\ [][Next]_vars /\ Fairness

-----------------------------------------------------------------------------
\* Each variable holds a value of its kind.
TypeOK ==
    /\ tty \in BOOLEAN /\ term \in {"orig", "raw"} /\ typed \in 0 .. MaxKeys
    /\ fg \in BOOLEAN /\ stopped \in BOOLEAN
    /\ kpc \in {"none", "get", "saved", "set", "read", "restore", "end"}
    /\ old \in {"unset", "orig"} /\ saved \in BOOLEAN
    /\ debug \in BOOLEAN /\ short \in BOOLEAN
    /\ mpc \in {"start", "setup", "pause", "stop", "shutdown"}
    /\ ended \in {"no", "clean", "failed"}
    /\ keys \in 0 .. MaxKeys /\ jobs \in 0 .. MaxJobs /\ rawAt \in BOOLEAN

\* A terminal that a clean shutdown leaves changed is in single-key mode, put
\* there by a monitor that main() overtook: the thread was still before its
\* tcsetattr() when kbd_stop ran.  In every other order the user gets the
\* terminal back as it was, and settings that were never saved are never
\* written to it (the test of kbd_term_saved in kbd_restore_term).
LeftRawOnlyIfOvertaken ==
    (ended = "clean" /\ term # "orig") => (term = "raw" /\ ~rawAt /\ kpc \in {"read", "restore"})

\* Why: the monitor reads the settings before anybody changes them, and notes
\* that it has before it changes them; only a monitor that has set single-key
\* mode and not yet taken it back leaves the terminal different; and once
\* kbd_stop has found that mode nothing sets it again.
KbdInv ==
    /\ TypeOK
    /\ typed <= keys
    /\ kpc \in {"saved", "set", "read", "restore"} => old = "orig"
    /\ kpc \in {"set", "read", "restore"} => saved
    /\ saved => old = "orig"
    /\ term = "raw" => kpc \in {"read", "restore"}
    /\ rawAt => (term = "orig" /\ kpc \in {"read", "restore", "end"} /\ mpc = "shutdown")
    /\ mpc = "start" => (kpc = "none" /\ ~saved)

\* A signal that ends pause() ends the bridge, unless the user has moved it
\* to the background, where kbd_stop itself stops it.
SignalEnds == (mpc = "stop" /\ fg) ~> (ended # "no" \/ ~fg)

-----------------------------------------------------------------------------
\* What the documentation and the comments promise and the code does not keep.

\* kbd.h, kbd_start: the monitor "restores the terminal settings on exit".
RestoredOnExit == ended # "no" => term = "orig"

\* um/usermanual.tex: "if the bridge runs in the background or with redirected
\* input, the toggle is not available": a bridge that was started in the
\* background runs, it only lacks the toggle.
RunsInBackground == jobs = 0 => ~stopped
=============================================================================
