------------------------------ MODULE Kbd_proofs ------------------------------
(***************************************************************************)
(* Proofs about Kbd: what a clean shutdown can leave of the terminal.      *)
(***************************************************************************)
EXTENDS Kbd, TLAPS

\* Nothing has touched the terminal when main() reaches kbd_start.
LEMMA KbdInvInit == Init => KbdInv
<1> SUFFICES ASSUME Init PROVE KbdInv
  OBVIOUS
<1>1. typed \in 0 .. MaxKeys /\ keys \in 0 .. MaxKeys /\ jobs \in 0 .. MaxJobs /\ typed <= keys
  BY KbdBounds DEF Init
<1>2. QED
  BY <1>1, Zenon DEF Init, KbdInv, TypeOK

\* Every step of the user, of the shell, of the monitor thread and of main()
\* keeps the invariant.
LEMMA KbdInvNext == KbdInv /\ [Next]_vars => KbdInv'
<1> SUFFICES ASSUME KbdInv, [Next]_vars PROVE KbdInv'
  OBVIOUS
<1> USE KbdBounds DEF KbdInv, TypeOK, terminal, job, monitor, flags, counts
<1>1. CASE Type
  BY <1>1 DEF Type
<1>2. CASE Suspend
  <2>1. typed' \in 0 .. MaxKeys /\ keys' \in 0 .. MaxKeys /\ jobs' \in 0 .. MaxJobs /\ typed' <= keys'
    BY <1>2 DEF Suspend
  <2>2. QED
    BY <1>2, <2>1, Zenon DEF Suspend
<1>3. CASE Continue
  <2>1. typed' \in 0 .. MaxKeys /\ keys' \in 0 .. MaxKeys /\ jobs' \in 0 .. MaxJobs /\ typed' <= keys'
    BY <1>3 DEF Continue
  <2>2. QED
    BY <1>3, <2>1, Zenon DEF Continue
<1>4. CASE UNCHANGED vars
  BY <1>4 DEF vars
<1>5. CASE KbdGet
  BY <1>5 DEF KbdGet
<1>6. CASE KbdSave
  BY <1>6 DEF KbdSave
<1>7. CASE KbdSet
  BY <1>7 DEF KbdSet, StoppedByTerminal
<1>8. CASE KbdKey
  <2>1. typed' \in 0 .. MaxKeys /\ keys' \in 0 .. MaxKeys /\ jobs' \in 0 .. MaxJobs /\ typed' <= keys'
    BY <1>8 DEF KbdKey
  <2>2. QED
    BY <1>8, <2>1, Zenon DEF KbdKey
<1>9. CASE KbdReadStops
  BY <1>9 DEF KbdReadStops, StoppedByTerminal
<1>10. CASE KbdReadEnds
  BY <1>10 DEF KbdReadEnds
<1>11. CASE KbdRestore
  BY <1>11 DEF KbdRestore, StoppedByTerminal, Restored
<1>12. CASE KbdStart
  BY <1>12 DEF KbdStart
<1>13. CASE SetupDone
  BY <1>13 DEF SetupDone
<1>14. CASE Signal
  BY <1>14 DEF Signal
<1>15. CASE KbdStop
  <2>1. CASE saved /\ StoppedByTerminal /\ UNCHANGED <<term, mpc, rawAt>>
    BY <1>15, <2>1 DEF KbdStop, StoppedByTerminal
  <2>2. CASE term' = Restored /\ mpc' = "shutdown" /\ rawAt' = (term = "raw") /\ UNCHANGED job
    <3>1. /\ UNCHANGED <<tty, typed, kpc, old, saved, debug, short, ended, keys, jobs, fg, stopped>>
          /\ mpc = "stop"
      BY <1>15, <2>2 DEF KbdStop
    <3>2. CASE term = "raw"
      BY <2>2, <3>1, <3>2 DEF Restored
    <3>3. CASE term = "orig"
      BY <2>2, <3>1, <3>3 DEF Restored
    <3>4. QED
      BY <3>2, <3>3
  <2>3. QED
    BY <1>15, <2>1, <2>2 DEF KbdStop
<1>16. CASE Shutdown
  BY <1>16 DEF Shutdown
<1>17. CASE ExitFailure
  BY <1>17 DEF ExitFailure
<1>18. QED
  BY <1>1, <1>2, <1>3, <1>4, <1>5, <1>6, <1>7, <1>8, <1>9, <1>10, <1>11, <1>12, <1>13,
     <1>14, <1>15, <1>16, <1>17
  DEF Next, Monitor, Main, Idle

\* The terminal is never in a state that neither the user nor the monitor set.
LEMMA KbdInvAlways == Spec => []KbdInv
<1>1. QED
  BY KbdInvInit, KbdInvNext, PTL DEF Spec

\* However the detached monitor thread, main(), the user's keys and the shell
\* interleave, a clean shutdown leaves the terminal as it found it, unless
\* main() overtook the monitor.
THEOREM TerminalGivenBack == Spec => []LeftRawOnlyIfOvertaken
<1>1. KbdInv => LeftRawOnlyIfOvertaken
  BY DEF KbdInv, TypeOK, LeftRawOnlyIfOvertaken
<1>2. QED
  BY <1>1, KbdInvAlways, PTL
=============================================================================
