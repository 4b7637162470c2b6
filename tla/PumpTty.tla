------------------------------ MODULE PumpTty -------------------------------
(***************************************************************************)
(* The su client of an interactive shell (su/pts.rs): pump_tty carries     *)
(* what is typed at its terminal to the shell's pseudo-terminal and the    *)
(* shell's output back, with splice through one pipe until a splice fails, *)
(* and keeps the size of the two terminals equal.                          *)
(*                                                                         *)
(* The terminals and the shell are external.  A terminal hands out at most *)
(* TTY_MAX bytes at a time, which is not more than the buffer of           *)
(* pump_via_copy (4096 bytes, as the line discipline's).                   *)
(***************************************************************************)
EXTENDS Naturals, Sequences, FiniteSets

CONSTANTS Typed,     \* what the user types
          Printed,   \* what the shell prints
          TTY_MAX,   \* bytes a terminal gives at once
          COPY_MAX,  \* the buffer of pump_via_copy
          Sizes      \* window sizes, the first one is 0

ASSUME PumpSizes == TTY_MAX \in Nat \ {0} /\ COPY_MAX \in Nat /\ TTY_MAX <= COPY_MAX /\ 0 \in Sizes

TtyBytes == {Typed[i] : i \in DOMAIN Typed} \cup {Printed[i] : i \in DOMAIN Printed}

ASSUME PumpText == Typed \in Seq(TtyBytes) /\ Printed \in Seq(TtyBytes)

VARIABLES ptPc,       \* "start", "open", "poll", "serve", "signal", "restore", "done"
          ptStdin,    \* typed and not read
          ptStdout,   \* on the user's terminal
          ptShellIn,  \* what the shell has been given
          ptPtmx,     \* printed and not read
          ptPipe,     \* in the pipe
          ptSplice,   \* SHOULD_USE_SPLICE
          ptShell,    \* "runs" or "exited"
          ptUser,     \* "there" or "left": the user's terminal hung up
          ptTerm,     \* the terminal's attributes: "own" or "raw"
          ptSaved,    \* set_stdin_raw returned the old attributes
          ptEvents,   \* what poll returned and is not served yet
          ptSize,     \* the window's size
          ptPtySize,  \* the size the pseudo-terminal was given
          ptWinch,    \* SIGWINCH is pending
          ptMissed,   \* history: a resize came between an ioctl and the signal's being watched
          ptEnd       \* how the loop ended: "none", "hup" or "err"

pumpData == <<ptStdin, ptStdout, ptShellIn, ptPtmx, ptPipe, ptSplice>>
pumpTerm == <<ptTerm, ptSaved>>
pumpSize == <<ptSize, ptPtySize, ptWinch, ptMissed>>
pumpPeers == <<ptShell, ptUser>>
pumpVars == <<ptPc, pumpData, pumpTerm, pumpSize, pumpPeers, ptEvents, ptEnd>>

InitPump ==
  /\ ptPc = "start"
  /\ ptStdin = <<>> /\ ptStdout = <<>> /\ ptShellIn = <<>> /\ ptPtmx = <<>> /\ ptPipe = <<>>
  /\ ptSplice = TRUE
  /\ ptShell = "runs" /\ ptUser = "there"
  /\ ptTerm = "own" /\ ptSaved = FALSE
  /\ ptEvents = <<>>
  /\ ptSize = 0 /\ ptPtySize = 0 /\ ptWinch = FALSE /\ ptMissed = FALSE
  /\ ptEnd = "none"

(* The user types and resizes the window, the shell prints and exits. *)
Type ==
  /\ ptUser = "there" /\ Len(ptShellIn \o ptStdin) < Len(Typed) /\ ptPc # "done"
  /\ ptStdin' = Append(ptStdin, Typed[Len(ptShellIn \o ptStdin) + 1])
  /\ UNCHANGED <<ptPc, ptStdout, ptShellIn, ptPtmx, ptPipe, ptSplice, pumpTerm, pumpSize, pumpPeers, ptEvents, ptEnd>>

Resize ==
  /\ ptUser = "there" /\ ptPc # "done"
  /\ \E s \in Sizes : s > ptSize /\ ptSize' = s
  /\ ptWinch' = (ptPc \notin {"start", "open"})   \* the signal is ignored until it is blocked
  /\ ptMissed' = (ptPc \in {"open", "signal"})
  /\ UNCHANGED <<ptPc, pumpData, pumpTerm, ptPtySize, pumpPeers, ptEvents, ptEnd>>

PrintMore ==
  /\ ptShell = "runs" /\ Len(ptStdout \o ptPtmx) < Len(Printed) /\ ptPc # "done"
  /\ ptPtmx' = Append(ptPtmx, Printed[Len(ptStdout \o ptPtmx) + 1])
  /\ UNCHANGED <<ptPc, ptStdin, ptStdout, ptShellIn, ptPipe, ptSplice, pumpTerm, pumpSize, pumpPeers, ptEvents, ptEnd>>

ShellExits ==
  /\ ptShell = "runs" /\ ptShell' = "exited"
  /\ UNCHANGED <<ptPc, pumpData, pumpTerm, pumpSize, ptUser, ptEvents, ptEnd>>

UserLeaves ==
  /\ ptUser = "there" /\ ptUser' = "left"
  /\ UNCHANGED <<ptPc, pumpData, pumpTerm, pumpSize, ptShell, ptEvents, ptEnd>>

-----------------------------------------------------------------------------
(* sync_winsize, and set_stdin_raw, which may fail and leave the terminal. *)
StartPump ==
  /\ ptPc = "start"
  /\ ptPtySize' = ptSize
  /\ \/ ptTerm' = "raw" /\ ptSaved' = TRUE
     \/ UNCHANGED pumpTerm
  /\ ptPc' = "open"
  /\ UNCHANGED <<pumpData, ptSize, ptWinch, ptMissed, pumpPeers, ptEvents, ptEnd>>

(* The signal mask, the signalfd and the pipe; any of them may fail. *)
OpenPump ==
  /\ ptPc = "open"
  /\ \/ ptPc' = "poll" /\ ptEnd' = ptEnd
     \/ ptPc' = "restore" /\ ptEnd' = "err"
  /\ UNCHANGED <<pumpData, pumpTerm, pumpSize, pumpPeers, ptEvents>>

Reported(fd, in, hup) == IF in \/ hup THEN <<[fd |-> fd, in |-> in, hup |-> hup]>> ELSE <<>>

(* The three descriptors in their order, those there is something to say of. *)
Fds == Reported("ptmx", ptPtmx # <<>>, ptShell = "exited")
       \o Reported("signal", ptWinch, FALSE)
       \o Reported("stdin", ptStdin # <<>>, ptUser = "left")

(* poll returns their state: data to read counts before a hang-up. *)
Poll ==
  /\ ptPc = "poll" /\ Fds # <<>>
  /\ ptEvents' = Fds
  /\ ptPc' = "serve"
  /\ UNCHANGED <<pumpData, pumpTerm, pumpSize, pumpPeers, ptEnd>>

Leave(why) == ptPc' = "restore" /\ ptEnd' = why /\ ptEvents' = <<>>
GoOn == ptPc' = (IF Len(ptEvents) = 1 THEN "poll" ELSE "serve") /\ ptEvents' = Tail(ptEvents) /\ UNCHANGED ptEnd

Serving(fd) == ptPc = "serve" /\ Head(ptEvents).fd = fd /\ Head(ptEvents).in

(* Mutant: the fallback reads the source again, not the pipe. *)
PumpedFromSource(src, n) ==
  LET m == IF 2 * n <= Len(src) THEN n ELSE Len(src) - n
      piped == ptPipe \o SubSeq(src, 1, n)
      rest(s, k) == SubSeq(s, k + 1, Len(s))
  IN  {[src |-> rest(src, n), pipe |-> rest(piped, n), out |-> SubSeq(piped, 1, n), splice |-> TRUE],
       [src |-> rest(src, n + m), pipe |-> piped, out |-> SubSeq(src, n + 1, n + m), splice |-> FALSE]}

(* n bytes of src go through the pipe, or a splice fails and pump_via_copy *)
(* takes over from where the bytes are by then: [src, pipe, out, splice].  *)
Pumped(src, n) ==
  LET m == IF n <= COPY_MAX THEN n ELSE COPY_MAX
      piped == ptPipe \o SubSeq(src, 1, n)
      rest(s, k) == SubSeq(s, k + 1, Len(s))
      copied == [src |-> rest(src, m), pipe |-> ptPipe, out |-> SubSeq(src, 1, m), splice |-> FALSE]
  IN  IF ~ptSplice THEN {copied}
      ELSE {copied,
            [src |-> rest(src, n), pipe |-> rest(piped, n), out |-> SubSeq(piped, 1, n), splice |-> TRUE],
            [src |-> rest(src, n), pipe |-> rest(piped, m), out |-> SubSeq(piped, 1, m), splice |-> FALSE]}

AtOnce(s) == 1..(IF Len(s) <= TTY_MAX THEN Len(s) ELSE TTY_MAX)

(* pump_via_splice from the shell to the terminal. *)
PumpOutput ==
  /\ Serving("ptmx")
  /\ \/ /\ ptUser = "there"
        /\ \E n \in AtOnce(ptPtmx) : \E r \in Pumped(ptPtmx, n) :
             ptPtmx' = r.src /\ ptPipe' = r.pipe /\ ptStdout' = ptStdout \o r.out /\ ptSplice' = r.splice
        /\ GoOn
        /\ UNCHANGED <<ptStdin, ptShellIn>>
     \/ /\ ptUser = "left"     \* writing to a terminal that hung up fails
        /\ Leave("err")
        /\ UNCHANGED pumpData
  /\ UNCHANGED <<pumpTerm, pumpSize, pumpPeers>>

(* pump_via_splice from the terminal to the shell. *)
PumpInput ==
  /\ Serving("stdin")
  /\ \/ /\ ptShell = "runs"
        /\ \E n \in AtOnce(ptStdin) : \E r \in Pumped(ptStdin, n) :
             ptStdin' = r.src /\ ptPipe' = r.pipe /\ ptShellIn' = ptShellIn \o r.out /\ ptSplice' = r.splice
        /\ GoOn
        /\ UNCHANGED <<ptPtmx, ptStdout>>
     \/ /\ ptShell = "exited"  \* writing to a pseudo-terminal nobody has open fails
        /\ Leave("err")
        /\ UNCHANGED pumpData
  /\ UNCHANGED <<pumpTerm, pumpSize, pumpPeers>>

(* sync_winsize reads the size before the signal is taken off the queue. *)
SyncWinsize ==
  /\ Serving("signal")
  /\ ptPtySize' = ptSize
  /\ ptPc' = "signal"
  /\ UNCHANGED <<pumpData, pumpTerm, ptSize, ptWinch, ptMissed, pumpPeers, ptEvents, ptEnd>>

ReadSignal ==
  /\ ptPc = "signal"
  /\ ptWinch' = FALSE
  /\ GoOn
  /\ UNCHANGED <<pumpData, pumpTerm, ptSize, ptPtySize, ptMissed, pumpPeers>>

(* Mutant: only data counts, a hang-up is not looked at. *)
StopPollingNever ==
  /\ ptPc = "serve" /\ ~Head(ptEvents).in
  /\ GoOn
  /\ UNCHANGED <<pumpData, pumpTerm, pumpSize, pumpPeers>>

(* Nothing to read and a hang-up: the loop is left. *)
StopPolling ==
  /\ ptPc = "serve" /\ ~Head(ptEvents).in
  /\ Leave("hup")
  /\ UNCHANGED <<pumpData, pumpTerm, pumpSize, pumpPeers>>

(* restore_stdin, on every way out. *)
Restore ==
  /\ ptPc = "restore"
  /\ ptTerm' = IF ptSaved THEN "own" ELSE ptTerm
  /\ ptPc' = "done"
  /\ UNCHANGED <<pumpData, ptSaved, pumpSize, pumpPeers, ptEvents, ptEnd>>

PumpStep == StartPump \/ OpenPump \/ Poll \/ PumpOutput \/ PumpInput \/ SyncWinsize \/ ReadSignal \/ StopPolling \/ Restore
NextPump == PumpStep \/ Type \/ Resize \/ PrintMore \/ ShellExits \/ UserLeaves
PumpFairness == WF_pumpVars(PumpStep)

SpecPump == InitPump /\ [][NextPump]_pumpVars /\ PumpFairness

-----------------------------------------------------------------------------
(* Each direction is carried complete, in order and to its own end, though *)
(* both share the pipe and a splice may fail half-way; the shell's last    *)
(* words are shown before its exit is noticed (unless the terminal hung up *)
(* or a key was pressed after the exit); a resize reaches the shell unless *)
(* it comes just after the size was read and before the signal is watched; *)
(* and whichever way the loop ends the terminal has its own attributes.    *)
PumpFaithful ==
  /\ ptPipe = <<>>
  /\ ptShellIn \o ptStdin = SubSeq(Typed, 1, Len(ptShellIn) + Len(ptStdin))
  /\ ptStdout \o ptPtmx = SubSeq(Printed, 1, Len(ptStdout) + Len(ptPtmx))
  /\ (ptEnd = "hup" /\ ptUser = "there") => ptPtmx = <<>>
  /\ (ptPc = "poll" /\ ~ptWinch /\ ~ptMissed) => ptPtySize = ptSize
  /\ ptPc = "done" => ptTerm = "own"

(* The client comes back to its prompt after the shell has exited, however *)
(* much it printed and whatever is typed.                                  *)
ReturnsAfterExit == (ptShell = "exited") ~> (ptPc = "done")
=============================================================================
