---------------------------- MODULE ShellProcess -----------------------------
(***************************************************************************)
(* shvrexec: the process behind a tunnel, with pipes (runCmd, QProcess) or *)
(* with a pseudoterminal (runPtyCmd, ptyprocess.cpp).                      *)
(*                                                                         *)
(* Tunnel models the tunnel and takes the shell as one that reads and      *)
(* writes; this module is about what lies between: the start that may      *)
(* fail, the non blocking write to the terminal, the output which is still *)
(* unread when the process ends.  Bytes are counted.                       *)
(***************************************************************************)
EXTENDS Integers, Sequences, FiniteSets

CONSTANTS
  PtySize,   \* bytes the terminal takes before the process reads them
  MaxBytes,  \* bound: bytes typed, and bytes written to each channel
  MaxChunk   \* bound: bytes in a message or in a write

ShellProcessAssumption == PtySize \in Nat \ {0} /\ MaxBytes \in Nat /\ MaxChunk \in Nat \ {0}

Channels == {1, 2}    \* standard output and error; a terminal has only the first

VARIABLES
  kind,     \* "none", "cmd" (m_cmdProc) or "pty" (m_ptyCmdProc)
  proc,     \* "none", "starting", "running", "failed", "finished"
  typed,    \* bytes that came through the tunnel
  stdin,    \* the numbers of the bytes that wait for the process
  fed,      \* the number of the last byte it has read
  hole,     \* has it read a byte after one that it never gets?
  dropped,  \* bytes that a write did not take, which the log tells
  wrote, unread, sent,   \* bytes of a channel: written, not read yet, sent through the tunnel
  up,       \* the connection to the broker
  app       \* "up", "closing" (the tunnel is closed, 10 ms are left), "quit"

spVars == <<kind, proc, typed, stdin, fed, hole, dropped, wrote, unread, sent, up, app>>
processVars == <<typed, stdin, fed, hole, dropped, wrote>>

Zero == [c \in Channels |-> 0]

TypeOK ==
  /\ kind \in {"none", "cmd", "pty"} /\ proc \in {"none", "starting", "running", "failed", "finished"}
  /\ {typed, fed, dropped} \subseteq 0 .. MaxBytes
  /\ {wrote, unread, sent} \subseteq [Channels -> 0 .. MaxBytes]
  /\ {up, hole} \subseteq BOOLEAN /\ app \in {"up", "closing", "quit"}

Init ==
  /\ kind = "none" /\ proc = "none" /\ typed = 0 /\ stdin = <<>> /\ fed = 0 /\ hole = FALSE /\ dropped = 0
  /\ wrote = Zero /\ unread = Zero /\ sent = Zero /\ up = TRUE /\ app = "up"

CloseAndQuit == app' = IF app = "up" THEN "closing" ELSE app

(***************************************************************************)
(* The start.  An exception of openPty leaves the program; one of          *)
(* setupProcess ends the child, whose end is told like any other.  A start *)
(* that fails is only logged.                                              *)
(***************************************************************************)
RunCmd ==
  /\ app = "up" /\ kind = "none"
  /\ kind' = "cmd" /\ proc' = "starting"
  /\ UNCHANGED <<processVars, unread, sent, up, app>>

OpenPty(ok) == IF ok THEN proc' = "starting" /\ app' = "up" ELSE proc' = "none" /\ app' = "quit"

RunPtyCmd ==
  /\ app = "up" /\ kind = "none"
  /\ kind' = "pty"
  /\ \E ok \in BOOLEAN : OpenPty(ok)
  /\ UNCHANGED <<processVars, unread, sent, up>>

(* runPtyCmd of what is neither a string nor a list: it closes the tunnel  *)
(* and goes on.                                                            *)
InvalidPtyCmd ==
  /\ app = "up" /\ kind = "none"
  /\ kind' = "pty" /\ proc' = "failed" /\ CloseAndQuit
  /\ UNCHANGED <<processVars, unread, sent, up>>

SetupProcess ==
  /\ proc = "starting" /\ app # "quit"
  /\ proc' \in {"running", "failed"} \cup (IF kind = "pty" THEN {"finished"} ELSE {})
  /\ IF proc' = "finished" THEN CloseAndQuit ELSE UNCHANGED app
  /\ UNCHANGED <<kind, processVars, unread, sent, up>>

(***************************************************************************)
(* Standard input: writeCmdProcessStdIn.                                   *)
(***************************************************************************)
Chunk(n) == [i \in 1 .. n |-> typed + i]

WriteStdIn(n) ==
  LET room == CASE proc \notin {"starting", "running"} -> 0
                [] proc \in {"starting", "running"} /\ kind = "cmd" -> n
                [] OTHER -> PtySize - Len(stdin)
      taken == IF n <= room THEN n ELSE room
  IN  /\ stdin' = stdin \o SubSeq(Chunk(n), 1, taken)
      /\ dropped' = dropped + (n - taken)

DataReceived ==
  /\ app # "quit" /\ up /\ kind # "none"
  /\ \E n \in 1 .. MaxChunk :
       /\ typed + n <= MaxBytes /\ typed' = typed + n
       /\ WriteStdIn(n)
  /\ UNCHANGED <<kind, proc, fed, hole, wrote, unread, sent, up, app>>

(***************************************************************************)
(* Standard output and error.                                              *)
(***************************************************************************)
(* sendProcessOutput: without a broker the output is thrown away and the   *)
(* program quits.                                                          *)
SendProcessOutput(sent0, c, n) == [sent0 EXCEPT ![c] = IF up THEN @ + n ELSE @]
QuitUnlessUp == app' = IF up THEN app ELSE "quit"

(* onReadyReadProcessStandardOutput, onReadyReadProcessStandardError,      *)
(* onReadyReadMasterPty: what is there is read at once.                    *)
SwappedChannels(s) == SendProcessOutput(SendProcessOutput(s, 2, unread[1]), 1, unread[2])

OnReadyRead(s) == SendProcessOutput(SendProcessOutput(s, 1, unread[1]), 2, unread[2])

ReadyRead ==
  /\ app # "quit" /\ unread # Zero /\ proc = "running"
  /\ sent' = OnReadyRead(sent) /\ unread' = Zero
  /\ QuitUnlessUp
  /\ UNCHANGED <<kind, proc, processVars, up>>

(* finished: a QProcess has told all its output before, a terminal with    *)
(* output is disconnected.                                                 *)
Finished ==
  /\ proc = "running" /\ app # "quit"
  /\ proc' = "finished"
  /\ IF kind = "cmd" THEN sent' = OnReadyRead(sent) /\ unread' = Zero ELSE UNCHANGED <<sent, unread>>
  /\ IF kind = "cmd" /\ unread # Zero /\ ~up THEN app' = "quit" ELSE CloseAndQuit
  /\ UNCHANGED <<kind, processVars, up>>

(***************************************************************************)
(* The end, the process, and the connection.                               *)
(***************************************************************************)
Quit ==
  /\ app = "closing" /\ app' = "quit"
  /\ UNCHANGED <<kind, proc, processVars, unread, sent, up>>

Inactivity ==
  /\ app = "up" /\ CloseAndQuit
  /\ UNCHANGED <<kind, proc, processVars, unread, sent, up>>

SocketDisconnected ==
  /\ app # "quit" /\ up
  /\ up' = FALSE /\ app' \in {app, "quit"}   \* the signal may come after some output
  /\ UNCHANGED <<kind, proc, processVars, unread, sent>>

ProcessReads ==
  /\ proc = "running" /\ stdin # <<>>
  /\ fed' = Head(stdin) /\ stdin' = Tail(stdin)
  /\ hole' = (hole \/ Head(stdin) # fed + 1)
  /\ UNCHANGED <<kind, proc, typed, dropped, wrote, unread, sent, up, app>>

ProcessWrites ==
  /\ proc = "running" /\ app # "quit"
  /\ \E c \in Channels, n \in 1 .. MaxChunk :
       /\ kind = "pty" => c = 1
       /\ wrote[c] + n <= MaxBytes
       /\ wrote' = [wrote EXCEPT ![c] = @ + n] /\ unread' = [unread EXCEPT ![c] = @ + n]
  /\ UNCHANGED <<kind, proc, typed, stdin, fed, hole, dropped, sent, up, app>>

Next ==
  \/ RunCmd \/ RunPtyCmd \/ InvalidPtyCmd \/ SetupProcess \/ DataReceived \/ ReadyRead \/ Finished
  \/ Quit \/ Inactivity \/ SocketDisconnected \/ ProcessReads \/ ProcessWrites

Spec == Init /\ [][Next]_spVars

(* When the end of a command closes its tunnel, each channel has got all   *)
(* the command wrote to it; and its input has no hole unless the log tells *)
(* of a write that was too short.                                          *)
NothingUntold ==
  /\ kind = "cmd" /\ proc = "finished" /\ up => sent = wrote
  /\ hole => kind = "pty" /\ dropped > 0
=============================================================================
