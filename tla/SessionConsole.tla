---------------------------- MODULE SessionConsole ----------------------------
(***************************************************************************)
(* The terminal and the session log (src/console_file_log.h): standard     *)
(* output mirrored line by line into the log, and the dashboard, which     *)
(* mutes it, takes the alternate screen and starts a thread that redraws   *)
(* the tuning screen until mining begins.                                  *)
(*                                                                         *)
(* A line is written in pieces, the last of which ends it.  The log is     *)
(* the sequence of pieces in the file.  con.alt and con.echo belong to the *)
(* terminal and outlive the process; con.found is how it was at the start. *)
(***************************************************************************)
EXTENDS Naturals, Sequences, FiniteSets

CONSTANTS
    Writers,    \* threads that print: the main thread and GPU threads
    Pieces      \* insertions that make a line

VARIABLE con

FreshConsole(alt, echo, mirror) ==
    [found |-> [alt |-> alt, echo |-> echo], alt |-> alt, echo |-> echo,
     mirror |-> mirror, muted |-> FALSE, active |-> FALSE,
     refresh |-> FALSE, halt |-> FALSE, thread |-> "none",
     mined |-> FALSE, late |-> 0, stray |-> FALSE,
     pending |-> [w \in Writers |-> <<>>], count |-> [w \in Writers |-> 0], log |-> <<>>]
-----------------------------------------------------------------------------
(* Lines.                                                                  *)

\* Insertion n ends a line when it is a multiple of Pieces.
EndsLine(n) == n % Pieces = 0

\* One insertion: a line stays in its thread's buffer until it ends.
(* Mutant: every insertion goes to the file at once. *)
MutWritePiece(w) ==
    con' = [con EXCEPT !.count[w] = @ + 1,
                       !.log = IF con.mirror THEN Append(@, <<w, con.count[w] + 1>>) ELSE @]

WritePiece(w) ==
    LET n == con.count[w] + 1
        text == Append(con.pending[w], <<w, n>>)
    IN  con' = [con EXCEPT !.count[w] = n,
                           !.pending[w] = IF EndsLine(n) THEN <<>> ELSE text,
                           !.log = IF EndsLine(n) /\ con.mirror THEN @ \o text ELSE @]

\* flush: what the thread has buffered of a line is written as well.
Flush(w) == [con EXCEPT !.pending[w] = <<>>,
                        !.log = IF con.mirror THEN @ \o con.pending[w] ELSE @]
-----------------------------------------------------------------------------
(* The dashboard.                                                          *)

\* A frame of the tuning screen reaches the terminal.
TuningFrame(c) ==
    [c EXCEPT !.late = IF c.mined /\ @ < 2 THEN @ + 1 ELSE @, !.stray = @ \/ ~c.alt]

OpenDashboard ==
    con' = TuningFrame([con EXCEPT !.echo = FALSE, !.active = TRUE, !.muted = TRUE,
                                   !.alt = TRUE, !.refresh = TRUE, !.thread = "check"])

RefreshOver == con.halt \/ ~con.refresh

\* The loop of the refresh thread: check, sleep a second, check, render.
RefresherCheck ==
    /\ con.thread \in {"check", "asleep"}
    /\ con' = [con EXCEPT !.thread = IF RefreshOver THEN "gone"
                                     ELSE IF @ = "check" THEN "asleep" ELSE "render"]

\* The renderer tests the flags once more before it composes the frame ...
RefresherRender ==
    /\ con.thread = "render"
    /\ con' = [con EXCEPT !.thread = IF con.active /\ con.refresh THEN "draw" ELSE "check"]

\* ... and writes it.
RefresherDraw ==
    /\ con.thread = "draw"
    /\ con' = [TuningFrame(con) EXCEPT !.thread = "check"]

Refresher == RefresherCheck \/ RefresherRender \/ RefresherDraw

\* A mining frame: the tuning screen is finished first.
(* Mutant: the refresh thread is not told. *)
MutDrawMiningFrame ==
    con' = [con EXCEPT !.mined = TRUE, !.stray = @ \/ ~con.alt]

DrawMiningFrame ==
    con' = [con EXCEPT !.refresh = FALSE, !.mined = TRUE, !.stray = @ \/ ~con.alt]

\* The destructor stops and joins the thread, then gives the screen back.
HaltRefresher == con' = [con EXCEPT !.halt = TRUE]

(* Mutant: the echo is switched on, whatever it was before. *)
MutCloseDashboard ==
    /\ con.thread = "gone"
    /\ con' = [con EXCEPT !.thread = "none", !.alt = FALSE, !.active = FALSE,
                          !.muted = FALSE, !.echo = TRUE]

CloseDashboard ==
    /\ con.thread = "gone"
    /\ con' = [con EXCEPT !.thread = "none", !.alt = FALSE, !.active = FALSE,
                          !.muted = FALSE, !.echo = con.found.echo]

\* The destructor of the log: the main thread's text is flushed, the streams
\* are given back to the terminal.
CloseLog(w) == con' = [Flush(w) EXCEPT !.mirror = FALSE]
-----------------------------------------------------------------------------
(* WholeLines: whatever order threads print in, the session log holds the  *)
(* lines of standard output unmixed.  The main thread flushes unfinished   *)
(* lines while it tunes, when no other thread prints.                      *)
WholeLines ==
    \A i \in 1 .. Len(con.log) - 1 :
        LET w == con.log[i][1]
            n == con.log[i][2]
        IN  EndsLine(n) \/ con.log[i + 1] = <<w, n + 1>>

(* ScreenHandover: once the mining dashboard has drawn a frame at most one *)
(* more frame of the tuning screen appears, one that was already composed, *)
(* and nothing is drawn while the terminal shows the normal screen.        *)
ScreenHandover == con.late <= 1 /\ ~con.stray
=============================================================================
