--------------------------- MODULE MinerProcessProofs ---------------------------
(***************************************************************************)
(* Proofs about a miner's process, for every machine, build and set of     *)
(* starts and of threads that print: the terminal and the session log      *)
(* (IInv), what it gives back at its end (GInv), the settings a CPU mines  *)
(* with (TInv), and the digests it computes with them (HInv).              *)
(***************************************************************************)
EXTENDS MinerProcess, FiniteSetTheorems, FunctionTheorems, SequenceTheorems,
        TLAPS

Early == {"configure", "firstRun", "prompt", "display"}

(* The console is a record of these fields; what was found at the start    *)
(* and whether lines are mirrored come from outside.                       *)
ConsoleType ==
    /\ con = [found |-> con.found, alt |-> con.alt, echo |-> con.echo,
              mirror |-> con.mirror, muted |-> con.muted, active |-> con.active,
              refresh |-> con.refresh, halt |-> con.halt, thread |-> con.thread,
              mined |-> con.mined, late |-> con.late, stray |-> con.stray,
              pending |-> con.pending, count |-> con.count, log |-> con.log]
    /\ con.active \in BOOLEAN /\ con.alt \in BOOLEAN /\ con.mined \in BOOLEAN
    /\ con.refresh \in BOOLEAN /\ con.stray \in BOOLEAN
    /\ con.late \in Nat
    /\ con.pending \in [Writers -> Seq(Writers \X Nat)]
    /\ con.count \in [Writers -> Nat]
    /\ con.log \in Seq(Writers \X Nat)

(* The refresh thread exists while the dashboard is open, and after a      *)
(* mining frame can end at most the drawing it had begun.                  *)
ScreenState ==
    /\ con.active <=> con.thread # "none"
    /\ con.active => con.alt
    /\ con.mined => ~con.refresh
    /\ con.late > 0 => con.mined /\ con.thread # "draw"
    /\ con.late <= 1 /\ ~con.stray
    /\ at \in Early => ~con.mined

(* What thread w has not written yet of its line follows on what it has.   *)
Buffered(w) ==
    /\ Len(con.pending[w]) <= con.count[w]
    /\ \A i \in 1 .. Len(con.pending[w]) :
        con.pending[w][i] = <<w, con.count[w] - Len(con.pending[w]) + i>>
    /\ EndsLine(con.count[w]) => con.pending[w] = <<>>
    /\ at \notin {"tuning", "mining"} => EndsLine(con.count[w])
    /\ at = "tuning" /\ w # Main => EndsLine(con.count[w])

(* The log ends with a line, or with a part of one that the main thread    *)
(* flushed while it tunes and goes on with.                                *)
LogEnd ==
    LET n == Len(con.log) IN
    n > 0 => \/ EndsLine(con.log[n][2])
             \/ /\ at = "tuning"
                /\ con.log[n] = <<Main, con.count[Main] - Len(con.pending[Main])>>

Unmirrored == ~con.mirror /\ at \notin {"statics", "off"} => con.log = <<>>

IInv ==
    /\ ConsoleType /\ ScreenState
    /\ \A w \in Writers : Buffered(w)
    /\ LogEnd /\ Unmirrored /\ WholeLines

--------------------------------------------------------------------------------
(* The console                                                             *)

LEMMA MainWrites == Main \in Writers /\ Pieces \in Nat \ {0}
  BY MinerProcessAssumption

LEMMA LineStarts == EndsLine(0)
  BY MainWrites DEF EndsLine

(* A start and a kill leave a console nothing was drawn or printed on.     *)
LEMMA FreshStep ==
    ASSUME NEW alt \in BOOLEAN, NEW echo, NEW mirror, con' = FreshConsole(alt, echo, mirror)
    PROVE  IInv'
  <1>1. con' = [found |-> [alt |-> alt, echo |-> echo], alt |-> alt, echo |-> echo,
                mirror |-> mirror, muted |-> FALSE, active |-> FALSE,
                refresh |-> FALSE, halt |-> FALSE, thread |-> "none",
                mined |-> FALSE, late |-> 0, stray |-> FALSE,
                pending |-> [w \in Writers |-> <<>>], count |-> [w \in Writers |-> 0],
                log |-> <<>>]
    BY DEF FreshConsole
  <1>2. ConsoleType'
    BY <1>1 DEF ConsoleType
  <1>3. ScreenState'
    BY <1>1 DEF ScreenState
  <1>4. ASSUME NEW w \in Writers PROVE Buffered(w)'
    <2>1. con'.pending[w] = <<>> /\ con'.count[w] = 0 /\ Len(con'.pending[w]) = 0
      BY <1>1
    <2>2. EndsLine(con.count[w])'
      BY <2>1, LineStarts DEF EndsLine
    <2> QED  BY <2>1, <2>2 DEF Buffered
  <1>5. con'.log = <<>> /\ Len(con'.log) = 0
    BY <1>1
  <1>6. LogEnd' /\ Unmirrored' /\ WholeLines'
    BY <1>5 DEF LogEnd, Unmirrored, WholeLines
  <1> QED  BY <1>2, <1>3, <1>4, <1>6 DEF IInv

(* The main thread moves on, and neither prints nor draws.  From the       *)
(* tuning and from mining it moves only where lines have ended.            *)
Onward ==
    \/ at' = at
    \/ /\ at \notin {"tuning", "mining", "statics", "off"}
       /\ at' \in Early => at \in Early
    \/ at = "tuning" /\ at' \in {"devices", "closing"} /\ EndsLine(con.count[Main])
    \/ at = "mining" /\ at' = "closing" /\ \A w \in Writers : EndsLine(con.count[w])
    \/ at = "statics" /\ at' = "off"

LEMMA SameScreen ==
    ASSUME IInv, Onward, con'.active = con.active, con'.thread = con.thread,
           con'.alt = con.alt, con'.mined = con.mined, con'.refresh = con.refresh,
           con'.late = con.late, con'.stray = con.stray
    PROVE  ScreenState'
  <1>1. at' \in Early => ~con.mined
    BY DEF IInv, ScreenState, Onward, Early
  <1>2. ScreenState
    BY DEF IInv
  <1> QED  BY <1>1, <1>2 DEF ScreenState

LEMMA SameLines ==
    ASSUME IInv, Onward, con'.pending = con.pending, con'.count = con.count,
           con'.log = con.log, con'.mirror = con.mirror
    PROVE  (\A w \in Writers : Buffered(w)') /\ LogEnd' /\ Unmirrored' /\ WholeLines'
  <1>1. ASSUME NEW w \in Writers PROVE Buffered(w)'
    <2>1. Buffered(w)
      BY DEF IInv
    <2>2. /\ at' \notin {"tuning", "mining"} => EndsLine(con.count[w])
          /\ at' = "tuning" /\ w # Main => EndsLine(con.count[w])
      BY <2>1 DEF Buffered, Onward
    <2>3. EndsLine(con.count[w])' <=> EndsLine(con.count[w])
      BY DEF EndsLine
    <2> QED  BY <2>1, <2>2, <2>3 DEF Buffered
  <1>2. LogEnd'
    <2>1. SUFFICES ASSUME Len(con.log) > 0, ~EndsLine(con.log[Len(con.log)][2])
                   PROVE  at' = "tuning" /\ con.log[Len(con.log)] =
                              <<Main, con.count[Main] - Len(con.pending[Main])>>
      BY DEF LogEnd, EndsLine
    <2>2. /\ at = "tuning"
          /\ con.log[Len(con.log)] = <<Main, con.count[Main] - Len(con.pending[Main])>>
      BY <2>1 DEF IInv, LogEnd
    <2>3. CASE at' = at
      BY <2>2, <2>3
    <2>4. CASE EndsLine(con.count[Main])
      <3>1. con.pending[Main] = <<>> /\ con.count[Main] \in Nat
        BY <2>4, MainWrites DEF IInv, Buffered, ConsoleType
      <3>2. Len(con.pending[Main]) = 0
        BY <3>1
      <3>3. con.log[Len(con.log)][2] = con.count[Main]
        BY <2>2, <3>1, <3>2
      <3> QED  BY <2>1, <2>4, <3>3
    <2> QED  BY <2>2, <2>3, <2>4 DEF Onward
  <1>3. Unmirrored'
    BY DEF IInv, Unmirrored, Onward
  <1>4. WholeLines'
    BY DEF IInv, WholeLines, EndsLine
  <1> QED  BY <1>1, <1>2, <1>3, <1>4

LEMMA SameConsole ==
    ASSUME IInv, Onward, UNCHANGED con
    PROVE  IInv'
  <1>1. ConsoleType'
    BY DEF IInv, ConsoleType
  <1>2. ScreenState'
    BY SameScreen
  <1> QED  BY <1>1, <1>2, SameLines DEF IInv

--------------------------------------------------------------------------------
(* The dashboard                                                           *)

LEMMA OpenStep ==
    ASSUME IInv, at = "display", OpenDashboard, Onward
    PROVE  IInv'
  <1>1. ConsoleType /\ ScreenState /\ ~con.mined
    BY DEF IInv, ScreenState, Early
  <1>2. PICK c : c = [con EXCEPT !.echo = FALSE, !.active = TRUE, !.muted = TRUE,
                                 !.alt = TRUE, !.refresh = TRUE, !.thread = "check"]
    OBVIOUS
  <1>3. con' = [c EXCEPT !.late = IF c.mined /\ @ < 2 THEN @ + 1 ELSE @,
                         !.stray = @ \/ ~c.alt]
    BY <1>2 DEF OpenDashboard, TuningFrame
  <1>4. /\ c.mined = con.mined /\ c.late = con.late /\ c.stray = con.stray /\ c.alt = TRUE
        /\ c = [found |-> con.found, alt |-> TRUE, echo |-> FALSE,
                mirror |-> con.mirror, muted |-> TRUE, active |-> TRUE,
                refresh |-> TRUE, halt |-> con.halt, thread |-> "check",
                mined |-> con.mined, late |-> con.late, stray |-> con.stray,
                pending |-> con.pending, count |-> con.count, log |-> con.log]
    BY <1>1, <1>2 DEF ConsoleType
  <1>5. PICK s \in BOOLEAN : s = (con.stray \/ ~TRUE)
    OBVIOUS
  <1>6. con' = [found |-> con.found, alt |-> TRUE, echo |-> FALSE,
                mirror |-> con.mirror, muted |-> TRUE, active |-> TRUE,
                refresh |-> TRUE, halt |-> con.halt, thread |-> "check",
                mined |-> con.mined, late |-> con.late, stray |-> s,
                pending |-> con.pending, count |-> con.count, log |-> con.log]
    BY <1>1, <1>3, <1>4, <1>5
  <1>7. ConsoleType'
    BY <1>1, <1>6 DEF ConsoleType
  <1>8. ScreenState'
    <2>1. ~s
      BY <1>1, <1>5 DEF ScreenState
    <2> QED  BY <1>1, <1>6, <2>1 DEF ScreenState
  <1>9. con'.pending = con.pending /\ con'.count = con.count /\ con'.log = con.log
        /\ con'.mirror = con.mirror
    BY <1>6
  <1> QED  BY <1>7, <1>8, <1>9, SameLines DEF IInv

LEMMA MiningFrameStep ==
    ASSUME IInv, MiningFrame
    PROVE  IInv'
  <1>1. ConsoleType /\ ScreenState
    BY DEF IInv
  <1>2. con.active /\ con.alt /\ ~con.stray /\ at = "mining" /\ at' = at
    BY <1>1 DEF MiningFrame, ScreenState, processVars
  <1>3. PICK s \in BOOLEAN : s = (con.stray \/ ~con.alt)
    OBVIOUS
  <1>4. con' = [con EXCEPT !.refresh = FALSE, !.mined = TRUE, !.stray = s]
    BY <1>3 DEF MiningFrame, DrawMiningFrame
  <1>5. con' = [found |-> con.found, alt |-> con.alt, echo |-> con.echo,
                mirror |-> con.mirror, muted |-> con.muted, active |-> con.active,
                refresh |-> FALSE, halt |-> con.halt, thread |-> con.thread,
                mined |-> TRUE, late |-> con.late, stray |-> s,
                pending |-> con.pending, count |-> con.count, log |-> con.log]
    BY <1>1, <1>4 DEF ConsoleType
  <1>6. ConsoleType'
    BY <1>1, <1>5 DEF ConsoleType
  <1>7. ScreenState'
    <2>1. ~s
      BY <1>2, <1>3
    <2>2. at' \notin Early
      BY <1>2 DEF Early
    <2> QED  BY <1>1, <1>2, <1>5, <2>1, <2>2 DEF ScreenState
  <1>8. con'.pending = con.pending /\ con'.count = con.count /\ con'.log = con.log
        /\ con'.mirror = con.mirror
    BY <1>5
  <1> QED  BY <1>2, <1>6, <1>7, <1>8, SameLines DEF IInv, Onward

(* The refresh thread: a frame composed before mining began is the last.   *)
LEMMA RefreshStep ==
    ASSUME IInv, RefreshThread
    PROVE  IInv'
  <1>1. ConsoleType /\ ScreenState /\ at' = at
    BY DEF IInv, RefreshThread, processVars
  <1>2. ASSUME NEW t, NEW n, con.thread # "none", t \notin {"none"},
               con' = [con EXCEPT !.thread = t, !.late = n], n \in Nat, n <= 1,
               n > 0 => con.mined /\ t # "draw"
        PROVE  IInv'
    <2>1. con' = [found |-> con.found, alt |-> con.alt, echo |-> con.echo,
                  mirror |-> con.mirror, muted |-> con.muted, active |-> con.active,
                  refresh |-> con.refresh, halt |-> con.halt, thread |-> t,
                  mined |-> con.mined, late |-> n, stray |-> con.stray,
                  pending |-> con.pending, count |-> con.count, log |-> con.log]
      BY <1>1, <1>2 DEF ConsoleType
    <2>2. ConsoleType'
      BY <1>1, <1>2, <2>1 DEF ConsoleType
    <2>3. ScreenState'
      BY <1>1, <1>2, <2>1 DEF ScreenState
    <2>4. con'.pending = con.pending /\ con'.count = con.count /\ con'.log = con.log
          /\ con'.mirror = con.mirror
      BY <2>1
    <2> QED  BY <1>1, <2>2, <2>3, <2>4, SameLines DEF IInv, Onward
  <1>3. con = [con EXCEPT !.late = con.late]
    BY <1>1 DEF ConsoleType
  <1>4. CASE RefresherCheck
    <2>1. PICK t : /\ t \in {"gone", "asleep", "render"}
                   /\ con' = [con EXCEPT !.thread = t]
      BY <1>4, <1>1 DEF RefresherCheck, ConsoleType
    <2>2. con.thread # "none" /\ t # "draw"
      BY <1>4, <2>1 DEF RefresherCheck
    <2>3. con' = [con EXCEPT !.thread = t, !.late = con.late]
      BY <1>1, <2>1 DEF ConsoleType
    <2> QED  BY <1>1, <1>2, <2>1, <2>2, <2>3 DEF ScreenState, ConsoleType
  <1>5. CASE RefresherRender
    <2>1. PICK t : /\ t \in {"draw", "check"} /\ (t = "draw" => con.refresh)
                   /\ con' = [con EXCEPT !.thread = t]
      BY <1>5 DEF RefresherRender
    <2>2. con.thread # "none"
      BY <1>5 DEF RefresherRender
    <2>3. con' = [con EXCEPT !.thread = t, !.late = con.late]
      BY <1>1, <2>1 DEF ConsoleType
    <2>4. con.late > 0 => t # "draw"
      BY <1>1, <2>1 DEF ScreenState
    <2> QED  BY <1>1, <1>2, <2>1, <2>2, <2>3, <2>4 DEF ScreenState, ConsoleType
  <1>6. CASE RefresherDraw
    <2>1. con.thread = "draw" /\ con.alt /\ ~con.stray /\ con.late = 0
      BY <1>1, <1>6 DEF RefresherDraw, ScreenState, ConsoleType
    <2>2. PICK n \in 0..1 : n = (IF con.mined /\ con.late < 2 THEN con.late + 1 ELSE con.late)
                           /\ (n > 0 => con.mined)
      BY <2>1
    <2>3. PICK s \in BOOLEAN : s = (con.stray \/ ~con.alt)
      OBVIOUS
    <2>4. con' = [[con EXCEPT !.late = n, !.stray = s] EXCEPT !.thread = "check"]
      BY <1>6, <2>2, <2>3 DEF RefresherDraw, TuningFrame
    <2>5. s = con.stray
      BY <2>1, <2>3, <1>1 DEF ConsoleType
    <2>6. con' = [con EXCEPT !.thread = "check", !.late = n]
      BY <1>1, <2>4, <2>5 DEF ConsoleType
    <2>7. n \in Nat /\ n <= 1 /\ "check" # "draw" /\ "check" \notin {"none"}
          /\ con.thread # "none"
      BY <2>1, <2>2
    <2> QED  BY <1>2, <2>2, <2>6, <2>7
  <1> QED  BY <1>4, <1>5, <1>6 DEF RefreshThread, Refresher

--------------------------------------------------------------------------------
(* Lines                                                                   *)

Whole(s) ==
    \A i \in 1 .. Len(s) - 1 : EndsLine(s[i][2]) \/ s[i + 1] = <<s[i][1], s[i][2] + 1>>

LEMMA WholeLog == WholeLines <=> Whole(con.log)
  BY DEF WholeLines, Whole

(* A thread's next pieces may follow where a line has ended, or where the  *)
(* log ends with the piece before them.                                    *)
LEMMA AppendedPieces ==
    ASSUME NEW s \in Seq(Writers \X Nat), NEW text \in Seq(Writers \X Nat),
           NEW w \in Writers, NEW k \in Nat,
           \A i \in 1 .. Len(text) : text[i] = <<w, k + i>>,
           Whole(s), Len(s) > 0 => EndsLine(s[Len(s)][2]) \/ s[Len(s)] = <<w, k>>
    PROVE  Whole(s \o text)
  <1>0. PICK c, a, b : c = s \o text /\ a = Len(s) /\ b = Len(text)
    OBVIOUS
  <1>1. /\ a \in Nat /\ b \in Nat /\ Len(c) = a + b
        /\ \A i \in 1 .. a : c[i] = s[i]
        /\ \A i \in 1 .. b : c[a + i] = <<w, k + i>>
    <2>1. /\ a \in Nat /\ b \in Nat /\ Len(c) = a + b
          /\ \A i \in 1 .. a : c[i] = s[i]
          /\ \A i \in 1 .. b : c[a + i] = text[i]
      BY <1>0
    <2> QED  BY <1>0, <2>1
  <1>2. SUFFICES ASSUME NEW i \in 1 .. (a + b) - 1
                 PROVE  EndsLine(c[i][2]) \/ c[i + 1] = <<c[i][1], c[i][2] + 1>>
    BY <1>0, <1>1 DEF Whole
  <1>3. CASE i < a
    <2>1. i \in 1 .. a - 1 /\ i \in 1 .. a /\ i + 1 \in 1 .. a
      BY <1>1, <1>3
    <2>2. c[i] = s[i] /\ c[i + 1] = s[i + 1]
      BY <1>1, <2>1
    <2> QED  BY <1>0, <2>1, <2>2 DEF Whole
  <1>4. CASE i = a
    <2>1. a > 0 /\ i \in 1 .. a /\ 1 \in 1 .. b
      BY <1>1, <1>4
    <2>2. c[i] = s[i] /\ c[i + 1] = <<w, k + 1>>
      BY <1>1, <1>4, <2>1
    <2>3. EndsLine(s[i][2]) \/ s[i] = <<w, k>>
      BY <1>0, <1>4, <2>1
    <2> QED  BY <2>2, <2>3
  <1>5. CASE i > a
    <2>1. PICK j \in Nat : i = a + j /\ j \in 1 .. b /\ j + 1 \in 1 .. b
      <3>1. i - a \in 1 .. b /\ (i - a) + 1 \in 1 .. b /\ i = a + (i - a)
        BY <1>1, <1>5
      <3> QED  BY <1>1, <3>1
    <2>2. c[i] = <<w, k + j>> /\ c[i + 1] = <<w, k + (j + 1)>>
      <3>1. i + 1 = a + (j + 1)
        BY <1>1, <2>1
      <3> QED  BY <1>1, <2>1, <3>1
    <2>3. k + (j + 1) = (k + j) + 1
      BY <2>1
    <2> QED  BY <2>2, <2>3
  <1> QED  BY <1>1, <1>3, <1>4, <1>5

LEMMA LastAppended ==
    ASSUME NEW S, NEW s \in Seq(S), NEW t \in Seq(S), Len(t) > 0
    PROVE  Len(s \o t) \in Nat /\ Len(s \o t) > 0 /\ (s \o t)[Len(s \o t)] = t[Len(t)]
  <1>1. PICK a \in Nat, b \in Nat : a = Len(s) /\ b = Len(t) /\ b > 0 /\ b \in 1 .. b
    OBVIOUS
  <1>2. Len(s \o t) = a + b /\ (s \o t)[a + b] = t[b]
    BY <1>1
  <1> QED  BY <1>1, <1>2

(* A piece is printed: it waits, or it ends a line, which is written.      *)
LEMMA PrintStep ==
    ASSUME IInv, NEW w \in Writers, PrintPiece(w)
    PROVE  IInv'
  <1>1. /\ ConsoleType /\ ScreenState /\ (\A v \in Writers : Buffered(v)) /\ LogEnd
        /\ Unmirrored /\ Whole(con.log)
    BY WholeLog DEF IInv
  <1>2. at' = at /\ (at = "mining" \/ (at = "tuning" /\ w = Main))
    BY DEF PrintPiece, MayPrint, processVars
  <1>3. PICK n, text : n = con.count[w] + 1 /\ text = Append(con.pending[w], <<w, n>>)
    OBVIOUS
  <1>4. PICK l, k : l = Len(con.pending[w]) /\ k = con.count[w] - l
    OBVIOUS
  <1>5. /\ con.count[w] \in Nat /\ con.pending[w] \in Seq(Writers \X Nat) /\ l \in Nat
        /\ l <= con.count[w] /\ k \in Nat /\ n \in Nat /\ n = k + (l + 1)
    BY <1>1, <1>3, <1>4 DEF ConsoleType, Buffered
  <1>6. /\ text \in Seq(Writers \X Nat) /\ Len(text) = l + 1
        /\ \A i \in 1 .. l + 1 : text[i] = <<w, k + i>>
    <2>1. text \in Seq(Writers \X Nat) /\ Len(text) = l + 1
      BY <1>3, <1>4, <1>5
    <2>2. ASSUME NEW i \in 1 .. l + 1 PROVE text[i] = <<w, k + i>>
      <3>1. CASE i = l + 1
        <4>1. text[Len(con.pending[w]) + 1] = <<w, n>>
          BY <1>3, <1>5
        <4> QED  BY <1>4, <1>5, <3>1, <4>1
      <3>2. CASE i # l + 1
        <4>1. i \in 1 .. l
          BY <1>5, <3>2
        <4>2. text[i] = con.pending[w][i]
          BY <1>3, <1>4, <1>5, <4>1
        <4>3. con.pending[w][i] = <<w, con.count[w] - l + i>>
          BY <1>1, <1>4, <4>1 DEF Buffered
        <4> QED  BY <1>4, <4>2, <4>3
      <3> QED  BY <3>1, <3>2
    <2> QED  BY <2>1, <2>2
  <1>7. PICK p, g : /\ p = (IF EndsLine(n) THEN <<>> ELSE text)
                    /\ g = (IF EndsLine(n) /\ con.mirror THEN con.log \o text ELSE con.log)
    OBVIOUS
  <1>8. con' = [con EXCEPT !.count[w] = n, !.pending[w] = p, !.log = g]
    BY <1>3, <1>7 DEF PrintPiece, WritePiece
  <1>9. con' = [found |-> con.found, alt |-> con.alt, echo |-> con.echo,
                mirror |-> con.mirror, muted |-> con.muted, active |-> con.active,
                refresh |-> con.refresh, halt |-> con.halt, thread |-> con.thread,
                mined |-> con.mined, late |-> con.late, stray |-> con.stray,
                pending |-> [con.pending EXCEPT ![w] = p],
                count |-> [con.count EXCEPT ![w] = n], log |-> g]
    BY <1>1, <1>8 DEF ConsoleType
  <1>10. p \in Seq(Writers \X Nat) /\ g \in Seq(Writers \X Nat) /\ con.log \in Seq(Writers \X Nat)
    BY <1>1, <1>6, <1>7 DEF ConsoleType
  <1>11. ConsoleType'
    BY <1>1, <1>5, <1>9, <1>10 DEF ConsoleType
  <1>12. ScreenState'
    BY <1>2, <1>9, SameScreen DEF Onward
  <1>13. /\ con'.count[w] = n /\ con'.pending[w] = p
         /\ \A v \in Writers : v # w => /\ con'.count[v] = con.count[v]
                                       /\ con'.pending[v] = con.pending[v]
    BY <1>1, <1>9 DEF ConsoleType
  <1>14. ASSUME NEW v \in Writers PROVE Buffered(v)'
    <2>1. CASE v # w
      <3>1. con'.count[v] = con.count[v] /\ con'.pending[v] = con.pending[v] /\ Buffered(v)
        BY <1>1, <1>13, <2>1
      <3> QED  BY <1>2, <3>1 DEF Buffered, EndsLine
    <2>2. CASE v = w
      <3>1. CASE EndsLine(n)
        <4>1. p = <<>> /\ Len(p) = 0
          BY <1>7, <3>1
        <4>2. EndsLine(con.count[v])'
          BY <1>13, <2>2, <3>1 DEF EndsLine
        <4>3. 0 <= n
          BY <1>5
        <4> QED  BY <1>13, <2>2, <4>1, <4>2, <4>3 DEF Buffered
      <3>2. CASE ~EndsLine(n)
        <4>1. p = text /\ Len(p) = l + 1
          BY <1>6, <1>7, <3>2
        <4>2. ~EndsLine(con.count[v])'
          BY <1>13, <2>2, <3>2 DEF EndsLine
        <4>3. l + 1 <= n /\ n - (l + 1) = k
          BY <1>5
        <4>4. \A i \in 1 .. l + 1 : p[i] = <<w, n - (l + 1) + i>>
          BY <1>6, <4>1, <4>3
        <4> QED  BY <1>2, <1>13, <2>2, <4>1, <4>2, <4>3, <4>4 DEF Buffered
      <3> QED  BY <3>1, <3>2
    <2> QED  BY <2>1, <2>2
  <1>15. Len(con.log) > 0 => EndsLine(con.log[Len(con.log)][2])
                             \/ con.log[Len(con.log)] = <<w, k>>
    BY <1>1, <1>2, <1>4 DEF LogEnd
  <1>16. CASE EndsLine(n) /\ con.mirror
    <2>1. g = con.log \o text /\ Whole(g)
      <3>1. \A i \in 1 .. Len(text) : text[i] = <<w, k + i>>
        BY <1>6
      <3>2. Whole(con.log \o text)
        BY <1>1, <1>5, <1>6, <1>10, <1>15, <3>1, AppendedPieces, Zenon
      <3> QED  BY <1>7, <1>16, <3>2
    <2>2. Len(g) \in Nat /\ Len(g) > 0 /\ g[Len(g)] = <<w, n>>
      <3>1. Len(text) > 0 /\ text[Len(text)] = <<w, n>>
        <4>1. l + 1 \in 1 .. l + 1 /\ l + 1 > 0
          BY <1>5
        <4>2. text[l + 1] = <<w, k + (l + 1)>>
          BY <1>6, <4>1
        <4> QED  BY <1>5, <1>6, <4>1, <4>2
      <3> QED  BY <1>6, <1>10, <2>1, <3>1, LastAppended
    <2>3. LogEnd'
      BY <1>9, <1>16, <2>2 DEF LogEnd, EndsLine
    <2>4. Unmirrored' /\ WholeLines'
      BY <1>9, <1>16, <2>1 DEF Unmirrored, WholeLines, Whole, EndsLine
    <2> QED  BY <1>11, <1>12, <1>14, <2>3, <2>4 DEF IInv
  <1>17. CASE ~(EndsLine(n) /\ con.mirror)
    <2>1. con'.log = con.log /\ con'.mirror = con.mirror
      BY <1>7, <1>9, <1>17
    <2>2. WholeLines' /\ Unmirrored'
      BY <1>1, <1>2, <2>1 DEF Unmirrored, WholeLines, Whole, EndsLine
    <2>3. LogEnd'
      <3>1. CASE ~con.mirror
        <4>1. con.log = <<>>
          BY <1>1, <1>2, <3>1 DEF Unmirrored
        <4> QED  BY <2>1, <4>1 DEF LogEnd
      <3>2. CASE w = Main /\ ~EndsLine(n)
        <4>1. p = text
          BY <1>7, <3>2
        <4>2. n - Len(p) = k
          BY <1>5, <1>6, <4>1
        <4>3. con'.count[Main] - Len(con'.pending[Main]) = con.count[Main] - Len(con.pending[Main])
          BY <1>4, <1>13, <3>2, <4>2
        <4> QED  BY <1>1, <1>2, <2>1, <4>3 DEF LogEnd, EndsLine
      <3>3. CASE w # Main
        BY <1>1, <1>2, <1>13, <2>1, <3>3, MainWrites DEF LogEnd, EndsLine
      <3> QED  BY <1>17, <3>1, <3>2, <3>3
    <2> QED  BY <1>11, <1>12, <1>14, <2>2, <2>3 DEF IInv
  <1> QED  BY <1>16, <1>17

(* The main thread flushes what it has of a line while it tunes.           *)
LEMMA FlushStep ==
    ASSUME IInv, FlushUnfinished
    PROVE  IInv'
  <1>1. /\ ConsoleType /\ ScreenState /\ (\A v \in Writers : Buffered(v)) /\ LogEnd
        /\ Unmirrored /\ Whole(con.log) /\ Main \in Writers
    BY WholeLog, MainWrites DEF IInv
  <1>2. at = "tuning" /\ at' = at /\ con' = Flush(Main) /\ con.pending[Main] # <<>>
    BY DEF FlushUnfinished, processVars
  <1>3. PICK text, k, g : /\ text = con.pending[Main] /\ k = con.count[Main] - Len(text)
                          /\ g = (IF con.mirror THEN con.log \o text ELSE con.log)
    OBVIOUS
  <1>4. /\ con.count[Main] \in Nat /\ text \in Seq(Writers \X Nat) /\ k \in Nat
        /\ con.log \in Seq(Writers \X Nat) /\ g \in Seq(Writers \X Nat)
        /\ Len(text) > 0 /\ k + Len(text) = con.count[Main]
    BY <1>1, <1>2, <1>3 DEF ConsoleType, Buffered
  <1>5. \A i \in 1 .. Len(text) : text[i] = <<Main, k + i>>
    BY <1>1, <1>3 DEF Buffered
  <1>6. con' = [found |-> con.found, alt |-> con.alt, echo |-> con.echo,
                mirror |-> con.mirror, muted |-> con.muted, active |-> con.active,
                refresh |-> con.refresh, halt |-> con.halt, thread |-> con.thread,
                mined |-> con.mined, late |-> con.late, stray |-> con.stray,
                pending |-> [con.pending EXCEPT ![Main] = <<>>],
                count |-> con.count, log |-> g]
    <2>1. con' = [con EXCEPT !.pending[Main] = <<>>, !.log = g]
      BY <1>2, <1>3 DEF Flush
    <2> QED  BY <1>1, <2>1 DEF ConsoleType
  <1>7. ConsoleType'
    <2>1. con'.pending \in [Writers -> Seq(Writers \X Nat)]
      <3>1. <<>> \in Seq(Writers \X Nat)
        OBVIOUS
      <3> QED  BY <1>1, <1>6, <3>1 DEF ConsoleType
    <2> QED  BY <1>1, <1>4, <1>6, <2>1 DEF ConsoleType
  <1>8. ScreenState'
    BY <1>2, <1>6, SameScreen DEF Onward
  <1>9. /\ con'.pending[Main] = <<>>
        /\ \A v \in Writers : v # Main => con'.pending[v] = con.pending[v]
    BY <1>1, <1>6 DEF ConsoleType
  <1>10. ASSUME NEW v \in Writers PROVE Buffered(v)'
    <2>1. CASE v = Main
      <3>1. Len(con'.pending[v]) = 0 /\ 0 <= con'.count[v] /\ con'.pending[v] = <<>>
        BY <1>4, <1>6, <1>9, <2>1
      <3> QED  BY <1>2, <2>1, <3>1 DEF Buffered
    <2>2. CASE v # Main
      <3>1. con'.count[v] = con.count[v] /\ con'.pending[v] = con.pending[v] /\ Buffered(v)
        BY <1>1, <1>6, <1>9, <2>2
      <3> QED  BY <1>2, <3>1 DEF Buffered, EndsLine
    <2> QED  BY <2>1, <2>2
  <1>11. CASE con.mirror
    <2>1. Whole(g)
      <3>1. Len(con.log) > 0 => EndsLine(con.log[Len(con.log)][2])
                                \/ con.log[Len(con.log)] = <<Main, k>>
        BY <1>1, <1>3 DEF LogEnd
      <3>2. Whole(con.log \o text)
        BY <1>1, <1>4, <1>5, <3>1, AppendedPieces, Zenon
      <3> QED  BY <1>3, <1>11, <3>2
    <2>2. g[Len(g)] = <<Main, con.count[Main]>>
      <3>1. Len(text) \in 1 .. Len(text)
        BY <1>4
      <3>2. text[Len(text)] = <<Main, con.count[Main]>>
        BY <1>4, <1>5, <3>1
      <3>3. (con.log \o text)[Len(con.log \o text)] = text[Len(text)]
        BY <1>4, LastAppended, Zenon
      <3> QED  BY <1>3, <1>11, <3>2, <3>3
    <2>3. LogEnd'
      <3>1. con.count[Main] - Len(con'.pending[Main]) = con.count[Main]
        BY <1>4, <1>9
      <3> QED  BY <1>2, <1>6, <2>2, <3>1 DEF LogEnd
    <2>4. WholeLines' /\ Unmirrored'
      BY <1>6, <1>11, <2>1 DEF WholeLines, Whole, EndsLine, Unmirrored
    <2> QED  BY <1>7, <1>8, <1>10, <2>3, <2>4 DEF IInv
  <1>12. CASE ~con.mirror
    <2>1. con'.log = <<>> /\ Len(con'.log) = 0
      BY <1>1, <1>2, <1>3, <1>6, <1>12 DEF Unmirrored
    <2>2. LogEnd' /\ Unmirrored' /\ WholeLines'
      BY <2>1 DEF LogEnd, Unmirrored, WholeLines
    <2> QED  BY <1>7, <1>8, <1>10, <2>2 DEF IInv
  <1> QED  BY <1>11, <1>12
--------------------------------------------------------------------------------
(* The exit                                                                *)

LEMMA LeaveStep ==
    ASSUME IInv, LeaveScreen
    PROVE  IInv'
  <1>1. ConsoleType /\ ScreenState /\ at = "closing"
    BY DEF IInv, LeaveScreen
  <1>2. Onward
    BY <1>1 DEF LeaveScreen, Go, Onward, Early
  <1>3. CASE UNCHANGED con
    BY <1>2, <1>3, SameConsole
  <1>4. CASE HaltRefresher
    <2>1. con' = [found |-> con.found, alt |-> con.alt, echo |-> con.echo,
                  mirror |-> con.mirror, muted |-> con.muted, active |-> con.active,
                  refresh |-> con.refresh, halt |-> TRUE, thread |-> con.thread,
                  mined |-> con.mined, late |-> con.late, stray |-> con.stray,
                  pending |-> con.pending, count |-> con.count, log |-> con.log]
      BY <1>1, <1>4 DEF HaltRefresher, ConsoleType
    <2>2. ConsoleType'
      BY <1>1, <2>1 DEF ConsoleType
    <2>3. ScreenState'
      BY <1>2, <2>1, SameScreen
    <2> QED  BY <1>2, <2>1, <2>2, <2>3, SameLines DEF IInv
  <1>5. CASE CloseDashboard /\ at' = "exit"
    <2>1. con' = [found |-> con.found, alt |-> FALSE, echo |-> con.found.echo,
                  mirror |-> con.mirror, muted |-> FALSE, active |-> FALSE,
                  refresh |-> con.refresh, halt |-> con.halt, thread |-> "none",
                  mined |-> con.mined, late |-> con.late, stray |-> con.stray,
                  pending |-> con.pending, count |-> con.count, log |-> con.log]
      BY <1>1, <1>5 DEF CloseDashboard, ConsoleType
    <2>2. ConsoleType'
      BY <1>1, <2>1 DEF ConsoleType
    <2>3. ScreenState'
      BY <1>1, <1>5, <2>1 DEF ScreenState, Early
    <2> QED  BY <1>2, <2>1, <2>2, <2>3, SameLines DEF IInv
  <1> QED  BY <1>3, <1>4, <1>5 DEF LeaveScreen, Go

(* Nothing is left of the main thread's line when the log is closed.       *)
LEMMA CloseStep ==
    ASSUME IInv, CloseStreams
    PROVE  IInv'
  <1>1. /\ ConsoleType /\ ScreenState /\ at = "exit" /\ at' = "statics" /\ Main \in Writers
        /\ \A w \in Writers : Buffered(w)
    BY MainWrites DEF IInv, CloseStreams, Go
  <1>2. con.pending[Main] = <<>>
    BY <1>1 DEF Buffered
  <1>3. con.log \o con.pending[Main] = con.log
    BY <1>1, <1>2 DEF ConsoleType
  <1>4. [con.pending EXCEPT ![Main] = <<>>] = con.pending
    BY <1>1, <1>2 DEF ConsoleType
  <1>5. PICK g : g = (IF con.mirror THEN con.log \o con.pending[Main] ELSE con.log)
    OBVIOUS
  <1>6. g = con.log
    BY <1>3, <1>5
  <1>7. con' = [[con EXCEPT !.pending[Main] = <<>>, !.log = g] EXCEPT !.mirror = FALSE]
    BY <1>5 DEF CloseStreams, CloseLog, Flush
  <1>8. con' = [found |-> con.found, alt |-> con.alt, echo |-> con.echo,
                mirror |-> FALSE, muted |-> con.muted, active |-> con.active,
                refresh |-> con.refresh, halt |-> con.halt, thread |-> con.thread,
                mined |-> con.mined, late |-> con.late, stray |-> con.stray,
                pending |-> con.pending, count |-> con.count, log |-> con.log]
    BY <1>1, <1>4, <1>6, <1>7 DEF ConsoleType
  <1>9. ConsoleType'
    BY <1>1, <1>8 DEF ConsoleType
  <1>10. ScreenState'
    BY <1>1, <1>8 DEF ScreenState, Early
  <1>11. ASSUME NEW w \in Writers PROVE Buffered(w)'
    BY <1>1, <1>8 DEF Buffered, EndsLine
  <1>12. LogEnd' /\ Unmirrored' /\ WholeLines'
    BY <1>1, <1>8 DEF IInv, LogEnd, Unmirrored, WholeLines, EndsLine
  <1> QED  BY <1>9, <1>10, <1>11, <1>12 DEF IInv

--------------------------------------------------------------------------------
(* The invariant                                                           *)

LEMMA InitInv == Init => IInv
  <1> SUFFICES ASSUME Init PROVE IInv
    OBVIOUS
  <1>1. con = [found |-> [alt |-> FALSE, echo |-> TRUE], alt |-> FALSE, echo |-> TRUE,
               mirror |-> FALSE, muted |-> FALSE, active |-> FALSE,
               refresh |-> FALSE, halt |-> FALSE, thread |-> "none",
               mined |-> FALSE, late |-> 0, stray |-> FALSE,
               pending |-> [w \in Writers |-> <<>>], count |-> [w \in Writers |-> 0],
               log |-> <<>>]
    BY DEF Init, FreshConsole
  <1>2. ConsoleType /\ ScreenState
    BY <1>1 DEF ConsoleType, ScreenState
  <1>3. \A w \in Writers : Buffered(w)
    BY <1>1, LineStarts DEF Buffered
  <1>4. LogEnd /\ Unmirrored /\ WholeLines
    BY <1>1 DEF LogEnd, Unmirrored, WholeLines
  <1> QED  BY <1>2, <1>3, <1>4 DEF IInv

(* The steps that leave the console alone.                                 *)
LEMMA QuietSteps ==
    ASSUME IInv,
           \/ Configure \/ FirstRun \/ Prompt \/ BenchTune \/ BenchBegin \/ BenchStep
           \/ RunMiner \/ MinerTune \/ TuningDone \/ Devices \/ MiningOver
           \/ ProcessEnds \/ Tuning \/ PoolStep \/ RequestStop
    PROVE  IInv'
  <1>1. ASSUME at \notin {"tuning", "mining", "statics", "off"}, UNCHANGED con,
               at' \in Early => at \in Early
        PROVE  IInv'
    BY <1>1, SameConsole DEF Onward
  <1>2. CASE Configure \/ FirstRun \/ Prompt
    <2>1. at \in Early /\ UNCHANGED con
      BY <1>2 DEF Configure, FirstRun, Prompt, Early
    <2> QED  BY <1>1, <2>1 DEF Early
  <1>3. CASE BenchTune \/ BenchBegin \/ BenchStep
    <2>1. at \in {"bench", "benchTuning", "benchmarking"} /\ UNCHANGED con
      BY <1>3 DEF BenchTune, BenchBegin, BenchStep
    <2>2. at' \in {"closing", "benchTuning", "benchmarking"}
      BY <1>3 DEF BenchTune, BenchBegin, BenchStep, Go, Leave
    <2> QED  BY <1>1, <2>1, <2>2 DEF Early
  <1>4. CASE RunMiner \/ MinerTune \/ Devices
    <2>1. at \in {"run", "beginTuning", "devices"} /\ UNCHANGED con
      BY <1>4 DEF RunMiner, MinerTune, Devices
    <2>2. at' \in {"closing", "beginTuning", "devices", "tuning", "mining"}
      BY <1>4 DEF RunMiner, MinerTune, Devices, Go, Leave
    <2> QED  BY <1>1, <2>1, <2>2 DEF Early
  <1>5. CASE TuningDone
    <2>1. /\ at = "tuning" /\ EndsLine(con.count[Main]) /\ UNCHANGED con
          /\ at' \in {"devices", "closing"}
      BY <1>5 DEF TuningDone, Go, Leave
    <2> QED  BY <2>1, SameConsole DEF Onward
  <1>6. CASE MiningOver
    <2>1. /\ at = "mining" /\ at' = "closing" /\ UNCHANGED con
          /\ \A w \in Writers : EndsLine(con.count[w])
      BY <1>6 DEF MiningOver, Leave
    <2> QED  BY <2>1, SameConsole DEF Onward
  <1>7. CASE ProcessEnds
    <2>1. at = "statics" /\ at' = "off" /\ UNCHANGED con
      BY <1>7 DEF ProcessEnds, Gone
    <2> QED  BY <2>1, SameConsole DEF Onward
  <1>8. CASE Tuning \/ PoolStep \/ RequestStop
    <2>1. at' = at /\ UNCHANGED con
      BY <1>8 DEF Tuning, PoolStep, RequestStop, processVars
    <2> QED  BY <2>1, SameConsole DEF Onward
  <1> QED  BY <1>2, <1>3, <1>4, <1>5, <1>6, <1>7, <1>8

LEMMA DisplayStep ==
    ASSUME IInv, Display
    PROVE  IInv'
  <1>1. at = "display" /\ at' \in {"bench", "run"}
    BY DEF Display, Go
  <1>2. Onward
    BY <1>1 DEF Onward, Early
  <1>3. OpenDashboard \/ UNCHANGED con
    BY DEF Display
  <1> QED  BY <1>1, <1>2, <1>3, OpenStep, SameConsole

LEMMA NextInv == IInv /\ [Next]_vars => IInv'
  <1> SUFFICES ASSUME IInv, [Next]_vars PROVE IInv'
    OBVIOUS
  <1>0. con.alt \in BOOLEAN
    BY DEF IInv, ConsoleType
  <1>1. CASE Start
    BY <1>0, <1>1, FreshStep DEF Start
  <1>2. CASE Kill
    BY <1>0, <1>2, FreshStep DEF Kill
  <1>3. CASE RefreshThread
    BY <1>3, RefreshStep
  <1>4. CASE GpuPrint
    BY <1>4, PrintStep DEF GpuPrint
  <1>5. CASE RequestStop
    BY <1>5, QuietSteps
  <1>6. CASE MainStep
    BY <1>6, QuietSteps, DisplayStep, LeaveStep, CloseStep, MiningFrameStep, PrintStep,
       FlushStep, MainWrites DEF MainStep
  <1>7. CASE UNCHANGED vars
    BY <1>7, SameConsole DEF vars, processVars, Onward
  <1> QED  BY <1>1, <1>2, <1>3, <1>4, <1>5, <1>6, <1>7 DEF Next

LEMMA InvHolds == Spec => []IInv
  <1> QED  BY InitInv, NextInv, PTL DEF Spec

--------------------------------------------------------------------------------
(* What a process gives back                                               *)

Fields == {"found", "alt", "echo", "mirror", "muted", "active", "refresh", "halt", "thread",
           "mined", "late", "stray", "pending", "count", "log"}

(* Without a dashboard the terminal is as it was found; a process that has *)
(* not configured itself yet or has left its screen has none.              *)
Over == at \in {"configure", "exit", "statics"} \/ (at = "off" /\ ~killed)
GInv ==
    /\ ~con.active => (con.alt => con.found.alt) /\ con.echo = con.found.echo /\ ~con.muted
    /\ Over => ~con.active

LEMMA ConsoleFields == ASSUME IInv PROVE DOMAIN con = Fields
  BY DEF IInv, ConsoleType, Fields

LEMMA SameTerminal ==
    ASSUME GInv, con'.found = con.found, con'.alt = con.alt, con'.echo = con.echo,
           con'.muted = con.muted, con'.active = con.active, Over' => Over
    PROVE  GInv'
  BY DEF GInv

LEMMA TerminalSteps ==
    ASSUME IInv, GInv, at' = at, killed' = killed,
           RefreshThread \/ MiningFrame \/ FlushUnfinished \/ \E w \in Writers : PrintPiece(w)
    PROVE  GInv'
  <1>1. DOMAIN con = Fields
    BY ConsoleFields
  <1>2. Over' => Over
    BY DEF Over
  <1>3. CASE MiningFrame
    BY <1>1, <1>2, <1>3, SameTerminal DEF MiningFrame, DrawMiningFrame, Fields
  <1>4. CASE FlushUnfinished
    <2>1. PICK x, y : con' = [con EXCEPT !.pending = x, !.log = y]
      BY <1>4 DEF FlushUnfinished, Flush
    <2> QED  BY <1>1, <1>2, <2>1, SameTerminal DEF Fields
  <1>5. ASSUME NEW w \in Writers, PrintPiece(w) PROVE GInv'
    <2>1. PICK x, y, z : con' = [con EXCEPT !.count = x, !.pending = y, !.log = z]
      BY <1>5 DEF PrintPiece, WritePiece
    <2> QED  BY <1>1, <1>2, <2>1, SameTerminal DEF Fields
  <1>6. CASE RefreshThread
    <2>1. PICK x, y, z : \/ con' = [con EXCEPT !.thread = x]
                         \/ con' = [con EXCEPT !.late = y, !.stray = z, !.thread = x]
      BY <1>6 DEF RefreshThread, Refresher, RefresherCheck, RefresherRender, RefresherDraw,
                  TuningFrame
    <2> QED  BY <1>1, <1>2, <2>1, SameTerminal DEF Fields
  <1> QED  BY <1>3, <1>4, <1>5, <1>6

LEMMA FreshTerminal ==
    ASSUME NEW alt, NEW echo, NEW mirror, con' = FreshConsole(alt, echo, mirror)
    PROVE  GInv'
  BY DEF GInv, FreshConsole

LEMMA ScreenSteps ==
    ASSUME IInv, GInv, Display \/ LeaveScreen \/ CloseStreams
    PROVE  GInv'
  <1>1. DOMAIN con = Fields
    BY ConsoleFields
  <1>2. CASE Display
    <2>1. at' \in {"bench", "run"}
      BY <1>2 DEF Display, Go
    <2>2. CASE OpenDashboard
      <3>1. PICK c : c = [con EXCEPT !.echo = FALSE, !.active = TRUE, !.muted = TRUE,
                                     !.alt = TRUE, !.refresh = TRUE, !.thread = "check"]
        OBVIOUS
      <3>2. PICK y, z : con' = [c EXCEPT !.late = y, !.stray = z]
        BY <2>2, <3>1 DEF OpenDashboard, TuningFrame
      <3>3. con'.active = TRUE
        BY <1>1, <3>1, <3>2 DEF Fields
      <3> QED  BY <2>1, <3>3 DEF GInv, Over
    <2>3. CASE UNCHANGED con
      BY <2>1, <2>3, SameTerminal DEF Over
    <2> QED  BY <1>2, <2>2, <2>3 DEF Display
  <1>3. CASE LeaveScreen
    <2>1. at = "closing" /\ at' \in {"closing", "exit"}
      BY <1>3 DEF LeaveScreen, Go
    <2>2. CASE HaltRefresher /\ at' = "closing"
      BY <1>1, <2>2, SameTerminal DEF HaltRefresher, Over, Fields
    <2>3. CASE CloseDashboard
      <3>1. /\ con'.active = FALSE /\ con'.alt = FALSE /\ con'.muted = FALSE
            /\ con'.echo = con.found.echo /\ con'.found = con.found
        BY <1>1, <2>3 DEF CloseDashboard, Fields
      <3> QED  BY <3>1 DEF GInv
    <2>4. CASE ~con.active /\ UNCHANGED con
      BY <2>4 DEF GInv
    <2> QED  BY <1>3, <2>2, <2>3, <2>4 DEF LeaveScreen, Go
  <1>4. CASE CloseStreams
    <2>1. PICK x, y : con' = [[con EXCEPT !.pending = x, !.log = y] EXCEPT !.mirror = FALSE]
      BY <1>4 DEF CloseStreams, CloseLog, Flush
    <2>2. at = "exit"
      BY <1>4 DEF CloseStreams
    <2> QED  BY <1>1, <2>1, <2>2, SameTerminal DEF Over, Fields
  <1> QED  BY <1>2, <1>3, <1>4

LEMMA NextGInv ==
    ASSUME IInv, GInv, [Next]_vars
    PROVE  GInv'
  <1>1. CASE Start \/ Kill
    BY <1>1, FreshTerminal DEF Start, Kill
  <1>2. CASE RefreshThread \/ MiningFrame \/ FlushUnfinished \/ GpuPrint \/ PrintPiece(Main)
    <2>1. at' = at /\ killed' = killed
      BY <1>2 DEF RefreshThread, MiningFrame, FlushUnfinished, GpuPrint, PrintPiece, processVars
    <2> QED  BY <1>2, <2>1, MainWrites, TerminalSteps DEF GpuPrint
  <1>3. CASE Display \/ LeaveScreen \/ CloseStreams
    BY <1>3, ScreenSteps
  <1>4. CASE ProcessEnds \/ PoolStep \/ Tuning \/ RequestStop \/ UNCHANGED vars
    <2>1. UNCHANGED con /\ (at' = at \/ (at = "statics" /\ at' = "off")) /\ killed' = killed
      BY <1>4 DEF vars, ProcessEnds, Gone, PoolStep, Tuning, RequestStop, processVars
    <2> QED  BY <2>1, SameTerminal DEF Over
  <1>5. CASE /\ \/ FirstRun \/ Prompt \/ BenchTune \/ BenchBegin \/ BenchStep
                \/ RunMiner \/ MinerTune \/ TuningDone \/ Devices \/ MiningOver
             /\ UNCHANGED killed
    <2>1. UNCHANGED con /\ at' \notin {"configure", "exit", "statics", "off"}
      BY <1>5 DEF FirstRun, Prompt, BenchTune, BenchBegin, BenchStep,
                  RunMiner, MinerTune, TuningDone, Devices, MiningOver, Go, Leave
    <2> QED  BY <2>1, SameTerminal DEF Over
  <1>6. CASE Configure
    <2>1. UNCHANGED con /\ at = "configure"
      BY <1>6 DEF Configure
    <2> QED  BY <2>1 DEF GInv, Over
  <1> QED  BY <1>1, <1>2, <1>3, <1>4, <1>5, <1>6 DEF Next, MainStep

LEMMA GInvHolds == Spec => [](IInv /\ GInv)
  <1>1. Init => IInv /\ GInv
    <2> SUFFICES ASSUME Init PROVE IInv /\ GInv
      OBVIOUS
    <2>1. con = FreshConsole(FALSE, TRUE, FALSE)
      BY DEF Init
    <2>2. /\ con.found = [alt |-> FALSE, echo |-> TRUE] /\ con.alt = FALSE /\ con.echo = TRUE
          /\ con.muted = FALSE /\ con.active = FALSE
      BY <2>1 DEF FreshConsole
    <2>3. con.found.echo = TRUE
      BY <2>2
    <2>4. /\ con.alt => con.found.alt
          /\ con.echo = con.found.echo /\ ~con.muted /\ ~con.active
      BY <2>2, <2>3
    <2>5. GInv
      BY <2>4 DEF GInv
    <2> QED  BY <2>5, InitInv
  <1>2. IInv /\ GInv /\ [Next]_vars => (IInv /\ GInv)'
    BY NextInv, NextGInv
  <1> QED  BY <1>1, <1>2, PTL DEF Spec

--------------------------------------------------------------------------------
(* The order of the CPUs                                                   *)

LEMMA LeastExists ==
    ASSUME NEW S \in SUBSET Nat, S # {}
    PROVE  \E x \in S : \A y \in S : x =< y
  <1>1. IsWellFoundedOn(OpToRel(<, Nat), Nat)
    BY NatLessThanWellFounded
  <1>2. PICK x \in S : \A y \in S : ~ (<<y, x>> \in OpToRel(<, Nat))
    BY <1>1, WFMin
  <1>3. \A y \in S : ~ (y < x)
    BY <1>2 DEF OpToRel
  <1> QED  BY <1>3

LEMMA MinPair ==
    ASSUME NEW a \in Int, NEW b \in Int
    PROVE  Min({a, b}) = IF a <= b THEN a ELSE b
  BY DEF Min

LEMMA MaxPair ==
    ASSUME NEW a \in Int, NEW b \in Int
    PROVE  Max({a, b}) = IF a <= b THEN b ELSE a
  BY DEF Max

(* A set of slots has one before all others.                               *)
LEMMA FirstSlot ==
    ASSUME NEW S \in SUBSET (Nat \X Nat), S # {}
    PROVE  \E m \in S : \A s \in S : s # m => Before(m, s)
  <1>1. PICK A \in SUBSET Nat : A # {} /\ \A x \in Nat : x \in A <=> \E s \in S : s[1] = x
    <2> DEFINE A == {x \in Nat : \E s \in S : s[1] = x}
    <2>1. PICK s \in S : TRUE
      OBVIOUS
    <2>2. s[1] \in A
      BY <2>1
    <2>3. A \in SUBSET Nat /\ \A x \in Nat : x \in A <=> \E t \in S : t[1] = x
      OBVIOUS
    <2> HIDE DEF A
    <2> QED  BY <2>2, <2>3
  <1>2. PICK a \in A : \A x \in A : a =< x
    BY <1>1, LeastExists
  <1>3. PICK B \in SUBSET Nat : /\ B # {}
                               /\ \A y \in Nat : y \in B <=> \E s \in S : s[1] = a /\ s[2] = y
    <2> DEFINE B == {y \in Nat : \E s \in S : s[1] = a /\ s[2] = y}
    <2>1. PICK s \in S : s[1] = a
      BY <1>1
    <2>2. s[2] \in B
      BY <2>1
    <2>3. B \in SUBSET Nat /\ \A y \in Nat : y \in B <=> \E t \in S : t[1] = a /\ t[2] = y
      OBVIOUS
    <2> HIDE DEF B
    <2> QED  BY <2>2, <2>3
  <1>4. PICK b \in B : \A y \in B : b =< y
    BY <1>3, LeastExists
  <1>5. PICK m \in S : m[1] = a /\ m[2] = b
    BY <1>3
  <1>6. ASSUME NEW s \in S, s # m PROVE Before(m, s)
    <2>1. s[1] \in A /\ s[1] \in Nat /\ s[2] \in Nat /\ (s[1] = a => s[2] \in B)
      BY <1>1, <1>3
    <2>2. a =< s[1] /\ (s[1] = a => b =< s[2])
      BY <2>1, <1>2, <1>4
    <2>3. s[1] # a \/ s[2] # b
      BY <1>5, <1>6
    <2> QED  BY <2>1, <2>2, <2>3, <1>5 DEF Before
  <1> QED  BY <1>6

Sorted(S, f) ==
    /\ f \in [1 .. Cardinality(S) -> S]
    /\ \A i, j \in 1 .. Cardinality(S) : i < j => Before(f[i], f[j])

(* Every finite set of slots can be listed in order: a least set that      *)
(* cannot would be one slot, its first, before a list of the others.       *)
LEMMA Sortable ==
    ASSUME NEW T \in SUBSET (Nat \X Nat), IsFiniteSet(T)
    PROVE  \E f : Sorted(T, f)
  <1> SUFFICES ASSUME ~ \E f : Sorted(T, f) PROVE FALSE
    OBVIOUS
  <1>1. PICK Bad \in SUBSET Nat : \A n \in Nat :
            n \in Bad <=> \E S \in SUBSET T : Cardinality(S) = n /\ ~ \E f : Sorted(S, f)
    <2> DEFINE Bad == {n \in Nat : \E S \in SUBSET T :
                            Cardinality(S) = n /\ ~ \E f : Sorted(S, f)}
    <2>1. Bad \in SUBSET Nat /\ \A n \in Nat :
            n \in Bad <=> \E S \in SUBSET T : Cardinality(S) = n /\ ~ \E f : Sorted(S, f)
      BY Zenon
    <2> HIDE DEF Bad
    <2> QED  BY <2>1, Zenon
  <1>2. Cardinality(T) \in Bad
    BY <1>1, FS_CardinalityType
  <1>3. PICK n \in Bad : \A k \in Bad : n =< k
    BY <1>2, LeastExists
  <1>4. PICK S \in SUBSET T : Cardinality(S) = n /\ ~ \E f : Sorted(S, f)
    BY <1>1
  <1>5. IsFiniteSet(S) /\ n \in Nat
    BY <1>4, FS_Subset
  <1>6. S # {}
    <2> SUFFICES ASSUME S = {} PROVE FALSE
      OBVIOUS
    <2>1. Cardinality(S) = 0
      BY FS_EmptySet
    <2>2. 1 .. 0 = {}
      OBVIOUS
    <2>3. [i \in {} |-> 0] \in [{} -> S]
      OBVIOUS
    <2>4. Sorted(S, [i \in {} |-> 0])
      BY <2>1, <2>2, <2>3 DEF Sorted
    <2> QED  BY <1>4, <2>4
  <1>7. PICK m \in S : \A s \in S : s # m => Before(m, s)
    BY <1>6, FirstSlot
  <1>8. PICK R \in SUBSET T : R = S \ {m}
    OBVIOUS
  <1>9. Cardinality(R) = n - 1 /\ n - 1 \in Nat /\ IsFiniteSet(R)
    <2>1. IsFiniteSet(S \ {m}) /\ Cardinality(S \ {m}) = Cardinality(S) - 1
      BY <1>5, FS_RemoveElement
    <2>2. Cardinality(S \ {m}) \in Nat
      BY <2>1, FS_CardinalityType
    <2> QED  BY <2>1, <2>2, <1>4, <1>8
  <1>10. n - 1 \notin Bad
    BY <1>3, <1>5
  <1>11. PICK f : Sorted(R, f)
    BY <1>1, <1>9, <1>10
  <1>12. PICK g : g = [i \in 1 .. n |-> IF i = 1 THEN m ELSE f[i - 1]]
    OBVIOUS
  <1>13. ASSUME NEW i \in 1 .. n, i # 1
         PROVE  g[i] = f[i - 1] /\ i - 1 \in 1 .. n - 1 /\ g[i] \in R
    <2>1. g[i] = f[i - 1] /\ i - 1 \in 1 .. n - 1
      BY <1>12, <1>13, <1>5
    <2> QED  BY <2>1, <1>9, <1>11 DEF Sorted
  <1>14. g \in [1 .. n -> S]
    BY <1>8, <1>12, <1>13
  <1>15. ASSUME NEW i \in 1 .. n, NEW j \in 1 .. n, i < j PROVE Before(g[i], g[j])
    <2>1. j # 1 /\ g[j] \in R /\ g[j] = f[j - 1] /\ j - 1 \in 1 .. n - 1
      BY <1>5, <1>13, <1>15
    <2>2. CASE i = 1
      <3>1. g[i] = m /\ g[j] # m /\ g[j] \in S
        BY <1>8, <1>12, <2>1, <2>2
      <3> QED  BY <3>1, <1>7
    <2>3. CASE i # 1
      <3>1. g[i] = f[i - 1] /\ i - 1 \in 1 .. n - 1 /\ i - 1 < j - 1
        BY <1>5, <1>13, <1>15, <2>3
      <3> QED  BY <3>1, <2>1, <1>9, <1>11 DEF Sorted
    <2> QED  BY <2>2, <2>3
  <1>16. Sorted(S, g)
    BY <1>4, <1>14, <1>15 DEF Sorted
  <1> QED  BY <1>4, <1>16

LEMMA SlotsFinite ==
    ASSUME NEW hw \in Nat, NEW cores, Topology(cores, hw)
    PROVE  Slots(cores) \in SUBSET (Nat \X Nat) /\ IsFiniteSet(Slots(cores))
  <1>1. DOMAIN cores = 1 .. Len(cores) /\ Len(cores) \in Nat
    BY DEF Topology
  <1>2. PICK f : f = [c \in DOMAIN cores |-> (1 .. Len(cores[c])) \X {c}]
    OBVIOUS
  <1>3. PICK T : T = {(1 .. Len(cores[c])) \X {c} : c \in DOMAIN cores}
    OBVIOUS
  <1>4. f \in Surjection(DOMAIN cores, T)
    BY <1>2, <1>3 DEF Surjection
  <1>5. IsFiniteSet(DOMAIN cores)
    BY <1>1, FS_Interval
  <1>6. IsFiniteSet(T)
    BY <1>4, <1>5, FS_Surjection
  <1>7. \A c \in DOMAIN cores : Len(cores[c]) \in Nat
    BY DEF Topology
  <1>8. ASSUME NEW t \in T PROVE IsFiniteSet(t)
    <2>1. PICK c \in DOMAIN cores : t = (1 .. Len(cores[c])) \X {c}
      BY <1>3
    <2>2. IsFiniteSet(1 .. Len(cores[c]))
      BY <1>7, FS_Interval
    <2>3. IsFiniteSet({c})
      BY FS_Singleton
    <2> QED  BY <2>1, <2>2, <2>3, FS_Product
  <1>9. IsFiniteSet(UNION T)
    BY <1>6, <1>8, FS_UNION
  <1>10. UNION T = Slots(cores)
    BY <1>3 DEF Slots
  <1>11. ASSUME NEW s \in Slots(cores) PROVE s \in Nat \X Nat
    <2>1. PICK c \in DOMAIN cores : s \in (1 .. Len(cores[c])) \X {c}
      BY DEF Slots
    <2> QED  BY <2>1, <1>1, <1>7
  <1> QED  BY <1>9, <1>10, <1>11

LEMMA SlotFacts ==
    ASSUME NEW hw \in Nat, NEW cores, Topology(cores, hw), NEW s
    PROVE  s \in Slots(cores) <=>
               \E c \in DOMAIN cores : \E i \in DOMAIN cores[c] : s = <<i, c>>
  <1>1. \A c \in DOMAIN cores : DOMAIN cores[c] = 1 .. Len(cores[c])
    BY DEF Topology
  <1> QED  BY <1>1 DEF Slots

\* o lists the n slots of the cores in their order.
Listing(o, n, cores) ==
    /\ o \in [1 .. n -> Slots(cores)]
    /\ \A i, j \in 1 .. n : i < j => Before(o[i], o[j])
    /\ \A s \in Slots(cores) : \E i \in 1 .. n : o[i] = s

(* The order lists every slot once.                                        *)
LEMMA OrderFacts ==
    ASSUME NEW hw \in Nat, NEW cores, Topology(cores, hw)
    PROVE  \E n \in Nat : Listing(SlotOrder(cores), n, cores)
  <1> DEFINE o == SlotOrder(cores)
  <1>1. PICK S : S = Slots(cores)
    OBVIOUS
  <1>2. S \in SUBSET (Nat \X Nat) /\ IsFiniteSet(S)
    BY <1>1, SlotsFinite
  <1>3. PICK n \in Nat : n = Cardinality(S)
    BY <1>2, FS_CardinalityType
  <1>4. PICK f : Sorted(S, f)
    BY <1>2, Sortable
  <1>5. o = SlotOrder(cores)
    OBVIOUS
  <1> HIDE DEF o
  <1>6. o \in [1 .. n -> S] /\ \A i, j \in DOMAIN o : i < j => Before(o[i], o[j])
    <2>1. f \in [1 .. n -> S] /\ \A i, j \in DOMAIN f : i < j => Before(f[i], f[j])
      BY <1>3, <1>4 DEF Sorted
    <2> QED  BY <2>1, <1>1, <1>3, <1>5, Zenon DEF SlotOrder
  <1>7. \A i, j \in 1 .. n : i < j => Before(o[i], o[j])
    BY <1>6
  <1>8. o \in Injection(1 .. n, S)
    <2>1. ASSUME NEW i \in 1 .. n, NEW j \in 1 .. n, o[i] = o[j], i # j PROVE FALSE
      <3>1. o[i] \in Nat \X Nat
        BY <1>2, <1>6
      <3>2. i < j \/ j < i
        BY <2>1
      <3>3. Before(o[i], o[i])
        BY <1>7, <2>1, <3>2
      <3> QED  BY <3>1, <3>3 DEF Before
    <2>2. \A i, j \in 1 .. n : o[i] = o[j] => i = j
      BY <2>1
    <2> QED  BY <2>2, <1>6, Zenon DEF Injection, IsInjective
  <1>9. IsFiniteSet(1 .. n) /\ Cardinality(1 .. n) = n
    BY FS_Interval
  <1>10. o \in Surjection(1 .. n, S)
    BY <1>2, <1>3, <1>8, <1>9, FS_Injection
  <1>11. \A s \in S : \E i \in 1 .. n : o[i] = s
    BY <1>10 DEF Surjection
  <1>12. Listing(o, n, cores)
    BY <1>1, <1>6, <1>7, <1>11 DEF Listing
  <1> QED  BY <1>3, <1>5, <1>12

(* Every CPU of the order belongs to the core of its slot.                 *)
LEMMA CoreOfSlot ==
    ASSUME NEW hw \in Nat, NEW cores, Topology(cores, hw),
           NEW c \in DOMAIN cores, NEW i \in DOMAIN cores[c]
    PROVE  (CHOOSE d \in DOMAIN cores : cores[c][i] \in Range(cores[d])) = c
  <1>1. cores[c][i] \in Range(cores[c])
    BY DEF Range
  <1>2. ASSUME NEW d \in DOMAIN cores, cores[c][i] \in Range(cores[d]) PROVE d = c
    <2>1. PICK j \in DOMAIN cores[d] : cores[d][j] = cores[c][i]
      BY <1>2 DEF Range
    <2>2. \A x, y \in DOMAIN cores : \A k \in DOMAIN cores[x], l \in DOMAIN cores[y] :
            cores[x][k] = cores[y][l] => x = y /\ k = l
      BY Zenon DEF Topology
    <2> QED  BY <2>1, <2>2
  <1> QED  BY <1>1, <1>2

LEMMA CoreTypes ==
    ASSUME NEW hw \in Nat, NEW cores, Topology(cores, hw), NEW c \in DOMAIN cores
    PROVE  cores[c] # <<>> /\ cores[c] \in Seq(0 .. hw - 1)
  BY DEF Topology

LEMMA SpreadPrefix ==
    ASSUME NEW hw \in Nat, Topology(env.cores, hw), NEW affinity, NEW workers \in Nat
    PROVE  Spread(AffinityOrder(affinity, workers))
  <1>0. PICK cpus : cpus = AffinityOrder(affinity, workers)
    OBVIOUS
  <1>1. CASE affinity # "physical"
    <2>1. cpus = <<>>
      BY <1>0, <1>1 DEF AffinityOrder
    <2>2. DOMAIN cpus = {}
      BY <2>1
    <2> QED  BY <1>0, <2>2, Zenon DEF Spread
  <1>2. CASE affinity = "physical"
    <2>1. PICK cores, o : cores = env.cores /\ o = SlotOrder(cores)
      OBVIOUS
    <2>2. Topology(cores, hw)
      BY <2>1
    <2>30. PICK n \in Nat : Listing(o, n, cores)
      BY <2>1, <2>2, OrderFacts
    <2>3. /\ o \in [1 .. n -> Slots(cores)]
          /\ \A i, j \in 1 .. n : i < j => Before(o[i], o[j])
          /\ \A s \in Slots(cores) : \E i \in 1 .. n : o[i] = s
      BY <2>30, Zenon DEF Listing
    <2>4. PICK p : p = PhysicalFirstOrder(cores)
      OBVIOUS
    <2>5. p = [i \in 1 .. n |-> cores[o[i][2]][o[i][1]]]
      BY <2>1, <2>3, <2>4 DEF PhysicalFirstOrder
    <2>6. \A i \in 1 .. n : /\ o[i][2] \in DOMAIN cores /\ o[i][1] \in DOMAIN cores[o[i][2]]
                            /\ o[i] = <<o[i][1], o[i][2]>> /\ o[i] \in Nat \X Nat
      <3>1. ASSUME NEW i \in 1 .. n
            PROVE  /\ o[i][2] \in DOMAIN cores /\ o[i][1] \in DOMAIN cores[o[i][2]]
                   /\ o[i] = <<o[i][1], o[i][2]>>
        <4>1. o[i] \in Slots(cores)
          BY <2>3
        <4>2. PICK c \in DOMAIN cores : \E k \in DOMAIN cores[c] : o[i] = <<k, c>>
          BY <4>1, <2>2, SlotFacts
        <4>3. PICK k \in DOMAIN cores[c] : o[i] = <<k, c>>
          BY <4>2
        <4> QED  BY <4>3
      <3>2. \A i \in 1 .. n : o[i] \in Nat \X Nat
        BY <2>2, <2>3, SlotsFinite
      <3> QED  BY <3>1, <3>2
    <2>7. ASSUME NEW i \in 1 .. n PROVE p[i] \in 0 .. hw - 1
      <3>1. PICK c, k : c = o[i][2] /\ k = o[i][1] /\ c \in DOMAIN cores /\ k \in DOMAIN cores[c]
        BY <2>6
      <3>2. cores[c] \in Seq(0 .. hw - 1)
        BY <2>2, <3>1, CoreTypes
      <3>3. p[i] = cores[c][k]
        BY <2>5, <3>1
      <3>4. cores[c][k] \in 0 .. hw - 1
        BY <3>1, <3>2
      <3> QED  BY <3>3, <3>4
    <2>8. p \in Seq(0 .. hw - 1) /\ Len(p) = n
      BY <2>5, <2>7
    <2>9. PICK m \in Nat : m = Min({workers, n}) /\ m <= n
      BY MinPair
    <2>10. cpus = SubSeq(p, 1, m)
      BY <1>0, <1>2, <2>1, <2>4, <2>8, <2>9 DEF AffinityOrder
    <2>11. DOMAIN cpus = 1 .. m /\ \A i \in 1 .. m : cpus[i] = p[i]
      <3>1. 1 \in Int /\ m \in Int /\ m <= Len(p) /\ Len(p) \in Nat /\ p \in Seq(0 .. hw - 1)
        BY <2>8, <2>9
      <3>5. \A i \in 1 .. m : p[i] \in 0 .. hw - 1
        BY <2>7, <2>9
      <3>6. cpus \in Seq(0 .. hw - 1) /\ Len(cpus) = IF 1 <= m THEN m - 1 + 1 ELSE 0
        BY <3>1, <3>5, <2>10, SubSeqProperties
      <3>2. Len(cpus) = m /\ cpus \in Seq(0 .. hw - 1)
        BY <3>6, <2>9
      <3>3. \A i \in 1 .. m : cpus[i] = p[1 + i - 1]
        BY <3>1, <2>9, <2>10, SubSeqProperties
      <3>4. \A i \in 1 .. m : 1 + i - 1 = i
        BY <2>9
      <3> QED  BY <3>2, <3>3, <3>4
    <2> DEFINE CoreOf(i) == CHOOSE c \in DOMAIN env.cores : cpus[i] \in Range(env.cores[c])
    <2>12. ASSUME NEW i \in 1 .. m PROVE CoreOf(i) = o[i][2]
      <3>1. i \in 1 .. n
        BY <2>9
      <3>2. cpus[i] = cores[o[i][2]][o[i][1]]
        BY <2>5, <2>11, <3>1
      <3>3. (CHOOSE c \in DOMAIN cores : cores[o[i][2]][o[i][1]] \in Range(cores[c])) = o[i][2]
        BY <2>2, <2>6, <3>1, CoreOfSlot
      <3> QED  BY <2>1, <3>2, <3>3
    <2> HIDE DEF CoreOf
    <2>13. ASSUME NEW i \in 1 .. m, NEW j \in 1 .. m, i < j
           PROVE  /\ cpus[i] # cpus[j]
                  /\ CoreOf(i) = CoreOf(j) =>
                        \A c \in DOMAIN cores : \E k \in 1 .. j : CoreOf(k) = c
      <3>1. i \in 1 .. n /\ j \in 1 .. n /\ Before(o[i], o[j])
        BY <2>3, <2>9, <2>13
      <3>2. cpus[i] # cpus[j]
        <4>1. SUFFICES ASSUME cpus[i] = cpus[j] PROVE FALSE
          OBVIOUS
        <4>2. cores[o[i][2]][o[i][1]] = cores[o[j][2]][o[j][1]]
          BY <2>5, <2>11, <3>1, <4>1
        <4>3. \A x, y \in DOMAIN cores : \A k \in DOMAIN cores[x], l \in DOMAIN cores[y] :
                cores[x][k] = cores[y][l] => x = y /\ k = l
          BY <2>2, Zenon DEF Topology
        <4>4. o[i][2] = o[j][2] /\ o[i][1] = o[j][1]
          BY <2>6, <3>1, <4>2, <4>3
        <4> QED  BY <2>6, <3>1, <4>4 DEF Before
      <3>3. ASSUME CoreOf(i) = CoreOf(j), NEW c \in DOMAIN cores
            PROVE  \E k \in 1 .. j : CoreOf(k) = c
        <4>1. o[i][2] = o[j][2] /\ o[i][1] < o[j][1]
          BY <2>6, <2>12, <3>1, <3>3 DEF Before
        <4>2. cores[c] # <<>> /\ cores[c] \in Seq(0 .. hw - 1)
          BY <2>2, CoreTypes
        <4>3. 1 \in DOMAIN cores[c]
          BY <4>2
        <4>4. <<1, c>> \in Slots(cores)
          BY <2>2, <4>3, SlotFacts
        <4>5. PICK k \in 1 .. n : o[k] = <<1, c>>
          BY <2>3, <4>4
        <4>6. o[i][1] >= 1
          <5>1. cores[o[i][2]] \in Seq(0 .. hw - 1)
            BY <2>2, <2>6, <3>1, CoreTypes
          <5>2. DOMAIN cores[o[i][2]] \subseteq Nat \ {0}
            BY <5>1
          <5> QED  BY <2>6, <3>1, <5>2
        <4>7. Before(o[k], o[j])
          BY <2>6, <3>1, <4>1, <4>5, <4>6 DEF Before
        <4>8. k < j
          <5>1. SUFFICES ASSUME ~ (k < j) PROVE FALSE
            OBVIOUS
          <5>2. k = j \/ j < k
            BY <5>1
          <5>3. k = j \/ Before(o[j], o[k])
            BY <2>3, <3>1, <5>2
          <5> QED  BY <2>6, <3>1, <4>7, <5>3 DEF Before
        <4>9. k \in 1 .. j /\ k \in 1 .. m
          BY <4>8
        <4>10. CoreOf(k) = c
          BY <2>12, <4>5, <4>9
        <4> QED  BY <4>9, <4>10
      <3> QED  BY <3>2, <3>3
    <2>14. ASSUME NEW i \in DOMAIN cpus, NEW j \in DOMAIN cpus, i < j
           PROVE  /\ cpus[i] # cpus[j]
                  /\ CoreOf(i) = CoreOf(j) =>
                        \A c \in DOMAIN env.cores : \E k \in 1 .. j : CoreOf(k) = c
      BY <2>1, <2>11, <2>13, <2>14
    <2>15. Spread(cpus)
      BY <2>14, Zenon DEF Spread, CoreOf
    <2> QED  BY <1>0, <2>15
  <1> QED  BY <1>1, <1>2

--------------------------------------------------------------------------------
(* The tuning and the pool                                                 *)

PolicyFields == {"threads", "lanes", "batch", "widths", "affinity"}
PoolFields ==
    {"threads", "lanes", "base", "cpus", "fp", "workers", "widths", "active",
     "validated", "rejected", "step"}

Allowed == 1 .. (IF env.cfg.threads = 0 THEN env.hw ELSE Min({env.cfg.threads, env.hw}))
Proven(w) == w \in WidthPolicies /\ (w = Scalar \/ WidthParity(w))

(* What a policy on the disk is, whichever start wrote it.                 *)
Fits(p) ==
    /\ DOMAIN p = PolicyFields /\ p.threads \in Nat \ {0}
    /\ p.widths \in WidthPolicies /\ p.lanes = MaxWidth(p.widths)

(* A start is a known one, its settings keep their names, and so do the    *)
(* other records.                                                          *)
Started ==
    /\ env.then \subseteq Starts
    /\ at # "off" => /\ KnownStart(env) /\ DOMAIN cfg = DOMAIN env.cfg
                     /\ \E e \in Starts : env.combo = e.combo
    /\ DOMAIN disk = {"policy", "store", "declined", "gpuProfile"}
    /\ DOMAIN rt = {"lane", "widths", "affinity", "measuring"}
    /\ DOMAIN tune = {"step", "left", "best", "variant", "queue", "cached", "interrupted"}

Stored == \A k \in DOMAIN disk.policy : disk.policy[k] = Cut \/ Fits(disk.policy[k])

Untouched ==
    at \in {"configure", "firstRun", "prompt", "display", "bench", "run", "beginTuning"} =>
        /\ tune.step = "idle" /\ rt.widths = Scalar /\ pool = NoPool
        /\ cfg.threads = env.cfg.threads

Decided == tune.step \in {"save", "write"} \/ (tune.step = "returned" /\ ~tune.interrupted)
Searching ==
    at \in {"tuning", "benchTuning"} =>
        /\ cfg.threads = env.cfg.threads /\ pool = NoPool
        /\ \A p \in tune.left : p[1] \in Allowed
        /\ DOMAIN tune.best = PolicyFields
        /\ tune.best.threads \in Allowed /\ tune.best.widths \in WidthPolicies
        /\ tune.step = "widths" => tune.queue \in Seq({2, 4}) \ {<<>>}
        /\ tune.step = "validate" \/ Decided => tune.best.lanes = MaxWidth(tune.best.widths)
        /\ Decided => Proven(tune.best.widths) /\ rt.widths = tune.best.widths

Settled ==
    at = "devices" =>
        /\ pool = NoPool /\ cfg.lanes = MaxWidth(rt.widths) /\ Proven(rt.widths)
        /\ cfg.threads \in Nat
        /\ tune.step = "returned" => cfg.threads \in Allowed

Bound(threads) ==
    tune.step = "returned" /\ env.workers \notin 1 .. env.hw => threads \in Allowed
Equipped ==
    /\ DOMAIN pool = PoolFields /\ pool.step \notin {"none", "flush", "flushWrite"}
    /\ Bound(pool.threads) /\ pool.lanes = MaxWidth(pool.base)
    /\ Proven(pool.base) /\ Spread(pool.cpus)
Ready ==
    /\ cfg.threads \in Nat /\ Bound(cfg.threads)
    /\ rt.lane = MaxWidth(rt.widths) /\ Proven(rt.widths)
Mining == at = "mining" => IF pool = NoPool THEN Ready ELSE Equipped

TInv == Started /\ Stored /\ Untouched /\ Searching /\ Settled /\ Mining

LEMMA TypeOfSettings ==
    ASSUME KnownStart(env)
    PROVE  /\ env.hw \in Nat \ {0} /\ env.cfg.threads \in Nat
           /\ {"threads", "lanes", "batch", "mode"} \subseteq DOMAIN env.cfg
           /\ {"hw", "kernels", "cores", "combo", "workers", "cfg", "then", "retune",
               "gpuCalibrate", "schedules"} \subseteq DOMAIN env
           /\ Topology(env.cores, env.hw)
  <1>1. env.cfg \in Settings
    BY DEF KnownStart
  <1>2. env.cfg.threads \in Nat /\ {"threads", "lanes", "batch", "mode"} \subseteq DOMAIN env.cfg
    BY <1>1 DEF Settings
  <1> QED  BY <1>2 DEF KnownStart

LEMMA AllowedFacts ==
    ASSUME KnownStart(env)
    PROVE  Allowed \subseteq Nat \ {0}
  BY DEF Allowed

(* The ceiling is what the user allowed, until the tuning is done.         *)
LEMMA CeilingFacts ==
    ASSUME KnownStart(env), cfg.threads = env.cfg.threads
    PROVE  Ceiling \in Nat \ {0} /\ Allowed = 1 .. Ceiling
  <1>1. env.hw \in Nat \ {0} /\ env.cfg.threads \in Nat
    BY TypeOfSettings
  <1>2. CASE env.cfg.threads = 0
    BY <1>1, <1>2 DEF Ceiling, Allowed
  <1>3. CASE env.cfg.threads # 0
    <2>1. Min({env.cfg.threads, env.hw}) \in Nat \ {0}
      BY <1>1, <1>3, MinPair
    <2> QED  BY <1>3, <2>1 DEF Ceiling, Allowed
  <1> QED  BY <1>2, <1>3

LEMMA ScalarFacts == Scalar \in WidthPolicies /\ MaxWidth(Scalar) = 1 /\ Proven(Scalar)
  <1>1. 0 \in Variants
    BY CnHashAssumption DEF Variants
  <1>2. Scalar \in WidthPolicies
    BY DEF Scalar, WidthPolicies, Widths
  <1>3. {Scalar[v] : v \in Variants} = {1}
    BY <1>1 DEF Scalar
  <1>4. \A v \in Variants : Scalar[v] <= 1
    BY DEF Scalar
  <1>5. MaxWidth(Scalar) = 1
    BY <1>3, <1>4 DEF MaxWidth
  <1> QED  BY <1>2, <1>5 DEF Proven

LEMMA SameProven ==
    ASSUME NEW w, env'.kernels = env.kernels, env'.combo = env.combo
    PROVE  Proven(w)' <=> Proven(w)
  BY DEF Proven, WidthParity

LEMMA SameSpread ==
    ASSUME NEW cpus, env'.cores = env.cores
    PROVE  Spread(cpus)' <=> Spread(cpus)
  BY DEF Spread

(* The parts of the invariant where the process is not tuning or mining.   *)
Idling == {"closing", "exit", "statics", "off", "benchmarking"}

LEMMA AwayStep ==
    ASSUME Started', Stored', at' \in Idling
    PROVE  TInv'
  BY DEF TInv, Untouched, Searching, Settled, Mining, Idling

LEMMA SameStored ==
    ASSUME TInv, disk'.policy = disk.policy
    PROVE  Stored'
  BY DEF TInv, Stored

(* The records keep their names, and the start is what it was.             *)
Shaped ==
    /\ DOMAIN cfg' = DOMAIN cfg /\ DOMAIN disk' = DOMAIN disk
    /\ DOMAIN rt' = DOMAIN rt /\ DOMAIN tune' = DOMAIN tune

LEMMA SameStart ==
    ASSUME TInv, UNCHANGED env, Shaped, at # "off"
    PROVE  Started'
  <1>1. Started /\ KnownStart(env)
    BY DEF TInv, Started
  <1>2. KnownStart(env)' <=> KnownStart(env)
    BY DEF KnownStart
  <1> QED  BY <1>1, <1>2 DEF Started, Shaped

LEMMA IdleStep ==
    ASSUME TInv, UNCHANGED <<env, cfg, disk, rt, tune, pool, at>>
    PROVE  TInv'
  <1>1. Started /\ Stored /\ Untouched /\ Searching /\ Settled /\ Mining
    BY DEF TInv
  <1>2. Started' /\ Stored'
    BY <1>1 DEF Started, Stored
  <1>3. Untouched'
    BY <1>1 DEF Untouched
  <1>4. ASSUME NEW w PROVE Proven(w)' <=> Proven(w)
    BY SameProven
  <1>5. Allowed' = Allowed
    BY DEF Allowed
  <1>6. PICK b, w : b = tune.best.widths /\ w = rt.widths
    OBVIOUS
  <1>7. Searching'
    <2>1. Decided' <=> Decided
      BY DEF Decided
    <2>2. Proven(tune.best.widths)' <=> Proven(tune.best.widths)
      BY DEF Proven, WidthParity
    <2> QED  BY <1>1, <1>5, <2>1, <2>2 DEF Searching
  <1>8. Proven(rt.widths)' <=> Proven(rt.widths)
    BY DEF Proven, WidthParity
  <1>9. Settled'
    BY <1>1, <1>5, <1>8 DEF Settled
  <1>10. Mining'
    <2>1. Ready' <=> Ready
      BY <1>5, <1>8 DEF Ready, Bound
    <2>2. Proven(pool.base)' <=> Proven(pool.base)
      BY DEF Proven, WidthParity
    <2>3. Spread(pool.cpus)' <=> Spread(pool.cpus)
      BY DEF Spread
    <2>4. Equipped' <=> Equipped
      BY <1>5, <2>2, <2>3 DEF Equipped, Bound
    <2> QED  BY <1>1, <2>1, <2>4 DEF Mining
  <1> QED  BY <1>2, <1>3, <1>7, <1>9, <1>10 DEF TInv

LEMMA UntouchedStep ==
    ASSUME TInv, UNCHANGED env, Shaped, disk'.policy = disk.policy, at # "off",
           at' \in {"configure", "firstRun", "prompt", "display", "bench", "run", "beginTuning"},
           Untouched'
    PROVE  TInv'
  <1>1. Started' /\ Stored'
    BY SameStart, SameStored
  <1> QED  BY <1>1 DEF TInv, Searching, Settled, Mining

LEMMA InitTInv == Init => TInv
  <1> SUFFICES ASSUME Init PROVE TInv
    OBVIOUS
  <1>1. env.then \subseteq Starts
    BY StartsAssumption DEF Init
  <1>2. Started
    BY <1>1 DEF Init, Started, RuntimeInit, IdleTune
  <1>3. Stored
    BY DEF Init, Stored
  <1> QED  BY <1>2, <1>3 DEF Init, TInv, Untouched, Searching, Settled, Mining

LEMMA StartStep == ASSUME TInv, Start PROVE TInv'
  <1>1. PICK e \in Starts : env' = e /\ cfg' = e.cfg
    BY DEF TInv, Started, Start
  <1>2. KnownStart(e) /\ e.then \subseteq Starts
    BY StartsAssumption DEF KnownStart
  <1>3. /\ rt' = [lane |-> 1, widths |-> Scalar, affinity |-> "unpinned", measuring |-> FALSE]
        /\ tune' = [step |-> "idle", left |-> {}, best |-> None, variant |-> 0, queue |-> <<>>,
                    cached |-> FALSE, interrupted |-> FALSE]
        /\ pool' = NoPool /\ at' = "configure" /\ disk' = disk
    BY DEF Start, RuntimeInit, IdleTune
  <1>4. Started'
    BY <1>1, <1>2, <1>3 DEF TInv, Started
  <1>5. Stored'
    BY <1>3, SameStored
  <1>6. Untouched'
    BY <1>1, <1>3 DEF Untouched
  <1> QED  BY <1>3, <1>4, <1>5, <1>6 DEF TInv, Searching, Settled, Mining

(* The steps before the tuning change the mode at most.                    *)
LEMMA EarlySteps ==
    ASSUME TInv, Configure \/ FirstRun \/ Prompt \/ Display
    PROVE  TInv'
  <1>1. /\ at \in {"configure", "firstRun", "prompt", "display"}
        /\ UNCHANGED <<env, tune, pool>>
    BY DEF Configure, FirstRun, Prompt, Display, tuningVars, poolVars
  <1>2. KnownStart(env) /\ Started /\ Untouched
    BY <1>1 DEF TInv, Started
  <1>3. "threads" \in DOMAIN cfg
    BY <1>1, <1>2, TypeOfSettings DEF Started
  <1>4. at' \in {"firstRun", "prompt", "display", "bench", "run", "closing", "statics"}
    BY DEF Configure, FirstRun, Prompt, Display, Go, Leave
  <1>5. cfg'.threads = cfg.threads /\ DOMAIN cfg' = DOMAIN cfg
    <2>1. CASE Configure \/ Display
      BY <2>1 DEF Configure, Display, tuningVars
    <2>2. SafeConfig.threads = cfg.threads /\ DOMAIN SafeConfig = DOMAIN cfg
      BY <1>3 DEF SafeConfig
    <2>3. CASE FirstRun
      BY <2>2, <2>3 DEF FirstRun
    <2>4. CASE Prompt
      BY <1>3, <2>2, <2>4 DEF Prompt
    <2> QED  BY <2>1, <2>3, <2>4
  <1>6. disk'.policy = disk.policy /\ DOMAIN disk' = DOMAIN disk
    <2>1. CASE disk' = disk
      BY <2>1
    <2>2. CASE Prompt
      BY <1>2, <2>2 DEF Prompt, Started
    <2> QED  BY <2>1, <2>2 DEF Configure, FirstRun, Display, tuningVars
  <1>7. rt'.widths = rt.widths /\ DOMAIN rt' = DOMAIN rt
    <2>1. CASE rt' = rt
      BY <2>1
    <2>2. CASE Display
      BY <1>2, <2>2 DEF Display, Started
    <2> QED  BY <2>1, <2>2 DEF Configure, FirstRun, Prompt, tuningVars
  <1>8. Shaped
    BY <1>1, <1>5, <1>6, <1>7 DEF Shaped
  <1>9. Started' /\ Stored'
    BY <1>1, <1>6, <1>8, SameStart, SameStored
  <1>10. CASE at' \in {"closing", "statics"}
    BY <1>9, <1>10, AwayStep DEF Idling
  <1>11. CASE at' \notin {"closing", "statics"}
    <2>1. Untouched'
      BY <1>1, <1>2, <1>5, <1>7 DEF Untouched
    <2> QED  BY <1>1, <1>4, <1>6, <1>8, <1>11, <2>1, UntouchedStep
  <1> QED  BY <1>10, <1>11

(* A step of the tuning leaves a plan b that the user allowed.             *)
LEMMA SearchStep ==
    ASSUME TInv, UNCHANGED <<env, cfg, pool>>, Shaped, Stored', at # "off",
           at' \in {"tuning", "benchTuning"}, pool = NoPool, cfg.threads = env.cfg.threads,
           \A p \in tune'.left : p[1] \in Allowed,
           NEW b, tune'.best = b, DOMAIN b = PolicyFields,
           b.threads \in Allowed, b.widths \in WidthPolicies,
           tune'.step = "widths" => tune'.queue \in Seq({2, 4}) \ {<<>>},
           tune'.step = "validate" \/ Decided' => b.lanes = MaxWidth(b.widths),
           Decided' => Proven(b.widths) /\ rt'.widths = b.widths
    PROVE  TInv'
  <1>1. Started'
    BY SameStart
  <1>2. Allowed' = Allowed
    BY DEF Allowed
  <1>3. Proven(b.widths)' <=> Proven(b.widths)
    BY DEF Proven, WidthParity
  <1>4. Proven(tune.best.widths)' <=> Proven(b.widths)
    BY <1>3 DEF Proven, WidthParity
  <1>5. Searching'
    BY <1>2, <1>4 DEF Searching
  <1> QED  BY <1>1, <1>5 DEF TInv, Untouched, Settled, Mining

LEMMA WorkersAllowed ==
    ASSUME KnownStart(env), cfg.threads = env.cfg.threads, NEW p \in Plans
    PROVE  p[1] \in Allowed
  <1>1. Ceiling \in Nat \ {0} /\ Allowed = 1 .. Ceiling
    BY CeilingFacts
  <1>2. p[1] \in WorkersFor
    BY DEF Plans
  <1>3. PICK n \in Nat \ {0} : n = Ceiling
    BY <1>1
  <1>4. Ceiling \div 2 \in Nat /\ Ceiling \div 2 <= Ceiling
    BY <1>3
  <1>5. Max({1, Ceiling \div 2}) \in 1 .. Ceiling
    BY <1>1, <1>4, MaxPair
  <1>6. Ceiling \in 1 .. Ceiling /\ (Ceiling - 1 # 0 => Ceiling - 1 \in 1 .. Ceiling)
    BY <1>1
  <1>7. \/ p[1] \in 1 .. Ceiling \/ p[1] = Ceiling \/ p[1] = Max({1, Ceiling \div 2})
        \/ p[1] = Ceiling - 1 /\ p[1] # 0
    BY <1>2, Zenon DEF WorkersFor
  <1> QED  BY <1>1, <1>5, <1>6, <1>7

LEMMA UntunedFacts ==
    ASSUME KnownStart(env), cfg.threads = env.cfg.threads
    PROVE  /\ DOMAIN Untuned = PolicyFields /\ Untuned.threads \in Allowed
           /\ Untuned.widths = Scalar /\ Untuned.lanes = 1
  <1>1. Ceiling \in Allowed
    BY CeilingFacts
  <1> QED  BY <1>1 DEF Untuned, PolicyFields

LEMMA BeginStep ==
    ASSUME TInv, at \in {"bench", "beginTuning"}, BeginTuning,
           at' \in {"tuning", "benchTuning"}, UNCHANGED <<env, cfg, disk, pool>>
    PROVE  TInv'
  <1>1. /\ KnownStart(env) /\ Started /\ Untouched /\ Stored
        /\ rt.widths = Scalar /\ pool = NoPool /\ cfg.threads = env.cfg.threads
    BY DEF TInv, Started, Untouched
  <1>2. Ceiling \in Nat \ {0} /\ Allowed = 1 .. Ceiling
    BY <1>1, CeilingFacts
  <1>3. DOMAIN rt = {"lane", "widths", "affinity", "measuring"}
    BY <1>1 DEF Started
  <1>4. Stored' /\ at # "off"
    BY SameStored
  <1>5. ASSUME NEW t, tune' = t, DOMAIN t = DOMAIN tune, t.step = "returned" \/ t.step = "plans",
               \A p \in t.left : p[1] \in Allowed, t.best = Untuned,
               DOMAIN rt' = DOMAIN rt, rt'.widths = rt.widths
        PROVE  TInv'
    <2>1. Shaped
      BY <1>5 DEF Shaped
    <2>2. PICK b : b = Untuned
      OBVIOUS
    <2>3. DOMAIN b = PolicyFields /\ b.threads \in Allowed /\ b.widths = Scalar /\ b.lanes = 1
      BY <1>1, <2>2, UntunedFacts
    <2>4. b.widths \in WidthPolicies /\ b.lanes = MaxWidth(b.widths) /\ Proven(b.widths)
      BY <2>3, ScalarFacts
    <2>5. tune'.step # "widths" /\ tune'.step # "validate" /\ rt'.widths = b.widths
      BY <1>1, <1>5, <2>3
    <2> QED  BY <1>1, <1>4, <1>5, <2>1, <2>2, <2>3, <2>4, <2>5, SearchStep
  <1>6. CASE TuningOff /\ tune' = [IdleTune EXCEPT !.step = "returned", !.best = Untuned]
             /\ rt' = [rt EXCEPT !.affinity = "unpinned"]
    <2>1. PICK t : t = tune'
      OBVIOUS
    <2>2. t = [step |-> "returned", left |-> {}, best |-> Untuned, variant |-> 0, queue |-> <<>>,
               cached |-> FALSE, interrupted |-> FALSE]
      BY <1>6, <2>1 DEF IdleTune
    <2>3. DOMAIN t = DOMAIN tune
      BY <1>1, <2>2 DEF Started
    <2>4. DOMAIN rt' = DOMAIN rt /\ rt'.widths = rt.widths
      BY <1>3, <1>6
    <2> QED  BY <1>5, <2>1, <2>2, <2>3, <2>4
  <1>7. CASE tune' = [IdleTune EXCEPT !.step = "plans", !.left = Plans, !.best = Untuned]
             /\ rt' = [rt EXCEPT !.affinity = "unpinned"]
    <2>1. PICK t : t = tune'
      OBVIOUS
    <2>2. t = [step |-> "plans", left |-> Plans, best |-> Untuned, variant |-> 0, queue |-> <<>>,
               cached |-> FALSE, interrupted |-> FALSE]
      BY <1>7, <2>1 DEF IdleTune
    <2>3. DOMAIN t = DOMAIN tune
      BY <1>1, <2>2 DEF Started
    <2>4. DOMAIN rt' = DOMAIN rt /\ rt'.widths = rt.widths
      BY <1>3, <1>7
    <2>5. \A p \in t.left : p[1] \in Allowed
      BY <1>1, <2>2, WorkersAllowed
    <2> QED  BY <1>5, <2>1, <2>2, <2>3, <2>4, <2>5
  <1>8. ASSUME NEW c \in Compatible, NEW b, b = disk.policy[<<c, cfg.mode>>],
               tune' = [IdleTune EXCEPT !.best = b, !.cached = TRUE,
                            !.step = IF c = Ceiling THEN "returned" ELSE "save"],
               rt' = [rt EXCEPT !.widths = b.widths, !.affinity = b.affinity]
        PROVE  TInv'
    <2>1. /\ <<c, cfg.mode>> \in DOMAIN disk.policy /\ b # Cut /\ b.threads <= Ceiling
          /\ WidthParity(b.widths)
      BY <1>8 DEF Compatible
    <2>2. Fits(b)
      BY <1>1, <1>8, <2>1 DEF Stored
    <2>3. /\ DOMAIN b = PolicyFields /\ b.threads \in Allowed /\ b.widths \in WidthPolicies
          /\ b.lanes = MaxWidth(b.widths) /\ Proven(b.widths)
      BY <1>2, <2>1, <2>2 DEF Fits, Proven
    <2>4. PICK s \in {"returned", "save"} : s = IF c = Ceiling THEN "returned" ELSE "save"
      OBVIOUS
    <2>5. tune' = [step |-> s, left |-> {}, best |-> b, variant |-> 0, queue |-> <<>>,
                   cached |-> TRUE, interrupted |-> FALSE]
      BY <1>8, <2>4 DEF IdleTune
    <2>6. DOMAIN tune' = DOMAIN tune
      BY <1>1, <2>5 DEF Started
    <2>7. DOMAIN rt' = DOMAIN rt /\ rt'.widths = b.widths
      BY <1>3, <1>8
    <2>8. Shaped
      BY <2>6, <2>7 DEF Shaped
    <2>9. /\ tune'.best = b /\ tune'.left = {}
          /\ tune'.step # "widths" /\ tune'.step # "validate"
      BY <2>4, <2>5
    <2> QED  BY <1>1, <1>4, <2>3, <2>7, <2>8, <2>9, SearchStep
  <1> QED  BY <1>6, <1>7, <1>8 DEF BeginTuning

(* The steps of the search, none of which touches the disk.                *)
SearchContext ==
    at \in {"tuning", "benchTuning"} /\ UNCHANGED <<env, cfg, pool, at>>

LEMMA SearchFacts ==
    ASSUME TInv, at \in {"tuning", "benchTuning"}
    PROVE  /\ KnownStart(env) /\ Stored /\ pool = NoPool /\ cfg.threads = env.cfg.threads
           /\ DOMAIN rt = {"lane", "widths", "affinity", "measuring"}
           /\ DOMAIN tune = {"step", "left", "best", "variant", "queue", "cached", "interrupted"}
           /\ DOMAIN disk = {"policy", "store", "declined", "gpuProfile"}
           /\ \A p \in tune.left : p[1] \in Allowed
           /\ DOMAIN tune.best = PolicyFields
           /\ tune.best.threads \in Allowed /\ tune.best.widths \in WidthPolicies
           /\ tune.step = "widths" => tune.queue \in Seq({2, 4}) \ {<<>>}
           /\ tune.step = "validate" \/ Decided => tune.best.lanes = MaxWidth(tune.best.widths)
           /\ Decided => Proven(tune.best.widths) /\ rt.widths = tune.best.widths
  BY DEF TInv, Started, Searching

LEMMA SearchingStep ==
    ASSUME TInv, SearchContext, UNCHANGED disk,
           NEW t, tune' = t, DOMAIN t = DOMAIN tune, t.left \subseteq tune.left,
           NEW r, rt' = r, DOMAIN r = DOMAIN rt,
           NEW b, t.best = b, DOMAIN b = PolicyFields,
           b.threads \in Allowed, b.widths \in WidthPolicies,
           t.step \in {"plans", "variants", "widths", "validate", "save"}
               \/ (t.step = "returned" /\ t.interrupted),
           t.step = "widths" => t.queue \in Seq({2, 4}) \ {<<>>},
           t.step \in {"validate", "save"} => b.lanes = MaxWidth(b.widths),
           t.step = "save" => Proven(b.widths) /\ r.widths = b.widths
    PROVE  TInv'
  <1>1. /\ KnownStart(env) /\ Stored /\ pool = NoPool /\ cfg.threads = env.cfg.threads
        /\ \A p \in tune.left : p[1] \in Allowed
    BY SearchFacts DEF SearchContext
  <1>2. Shaped /\ Stored' /\ at # "off"
    BY <1>1, SameStored DEF Shaped, SearchContext
  <1>3. Decided' => t.step = "save"
    BY DEF Decided
  <1>4. at' \in {"tuning", "benchTuning"} /\ UNCHANGED <<env, cfg, pool>>
    BY DEF SearchContext
  <1>5. \A p \in tune'.left : p[1] \in Allowed
    BY <1>1
  <1>6. tune'.step = "widths" => tune'.queue \in Seq({2, 4}) \ {<<>>}
    OBVIOUS
  <1>7. tune'.best = b /\ (tune'.step = "validate" \/ Decided' => b.lanes = MaxWidth(b.widths))
    BY <1>3
  <1>8. Decided' => Proven(b.widths) /\ rt'.widths = b.widths
    BY <1>3
  <1> QED  BY <1>1, <1>2, <1>4, <1>5, <1>6, <1>7, <1>8, SearchStep

LEMMA MeasuredFacts ==
    ASSUME NEW affinity, NEW widths, DOMAIN rt = {"lane", "widths", "affinity", "measuring"}
    PROVE  DOMAIN Measured(affinity, widths) = DOMAIN rt
  BY DEF Measured

LEMMA InterruptStep ==
    ASSUME TInv, SearchContext, UNCHANGED disk, Interrupt
    PROVE  TInv'
  <1>1. PICK t : t = tune'
    OBVIOUS
  <1>2. t = [tune EXCEPT !.step = "returned", !.interrupted = TRUE] /\ rt' = rt
    BY <1>1 DEF Interrupt
  <1>3. /\ DOMAIN tune = {"step", "left", "best", "variant", "queue", "cached", "interrupted"}
        /\ DOMAIN tune.best = PolicyFields
        /\ tune.best.threads \in Allowed /\ tune.best.widths \in WidthPolicies
    BY SearchFacts DEF SearchContext
  <1>4. /\ DOMAIN t = DOMAIN tune /\ t.left = tune.left /\ t.best = tune.best
        /\ t.step = "returned" /\ t.interrupted
    BY <1>2, <1>3
  <1> QED  BY <1>1, <1>2, <1>3, <1>4, SearchingStep

LEMMA PlanStep ==
    ASSUME TInv, SearchContext, UNCHANGED disk, NEW p, p[1] \in Allowed,
           NEW left \in SUBSET tune.left, NEW step \in {"plans", "variants"},
           NEW b, b = [tune.best EXCEPT !.threads = p[1], !.batch = p[2]] \/ b = tune.best,
           tune' = [tune EXCEPT !.left = left, !.step = step, !.best = b],
           rt' = Measured("unpinned", Scalar)
    PROVE  TInv'
  <1>1. PICK t : t = tune'
    OBVIOUS
  <1>2. /\ DOMAIN tune = {"step", "left", "best", "variant", "queue", "cached", "interrupted"}
        /\ DOMAIN rt = {"lane", "widths", "affinity", "measuring"}
        /\ DOMAIN tune.best = PolicyFields
        /\ tune.best.threads \in Allowed /\ tune.best.widths \in WidthPolicies
    BY SearchFacts DEF SearchContext
  <1>3. DOMAIN b = PolicyFields /\ b.threads \in Allowed /\ b.widths \in WidthPolicies
    BY <1>2 DEF PolicyFields
  <1>4. DOMAIN t = DOMAIN tune /\ t.left = left /\ t.best = b /\ t.step = step
    BY <1>1, <1>2
  <1>5. PICK r : rt' = r /\ DOMAIN r = DOMAIN rt
    BY <1>2, MeasuredFacts
  <1> QED  BY <1>1, <1>3, <1>4, <1>5, SearchingStep

LEMMA TestPlanStep ==
    ASSUME TInv, SearchContext, UNCHANGED disk, TestPlan
    PROVE  TInv'
  <1>1. DOMAIN tune = {"step", "left", "best", "variant", "queue", "cached", "interrupted"}
        /\ \A p \in tune.left : p[1] \in Allowed
    BY SearchFacts DEF SearchContext
  <1>2. CASE Interrupt
    BY <1>2, InterruptStep
  <1>3. CASE ~Interrupt
    <2>1. PICK p \in tune.left, wins \in MayWin :
            /\ tune' = [tune EXCEPT !.left = @ \ {p},
                        !.best = IF wins THEN [@ EXCEPT !.threads = p[1], !.batch = p[2]] ELSE @]
            /\ rt' = Measured("unpinned", Scalar)
      BY <1>3 DEF TestPlan
    <2>2. tune.step = "plans"
      BY DEF TestPlan
    <2>3. PICK b : b = IF wins THEN [tune.best EXCEPT !.threads = p[1], !.batch = p[2]]
                       ELSE tune.best
      OBVIOUS
    <2>4. PICK left \in SUBSET tune.left, step \in {"plans", "variants"} :
            left = tune.left \ {p} /\ step = "plans"
      OBVIOUS
    <2>5. tune' = [tune EXCEPT !.left = left, !.step = step, !.best = b]
      BY <1>1, <2>1, <2>2, <2>3, <2>4
    <2>6. b = [tune.best EXCEPT !.threads = p[1], !.batch = p[2]] \/ b = tune.best
      BY <2>3
    <2>7. p[1] \in Allowed /\ rt' = Measured("unpinned", Scalar)
      BY <1>1, <2>1
    <2> QED  BY <2>5, <2>6, <2>7, PlanStep
  <1> QED  BY <1>2, <1>3

LEMMA ConfirmPlansStep ==
    ASSUME TInv, SearchContext, UNCHANGED disk, ConfirmPlans
    PROVE  TInv'
  <1>1. /\ DOMAIN tune = {"step", "left", "best", "variant", "queue", "cached", "interrupted"}
        /\ KnownStart(env) /\ cfg.threads = env.cfg.threads
    BY SearchFacts DEF SearchContext
  <1>2. CASE Interrupt
    BY <1>2, InterruptStep
  <1>3. CASE ~Interrupt
    <2>1. PICK p \in Plans :
            /\ tune' = [tune EXCEPT !.step = "variants",
                        !.best = [@ EXCEPT !.threads = p[1], !.batch = p[2]]]
            /\ rt' = Measured("unpinned", Scalar)
      BY <1>3 DEF ConfirmPlans
    <2>2. p[1] \in Allowed
      BY <1>1, WorkersAllowed
    <2>3. PICK b : b = [tune.best EXCEPT !.threads = p[1], !.batch = p[2]]
      OBVIOUS
    <2>4. PICK left \in SUBSET tune.left, step \in {"plans", "variants"} :
            left = tune.left /\ step = "variants"
      OBVIOUS
    <2>5. tune' = [tune EXCEPT !.left = left, !.step = step, !.best = b]
      BY <1>1, <2>1, <2>3, <2>4
    <2>6. b = [tune.best EXCEPT !.threads = p[1], !.batch = p[2]] \/ b = tune.best
      BY <2>3
    <2>7. rt' = Measured("unpinned", Scalar)
      BY <2>1
    <2> QED  BY <2>2, <2>5, <2>6, <2>7, PlanStep
  <1> QED  BY <1>2, <1>3

LEMMA NextVariantFacts ==
    ASSUME NEW t, DOMAIN t = {"step", "left", "best", "variant", "queue", "cached", "interrupted"},
           t.step = "widths", t.queue \in Seq({2, 4})
    PROVE  /\ DOMAIN NextVariant(t) = DOMAIN t /\ NextVariant(t).best = t.best
           /\ NextVariant(t).left = t.left /\ NextVariant(t).step \in {"variants", "widths"}
           /\ NextVariant(t).step = "widths" => NextVariant(t).queue \in Seq({2, 4}) \ {<<>>}
  <1>1. CASE t.queue = <<>>
    BY <1>1 DEF NextVariant
  <1>2. CASE t.queue # <<>>
    BY <1>2 DEF NextVariant
  <1> QED  BY <1>1, <1>2

LEMMA ProbeVariantStep ==
    ASSUME TInv, SearchContext, UNCHANGED disk, ProbeVariant
    PROVE  TInv'
  <1>1. /\ DOMAIN tune = {"step", "left", "best", "variant", "queue", "cached", "interrupted"}
        /\ DOMAIN tune.best = PolicyFields
        /\ tune.best.threads \in Allowed /\ tune.best.widths \in WidthPolicies
    BY SearchFacts DEF SearchContext
  <1>2. CASE Interrupt
    BY <1>2, InterruptStep
  <1>3. CASE ~Interrupt
    <2>1. PICK q \in {<<>>, <<2>>, <<4>>, <<2, 4>>, <<4, 2>>} :
            tune' = NextVariant([tune EXCEPT !.step = "widths", !.queue = q])
      BY <1>3 DEF ProbeVariant
    <2>2. rt' = rt
      BY <1>3 DEF ProbeVariant
    <2>3. PICK u : u = [tune EXCEPT !.step = "widths", !.queue = q]
      OBVIOUS
    <2>4. /\ DOMAIN u = {"step", "left", "best", "variant", "queue", "cached", "interrupted"}
          /\ u.step = "widths" /\ u.queue = q /\ u.best = tune.best /\ u.left = tune.left
      BY <1>1, <2>3
    <2>5. q \in Seq({2, 4})
      <3>1. <<>> \in Seq({2, 4}) /\ <<2>> \in Seq({2, 4}) /\ <<4>> \in Seq({2, 4})
        OBVIOUS
      <3>2. <<2, 4>> \in Seq({2, 4}) /\ <<4, 2>> \in Seq({2, 4})
        OBVIOUS
      <3> QED  BY <3>1, <3>2
    <2>6. PICK t : t = NextVariant(u) /\ tune' = t
      BY <2>1, <2>3
    <2>7. /\ DOMAIN t = DOMAIN tune /\ t.best = tune.best /\ t.left = tune.left
          /\ t.step \in {"variants", "widths"}
          /\ t.step = "widths" => t.queue \in Seq({2, 4}) \ {<<>>}
      BY <1>1, <2>4, <2>5, <2>6, NextVariantFacts
    <2> QED  BY <1>1, <2>2, <2>6, <2>7, SearchingStep
  <1> QED  BY <1>2, <1>3

LEMMA ConfirmWidthStep ==
    ASSUME TInv, SearchContext, UNCHANGED disk, ConfirmWidth
    PROVE  TInv'
  <1>1. /\ DOMAIN tune = {"step", "left", "best", "variant", "queue", "cached", "interrupted"}
        /\ DOMAIN rt = {"lane", "widths", "affinity", "measuring"}
        /\ DOMAIN tune.best = PolicyFields
        /\ tune.best.threads \in Allowed /\ tune.best.widths \in WidthPolicies
        /\ tune.step = "widths" /\ tune.queue \in Seq({2, 4}) \ {<<>>}
    BY SearchFacts DEF SearchContext, ConfirmWidth
  <1>2. PICK candidate : candidate = WithWidth(tune.best.widths, tune.variant, Head(tune.queue))
    OBVIOUS
  <1>3. candidate \in WidthPolicies
    <2>1. Head(tune.queue) \in Widths
      BY <1>1 DEF Widths
    <2> QED  BY <1>1, <1>2, <2>1 DEF WithWidth, WidthPolicies
  <1>4. PICK wins \in MayWin :
          /\ tune' = NextVariant(
                IF wins /\ WidthParity(candidate)
                THEN [tune EXCEPT !.best.widths = candidate, !.queue = <<>>]
                ELSE [tune EXCEPT !.queue = Tail(@)])
          /\ rt' = Measured("unpinned", candidate)
    BY <1>2 DEF ConfirmWidth
  <1>5. PICK u : u = IF wins /\ WidthParity(candidate)
                     THEN [tune EXCEPT !.best.widths = candidate, !.queue = <<>>]
                     ELSE [tune EXCEPT !.queue = Tail(@)]
    OBVIOUS
  <1>6. /\ DOMAIN u = {"step", "left", "best", "variant", "queue", "cached", "interrupted"}
        /\ u.step = "widths" /\ u.queue \in Seq({2, 4}) /\ u.left = tune.left
        /\ DOMAIN u.best = PolicyFields
        /\ u.best.threads \in Allowed /\ u.best.widths \in WidthPolicies
    <2>1. CASE u = [tune EXCEPT !.queue = Tail(@)]
      <3>1. Tail(tune.queue) \in Seq({2, 4})
        BY <1>1
      <3> QED  BY <1>1, <2>1, <3>1
    <2>2. CASE u = [tune EXCEPT !.best.widths = candidate, !.queue = <<>>]
      <3>1. PICK b : b = [tune.best EXCEPT !.widths = candidate]
        OBVIOUS
      <3>2. DOMAIN b = PolicyFields /\ b.threads \in Allowed /\ b.widths \in WidthPolicies
        BY <1>1, <1>3, <3>1 DEF PolicyFields
      <3>3. u = [tune EXCEPT !.best = b, !.queue = <<>>]
        BY <1>1, <2>2, <3>1
      <3> QED  BY <1>1, <3>2, <3>3
    <2> QED  BY <1>5, <2>1, <2>2
  <1>7. PICK t : t = NextVariant(u) /\ tune' = t
    BY <1>4, <1>5
  <1>8. /\ DOMAIN t = DOMAIN tune /\ t.best = u.best /\ t.left = tune.left
        /\ t.step \in {"variants", "widths"}
        /\ t.step = "widths" => t.queue \in Seq({2, 4}) \ {<<>>}
    BY <1>1, <1>6, <1>7, NextVariantFacts
  <1>9. PICK r : rt' = r /\ DOMAIN r = DOMAIN rt
    BY <1>1, <1>4, MeasuredFacts
  <1>10. PICK b : b = u.best
    OBVIOUS
  <1> QED  BY <1>6, <1>7, <1>8, <1>9, <1>10, SearchingStep

LEMMA ChooseAffinityStep ==
    ASSUME TInv, SearchContext, UNCHANGED disk, ChooseAffinity
    PROVE  TInv'
  <1>1. /\ DOMAIN tune = {"step", "left", "best", "variant", "queue", "cached", "interrupted"}
        /\ DOMAIN rt = {"lane", "widths", "affinity", "measuring"}
        /\ DOMAIN tune.best = PolicyFields
        /\ tune.best.threads \in Allowed /\ tune.best.widths \in WidthPolicies
    BY SearchFacts DEF SearchContext
  <1>2. PICK affinity :
          /\ tune' = [tune EXCEPT !.step = "validate", !.best.affinity = affinity,
                            !.best.lanes = MaxWidth(tune.best.widths)]
          /\ rt' = [Measured(affinity, tune.best.widths) EXCEPT !.widths = tune.best.widths]
    BY DEF ChooseAffinity
  <1>3. PICK b : b = [tune.best EXCEPT !.affinity = affinity,
                                      !.lanes = MaxWidth(tune.best.widths)]
    OBVIOUS
  <1>4. /\ DOMAIN b = PolicyFields /\ b.threads \in Allowed /\ b.widths \in WidthPolicies
        /\ b.lanes = MaxWidth(b.widths)
    BY <1>1, <1>3 DEF PolicyFields
  <1>5. PICK t : t = tune'
    OBVIOUS
  <1>6. t = [tune EXCEPT !.step = "validate", !.best = b]
    BY <1>1, <1>2, <1>3, <1>5
  <1>7. DOMAIN t = DOMAIN tune /\ t.left = tune.left /\ t.best = b /\ t.step = "validate"
    BY <1>1, <1>6
  <1>8. PICK m : m = Measured(affinity, tune.best.widths) /\ DOMAIN m = DOMAIN rt
    BY <1>1, MeasuredFacts
  <1>9. PICK r : rt' = r /\ DOMAIN r = DOMAIN rt
    BY <1>2, <1>8
  <1> QED  BY <1>4, <1>5, <1>7, <1>9, SearchingStep

LEMMA FinalValidationStep ==
    ASSUME TInv, SearchContext, UNCHANGED disk, FinalValidation
    PROVE  TInv'
  <1>1. /\ DOMAIN tune = {"step", "left", "best", "variant", "queue", "cached", "interrupted"}
        /\ DOMAIN rt = {"lane", "widths", "affinity", "measuring"}
        /\ DOMAIN tune.best = PolicyFields
        /\ tune.best.threads \in Allowed /\ tune.best.widths \in WidthPolicies
        /\ tune.best.lanes = MaxWidth(tune.best.widths)
    BY SearchFacts DEF SearchContext, FinalValidation
  <1>2. PICK b : b = IF WidthParity(tune.best.widths) THEN tune.best
                    ELSE [tune.best EXCEPT !.widths = Scalar, !.lanes = 1, !.affinity = "unpinned"]
    OBVIOUS
  <1>3. /\ tune' = [tune EXCEPT !.step = "save", !.best = b]
        /\ rt' = [Measured(b.affinity, b.widths) EXCEPT !.widths = b.widths]
    BY <1>2 DEF FinalValidation
  <1>4. /\ DOMAIN b = PolicyFields /\ b.threads \in Allowed /\ b.widths \in WidthPolicies
        /\ b.lanes = MaxWidth(b.widths) /\ Proven(b.widths)
    <2>1. CASE WidthParity(tune.best.widths)
      <3>1. Proven(tune.best.widths)
        BY <1>1, <2>1 DEF Proven
      <3>2. b = tune.best
        BY <1>2, <2>1
      <3> QED  BY <1>1, <3>1, <3>2
    <2>2. CASE ~WidthParity(tune.best.widths)
      <3>1. b = [tune.best EXCEPT !.widths = Scalar, !.lanes = 1, !.affinity = "unpinned"]
        BY <1>2, <2>2
      <3>2. DOMAIN b = PolicyFields /\ b.threads \in Allowed /\ b.widths = Scalar /\ b.lanes = 1
        BY <1>1, <3>1 DEF PolicyFields
      <3> QED  BY <3>2, ScalarFacts
    <2> QED  BY <2>1, <2>2
  <1>5. PICK t : t = tune'
    OBVIOUS
  <1>6. DOMAIN t = DOMAIN tune /\ t.left = tune.left /\ t.best = b /\ t.step = "save"
    BY <1>1, <1>3, <1>5
  <1>7. PICK m : m = Measured(b.affinity, b.widths) /\ DOMAIN m = DOMAIN rt
    BY <1>1, MeasuredFacts
  <1>8. PICK r : rt' = r /\ DOMAIN r = DOMAIN rt /\ r.widths = b.widths
    BY <1>1, <1>3, <1>7
  <1> QED  BY <1>4, <1>5, <1>6, <1>8, SearchingStep

LEMMA TruncatePolicyStep ==
    ASSUME TInv, SearchContext, TruncatePolicy
    PROVE  TInv'
  <1>1. /\ KnownStart(env) /\ Stored /\ pool = NoPool /\ cfg.threads = env.cfg.threads
        /\ DOMAIN tune = {"step", "left", "best", "variant", "queue", "cached", "interrupted"}
        /\ DOMAIN disk = {"policy", "store", "declined", "gpuProfile"}
        /\ \A p \in tune.left : p[1] \in Allowed
        /\ DOMAIN tune.best = PolicyFields
        /\ tune.best.threads \in Allowed /\ tune.best.widths \in WidthPolicies
        /\ tune.best.lanes = MaxWidth(tune.best.widths) /\ Proven(tune.best.widths)
        /\ rt.widths = tune.best.widths
    BY SearchFacts DEF SearchContext, TruncatePolicy, Decided
  <1>2. PICK t : t = tune'
    OBVIOUS
  <1>3. PICK s \in {"returned", "write"} : t = [tune EXCEPT !.step = s]
    BY <1>2 DEF TruncatePolicy
  <1>4. DOMAIN t = DOMAIN tune /\ t.left = tune.left /\ t.best = tune.best /\ t.step = s
    BY <1>1, <1>3
  <1>5. DOMAIN disk' = DOMAIN disk /\ Stored'
    <2>1. CASE env.readonly
      BY <1>1, <2>1 DEF TruncatePolicy, Stored
    <2>2. CASE ~env.readonly
      <3>1. PICK f : f = [key \in DOMAIN disk.policy \cup {<<Ceiling, cfg.mode>>} |->
                            IF key = <<Ceiling, cfg.mode>> THEN Cut ELSE disk.policy[key]]
        OBVIOUS
      <3>2. disk' = [disk EXCEPT !.policy = f]
        BY <2>2, <3>1 DEF TruncatePolicy
      <3>3. DOMAIN disk' = DOMAIN disk /\ disk'.policy = f
        BY <1>1, <3>2
      <3>4. \A k \in DOMAIN f : f[k] = Cut \/ Fits(f[k])
        BY <1>1, <3>1 DEF Stored
      <3> QED  BY <3>3, <3>4 DEF Stored
    <2> QED  BY <2>1, <2>2
  <1>6. /\ Shaped /\ rt' = rt /\ at' \in {"tuning", "benchTuning"} /\ at # "off"
        /\ UNCHANGED <<env, cfg, pool>>
    BY <1>2, <1>4, <1>5 DEF Shaped, SearchContext, TruncatePolicy
  <1>7. /\ tune'.best = tune.best /\ tune'.step # "widths" /\ tune'.left = tune.left
        /\ rt'.widths = tune.best.widths
    BY <1>1, <1>2, <1>4, <1>6
  <1> QED  BY <1>1, <1>5, <1>6, <1>7, SearchStep

LEMMA WritePolicyStep ==
    ASSUME TInv, SearchContext, WritePolicy
    PROVE  TInv'
  <1>1. /\ KnownStart(env) /\ Stored /\ pool = NoPool /\ cfg.threads = env.cfg.threads
        /\ DOMAIN tune = {"step", "left", "best", "variant", "queue", "cached", "interrupted"}
        /\ DOMAIN disk = {"policy", "store", "declined", "gpuProfile"}
        /\ \A p \in tune.left : p[1] \in Allowed
        /\ DOMAIN tune.best = PolicyFields
        /\ tune.best.threads \in Allowed /\ tune.best.widths \in WidthPolicies
        /\ tune.best.lanes = MaxWidth(tune.best.widths) /\ Proven(tune.best.widths)
        /\ rt.widths = tune.best.widths
    BY SearchFacts DEF SearchContext, WritePolicy, Decided
  <1>2. tune' = [tune EXCEPT !.step = "returned"] /\ rt' = rt
    BY DEF WritePolicy
  <1>3. /\ DOMAIN tune' = DOMAIN tune /\ tune'.left = tune.left /\ tune'.best = tune.best
        /\ tune'.step = "returned"
    BY <1>1, <1>2
  <1>4. PICK f : f = [disk.policy EXCEPT ![<<Ceiling, cfg.mode>>] = tune.best]
    OBVIOUS
  <1>5. disk' = [disk EXCEPT !.policy = f]
    BY <1>1, <1>4 DEF WritePolicy
  <1>6. DOMAIN disk' = DOMAIN disk /\ disk'.policy = f
    BY <1>1, <1>5
  <1>7. Fits(tune.best)
    BY <1>1, AllowedFacts DEF Fits
  <1>8. \A k \in DOMAIN f : f[k] = Cut \/ Fits(f[k])
    BY <1>1, <1>4, <1>7 DEF Stored
  <1>9. Stored'
    BY <1>6, <1>8 DEF Stored
  <1>10. /\ Shaped /\ at' \in {"tuning", "benchTuning"} /\ at # "off"
         /\ UNCHANGED <<env, cfg, pool>>
    BY <1>2, <1>3, <1>6 DEF Shaped, SearchContext
  <1>11. tune'.step # "widths" /\ rt'.widths = tune.best.widths
    BY <1>1, <1>2, <1>3
  <1> QED  BY <1>1, <1>3, <1>9, <1>10, <1>11, SearchStep

LEMMA TuningStep == ASSUME TInv, Tuning PROVE TInv'
  <1>1. TuneStep /\ SearchContext
    BY DEF Tuning, TuneStep, SearchContext, processVars, poolVars
  <1> QED  BY <1>1, TestPlanStep, ConfirmPlansStep, ProbeVariantStep, ConfirmWidthStep,
              ChooseAffinityStep, FinalValidationStep, TruncatePolicyStep, WritePolicyStep
           DEF TuneStep

(* The benchmark works on the runtime settings only.                       *)
LEMMA BenchSteps ==
    ASSUME TInv, BenchTune \/ BenchBegin \/ BenchStep
    PROVE  TInv'
  <1>1. at \in {"bench", "benchTuning", "benchmarking"} /\ UNCHANGED <<env, cfg, disk, pool>>
    BY DEF BenchTune, BenchBegin, BenchStep, poolVars
  <1>2. DOMAIN rt = {"lane", "widths", "affinity", "measuring"}
    BY DEF TInv, Started
  <1>3. CASE BenchTune /\ cfg.cpu
    <2>1. at = "bench" /\ at' = "benchTuning" /\ BeginTuning
      BY <1>3 DEF BenchTune, Go, Leave
    <2> QED  BY <1>1, <1>3, <2>1, BeginStep
  <1>4. CASE ~BenchTune \/ ~cfg.cpu
    <2>1. tune' = tune /\ at' \in {"closing", "benchmarking"}
      BY <1>1, <1>4 DEF BenchTune, BenchBegin, BenchStep, Go, Leave
    <2>2. DOMAIN rt' = DOMAIN rt
      <3>1. CASE BenchTune
        BY <1>4, <3>1 DEF BenchTune
      <3>2. CASE BenchBegin
        BY <1>2, <3>2 DEF BenchBegin, StartBench
      <3>3. CASE BenchStep
        BY <1>2, <3>3 DEF BenchStep, BenchCombination, EndBench
      <3> QED  BY <3>1, <3>2, <3>3
    <2>3. Shaped /\ at # "off"
      BY <1>1, <2>1, <2>2 DEF Shaped
    <2>4. Started' /\ Stored'
      BY <1>1, <2>3, SameStart, SameStored
    <2> QED  BY <2>1, <2>4, AwayStep DEF Idling
  <1> QED  BY <1>3, <1>4

(* Flags of the environment may change once it has started.                *)
LEMMA SameStartBut ==
    ASSUME TInv, at # "off", DOMAIN cfg' = DOMAIN cfg, DOMAIN disk' = DOMAIN disk,
           DOMAIN rt' = DOMAIN rt, tune' = tune, NEW x,
           env' = [env EXCEPT !.retune = x] \/ env' = [env EXCEPT !.gpuCalibrate = x]
    PROVE  /\ Started' /\ Allowed' = Allowed
           /\ env'.kernels = env.kernels /\ env'.combo = env.combo /\ env'.cores = env.cores
           /\ env'.cfg = env.cfg /\ env'.hw = env.hw /\ env'.workers = env.workers
           /\ env'.schedules = env.schedules
  <1>1. KnownStart(env) /\ Started
    BY DEF TInv, Started
  <1>2. PICK e : e = env'
    OBVIOUS
  <1>3. /\ DOMAIN e = DOMAIN env /\ e.hw = env.hw /\ e.cfg = env.cfg /\ e.kernels = env.kernels
        /\ e.cores = env.cores /\ e.schedules = env.schedules /\ e.then = env.then
        /\ e.combo = env.combo /\ e.workers = env.workers
    BY <1>1, <1>2, TypeOfSettings
  <1>4. KnownStart(e)
    BY <1>1, <1>3 DEF KnownStart
  <1>5. Started'
    BY <1>1, <1>2, <1>3, <1>4 DEF Started
  <1>6. Allowed' = Allowed
    BY <1>2, <1>3 DEF Allowed
  <1> QED  BY <1>2, <1>3, <1>5, <1>6

LEMMA RunStep == ASSUME TInv, RunMiner PROVE TInv'
  <1>1. /\ at = "run" /\ UNCHANGED <<disk, rt, tune, pool>>
        /\ at' \in {"beginTuning", "devices"}
    BY DEF RunMiner, Go, poolVars
  <1>2. /\ KnownStart(env) /\ Started /\ tune.step = "idle" /\ rt.widths = Scalar
        /\ pool = NoPool /\ cfg.threads = env.cfg.threads
    BY <1>1 DEF TInv, Started, Untouched
  <1>3. /\ env.cfg.threads \in Nat /\ env.hw \in Nat
        /\ "threads" \in DOMAIN cfg /\ "lanes" \in DOMAIN cfg
    BY <1>1, <1>2, TypeOfSettings DEF Started
  <1>4. PICK x : env' = [env EXCEPT !.retune = x]
    BY DEF RunMiner
  <1>5. DOMAIN cfg' = DOMAIN cfg
    BY DEF RunMiner
  <1>6. Started' /\ env'.cfg = env.cfg
    BY <1>1, <1>4, <1>5, SameStartBut
  <1>7. Stored'
    BY <1>1, SameStored
  <1>8. CASE at' = "beginTuning"
    <2>1. cfg'.threads = cfg.threads
      BY <1>3, <1>8 DEF RunMiner, Go
    <2>2. Untouched'
      BY <1>1, <1>2, <1>6, <2>1 DEF Untouched
    <2> QED  BY <1>6, <1>7, <1>8, <2>2 DEF TInv, Searching, Settled, Mining
  <1>9. CASE at' = "devices"
    <2>1. cfg' = [cfg EXCEPT !.lanes = 1,
                        !.threads = IF cfg.cpu /\ @ = 0 THEN env.hw ELSE @]
      BY <1>9 DEF RunMiner, Go
    <2>2. cfg'.lanes = 1 /\ cfg'.threads \in Nat
      BY <1>2, <1>3, <2>1
    <2>3. Proven(rt.widths)'
      <3>1. rt'.widths = Scalar
        BY <1>1, <1>2
      <3> QED  BY <3>1, ScalarFacts DEF Proven
    <2>4. Settled'
      BY <1>1, <1>2, <2>2, <2>3, ScalarFacts DEF Settled
    <2> QED  BY <1>6, <1>7, <1>9, <2>4 DEF TInv, Untouched, Searching, Mining
  <1> QED  BY <1>1, <1>8, <1>9

LEMMA MinerTuneStep == ASSUME TInv, MinerTune PROVE TInv'
  <1>1. /\ at = "beginTuning" /\ at' = "tuning" /\ BeginTuning
        /\ UNCHANGED <<env, cfg, disk, pool>>
    BY DEF MinerTune, Go, poolVars
  <1> QED  BY <1>1, BeginStep

LEMMA TuningDoneStep == ASSUME TInv, TuningDone PROVE TInv'
  <1>1. /\ at = "tuning" /\ tune.step = "returned" /\ UNCHANGED <<env, disk, rt, tune, pool>>
    BY DEF TuningDone, poolVars
  <1>2. /\ KnownStart(env) /\ Started /\ Searching
    BY <1>1 DEF TInv, Started
  <1>3. DOMAIN cfg' = DOMAIN cfg
    BY DEF TuningDone
  <1>4. Started' /\ Stored'
    <2>1. Shaped
      BY <1>1, <1>3 DEF Shaped
    <2> QED  BY <1>1, <2>1, SameStart, SameStored
  <1>5. CASE tune.interrupted \/ stop
    <2>1. at' = "closing"
      BY <1>5 DEF TuningDone, Leave
    <2> QED  BY <1>4, <2>1, AwayStep DEF Idling
  <1>6. CASE ~(tune.interrupted \/ stop)
    <2>1. at' = "devices"
      BY <1>6 DEF TuningDone, Go
    <2>2. /\ tune.best.threads \in Allowed /\ tune.best.lanes = MaxWidth(rt.widths)
          /\ Proven(rt.widths) /\ pool = NoPool
      BY <1>1, <1>2, <1>6 DEF Searching, Decided
    <2>3. cfg' = [cfg EXCEPT !.threads = tune.best.threads, !.lanes = tune.best.lanes,
                             !.batch = tune.best.batch]
      BY <1>6 DEF TuningDone
    <2>4. "threads" \in DOMAIN cfg /\ "lanes" \in DOMAIN cfg
      BY <1>1, <1>2, TypeOfSettings DEF Started
    <2>5. cfg'.threads = tune.best.threads /\ cfg'.lanes = tune.best.lanes
      BY <2>3, <2>4
    <2>6. Proven(rt.widths)' <=> Proven(rt.widths)
      BY <1>1 DEF Proven, WidthParity
    <2>7. Allowed' = Allowed /\ cfg'.threads \in Nat
      BY <1>1, <1>2, <2>2, <2>5, AllowedFacts DEF Allowed
    <2>8. Settled'
      BY <1>1, <2>2, <2>5, <2>6, <2>7 DEF Settled
    <2> QED  BY <1>4, <2>1, <2>8 DEF TInv, Untouched, Searching, Mining
  <1> QED  BY <1>5, <1>6

LEMMA DevicesStep == ASSUME TInv, Devices PROVE TInv'
  <1>1. /\ at = "devices" /\ UNCHANGED <<tune, pool>> /\ at' \in {"closing", "mining"}
        /\ cfg' = [cfg EXCEPT !.threads = OverriddenThreads]
        /\ rt' = [rt EXCEPT !.lane = cfg.lanes, !.affinity = OverriddenAffinity]
        /\ env' = [env EXCEPT !.gpuCalibrate = Calibrates]
    BY DEF Devices, Go, Leave, poolVars
  <1>2. PICK x : disk' = [disk EXCEPT !.gpuProfile = x]
    BY DEF Devices
  <1>3. /\ KnownStart(env) /\ Started /\ Settled
    BY <1>1 DEF TInv, Started
  <1>4. /\ env.hw \in Nat /\ "threads" \in DOMAIN cfg
    BY <1>1, <1>3, TypeOfSettings DEF Started
  <1>5. /\ DOMAIN cfg' = DOMAIN cfg /\ DOMAIN rt' = DOMAIN rt
        /\ DOMAIN disk' = DOMAIN disk /\ disk'.policy = disk.policy
    BY <1>1, <1>2, <1>3 DEF Started
  <1>6. /\ Started' /\ Allowed' = Allowed
        /\ env'.kernels = env.kernels /\ env'.combo = env.combo
        /\ env'.hw = env.hw /\ env'.workers = env.workers
    BY <1>1, <1>5, SameStartBut
  <1>7. Stored'
    BY <1>5, SameStored
  <1>8. CASE at' = "closing"
    BY <1>6, <1>7, <1>8, AwayStep DEF Idling
  <1>9. CASE at' = "mining"
    <2>1. /\ pool = NoPool /\ cfg.lanes = MaxWidth(rt.widths) /\ Proven(rt.widths)
          /\ cfg.threads \in Nat /\ (tune.step = "returned" => cfg.threads \in Allowed)
      BY <1>1, <1>3 DEF Settled
    <2>2. cfg'.threads = OverriddenThreads /\ rt'.lane = cfg.lanes /\ rt'.widths = rt.widths
      BY <1>1, <1>3, <1>4 DEF Started
    <2>3. OverriddenThreads \in Nat
      BY <1>4, <2>1 DEF OverriddenThreads
    <2>4. Bound(cfg.threads)'
      BY <1>1, <1>6, <2>1, <2>2 DEF Bound, OverriddenThreads
    <2>5. Proven(rt.widths)'
      <3>1. PICK w : w = rt.widths /\ rt'.widths = w
        BY <2>2
      <3>2. Proven(w)' <=> Proven(w)
        BY <1>6, SameProven
      <3> QED  BY <2>1, <3>1, <3>2 DEF Proven, WidthParity
    <2>6. Ready'
      BY <2>1, <2>2, <2>3, <2>4, <2>5 DEF Ready
    <2>7. Mining'
      BY <1>1, <2>1, <2>6 DEF Mining
    <2> QED  BY <1>6, <1>7, <1>9, <2>7 DEF TInv, Untouched, Searching, Settled
  <1> QED  BY <1>1, <1>8, <1>9

--------------------------------------------------------------------------------
(* The pool: what it was made with stays.                                  *)

LEMMA KeepsPool ==
    ASSUME TInv, at = "mining", UNCHANGED <<env, cfg, tune, at>>, Shaped, Stored',
           pool # NoPool, NEW p, pool' = p, DOMAIN p = PoolFields,
           p.step \notin {"none", "flush", "flushWrite"}, p.threads = pool.threads,
           p.lanes = pool.lanes, p.base = pool.base, p.cpus = pool.cpus
    PROVE  TInv'
  <1>1. Equipped
    BY DEF TInv, Mining
  <1>2. pool' # NoPool
    BY DEF NoPool
  <1>3. Allowed' = Allowed
    BY DEF Allowed
  <1>4. Equipped'
    <2>1. Bound(pool.threads)' <=> Bound(pool.threads)
      BY <1>3 DEF Bound
    <2>2. Proven(pool.base)' <=> Proven(pool.base)
      BY DEF Proven, WidthParity
    <2>3. Spread(pool.cpus)' <=> Spread(pool.cpus)
      BY DEF Spread
    <2> QED  BY <1>1, <2>1, <2>2, <2>3 DEF Equipped
  <1>5. Started'
    BY SameStart
  <1>6. Mining'
    BY <1>2, <1>4 DEF Mining
  <1> QED  BY <1>5, <1>6 DEF TInv, Untouched, Searching, Settled

LEMMA MakeStep ==
    ASSUME TInv, at = "mining", UNCHANGED <<env, cfg, tune, at>>, MakePool
    PROVE  TInv'
  <1>1. KnownStart(env) /\ Ready /\ UNCHANGED <<rt, disk>>
    BY DEF TInv, Started, Mining, MakePool
  <1>2. env.hw \in Nat \ {0} /\ Topology(env.cores, env.hw)
    BY <1>1, TypeOfSettings
  <1>3. PICK n \in Nat : /\ n = IF cfg.threads = 0 THEN env.hw ELSE cfg.threads
                         /\ Bound(cfg.threads) => Bound(n)
    <2>1. cfg.threads = 0 => cfg.threads \notin Allowed
      BY <1>1, AllowedFacts
    <2>2. PICK n : n = IF cfg.threads = 0 THEN env.hw ELSE cfg.threads
      OBVIOUS
    <2>3. n \in Nat
      BY <1>1, <1>2, <2>2 DEF Ready
    <2> QED  BY <2>1, <2>2, <2>3 DEF Bound
  <1>4. PICK cpus : cpus = AffinityOrder(rt.affinity, n)
    OBVIOUS
  <1>5. Spread(cpus)
    BY <1>2, <1>4, SpreadPrefix
  <1>6. pool' = [threads |-> n, lanes |-> rt.lane, base |-> rt.widths, cpus |-> cpus, fp |-> None,
                 workers |-> 0, widths |-> None, active |-> n, validated |-> {},
                 rejected |-> {}, step |-> "idle"]
    BY <1>3, <1>4 DEF MakePool
  <1>7. /\ DOMAIN pool' = PoolFields /\ pool'.step = "idle" /\ pool'.threads = n
        /\ pool'.lanes = rt.lane /\ pool'.base = rt.widths /\ pool'.cpus = cpus
    BY <1>6 DEF PoolFields
  <1>8. pool' # NoPool
    BY <1>7 DEF NoPool
  <1>9. Bound(n)' /\ Allowed' = Allowed
    BY <1>1, <1>3 DEF Bound, Ready, Allowed
  <1>10. Proven(pool.base)'
    BY <1>1, <1>7 DEF Proven, WidthParity, Ready
  <1>11. Spread(pool.cpus)'
    <2>1. Spread(cpus)'
      BY <1>5 DEF Spread
    <2> QED  BY <1>7, <2>1 DEF Spread
  <1>12. Equipped'
    BY <1>1, <1>7, <1>9, <1>10, <1>11 DEF Equipped, Ready, Bound
  <1>13. Started' /\ Stored'
    BY <1>1, SameStart, SameStored DEF Shaped
  <1>14. Mining'
    BY <1>8, <1>12 DEF Mining
  <1> QED  BY <1>13, <1>14 DEF TInv, Untouched, Searching, Settled

(* Whatever the pool does, only its own widths, its measurements and their *)
(* file change.                                                            *)
LEMMA PoolShapes ==
    ASSUME TInv, PoolStep
    PROVE  /\ UNCHANGED <<env, cfg, tune, at>> /\ at \in {"mining", "statics"}
           /\ Shaped /\ disk'.policy = disk.policy
  <1>1. /\ DOMAIN rt = {"lane", "widths", "affinity", "measuring"}
        /\ DOMAIN disk = {"policy", "store", "declined", "gpuProfile"}
    BY DEF TInv, Started
  <1>2. UNCHANGED <<env, cfg, tune, at>> /\ at \in {"mining", "statics"}
    BY DEF PoolStep, processVars
  <1>3. DOMAIN disk' = DOMAIN disk /\ disk'.policy = disk.policy
    <2>1. CASE disk' = disk
      BY <2>1
    <2>2. ASSUME NEW x, disk' = [disk EXCEPT !.store = x]
          PROVE  DOMAIN disk' = DOMAIN disk /\ disk'.policy = disk.policy
      BY <1>1, <2>2
    <2> QED  BY <2>1, <2>2 DEF PoolStep, MakePool, StartRound, ChooseWidths, EndRound,
                LoadStore, TruncateStore, WriteStore, DestroyPool
  <1>4. DOMAIN rt' = DOMAIN rt
    BY <1>1 DEF PoolStep, MakePool, StartRound, ChooseWidths, EndRound,
                LoadStore, TruncateStore, WriteStore, DestroyPool
  <1> QED  BY <1>2, <1>3, <1>4 DEF Shaped

(* What a step of the pool leaves as it was made.                          *)
Made(p) ==
    /\ DOMAIN p = PoolFields /\ p.step \notin {"none", "flush", "flushWrite"}
    /\ p.threads = pool.threads /\ p.lanes = pool.lanes
    /\ p.base = pool.base /\ p.cpus = pool.cpus

LEMMA RotationFacts ==
    ASSUME DOMAIN pool = PoolFields, NEW fp
    PROVE  LET p == ForRotation(fp) IN
           /\ DOMAIN p = PoolFields /\ p.step = pool.step
           /\ p.threads = pool.threads /\ p.lanes = pool.lanes
           /\ p.base = pool.base /\ p.cpus = pool.cpus /\ p.validated = pool.validated
           /\ p.fp = fp /\ (p.widths = pool.widths \/ p.widths = None)
  <1>1. CASE fp = pool.fp
    BY <1>1 DEF ForRotation
  <1>2. CASE fp # pool.fp
    BY <1>2 DEF ForRotation, PoolFields
  <1> QED  BY <1>1, <1>2

LEMMA StartRoundFacts ==
    ASSUME DOMAIN pool = PoolFields, DOMAIN rt = {"lane", "widths", "affinity", "measuring"},
           StartRound
    PROVE  /\ Made(pool') /\ pool'.step \in {"hash", "widths"}
           /\ pool'.fp \in env.schedules /\ pool'.validated = pool.validated
           /\ pool'.widths = pool.widths \/ pool'.widths = None
           /\ rt'.widths = pool.base \/ (pool'.widths # None /\ rt'.widths = pool'.widths)
  <1>1. PICK fp, p, choice :
          /\ fp \in env.schedules /\ p = ForRotation(fp)
          /\ LET locks == Learning /\ ~choice.probing
             IN  /\ pool' = [p EXCEPT !.active = choice.workers,
                                 !.workers = IF locks THEN choice.workers ELSE @,
                                 !.step = IF locks /\ p.widths = None THEN "widths" ELSE "hash"]
                 /\ rt' = [rt EXCEPT !.widths =
                              IF locks /\ p.widths # None THEN p.widths ELSE p.base]
    BY Zenon DEF StartRound
  <1>2. /\ DOMAIN p = PoolFields /\ p.step = pool.step
        /\ p.threads = pool.threads /\ p.lanes = pool.lanes
        /\ p.base = pool.base /\ p.cpus = pool.cpus /\ p.validated = pool.validated
        /\ p.fp = fp /\ (p.widths = pool.widths \/ p.widths = None)
    BY <1>1, RotationFacts
  <1> DEFINE locks == Learning /\ ~choice.probing
  <1>3. PICK q, a, w, s : /\ q = pool' /\ q = [p EXCEPT !.active = a, !.workers = w, !.step = s]
                          /\ s \in {"hash", "widths"}
    <2>1. PICK w : w = IF locks THEN choice.workers ELSE p.workers
      OBVIOUS
    <2>2. PICK s : s = IF locks /\ p.widths = None THEN "widths" ELSE "hash"
      OBVIOUS
    <2>3. pool' = [p EXCEPT !.active = choice.workers, !.workers = w, !.step = s]
      BY <1>1, <2>1, <2>2
    <2>4. s \in {"hash", "widths"}
      BY <2>2
    <2> QED  BY <2>3, <2>4
  <1>4. /\ DOMAIN q = PoolFields /\ q.step = s /\ q.threads = p.threads /\ q.lanes = p.lanes
        /\ q.base = p.base /\ q.cpus = p.cpus /\ q.validated = p.validated
        /\ q.fp = p.fp /\ q.widths = p.widths
    BY <1>2, <1>3 DEF PoolFields
  <1>5. rt'.widths = p.base \/ (p.widths # None /\ rt'.widths = p.widths)
    BY <1>1
  <1>6. Made(q)
    <2>1. pool.step = "idle"
      BY DEF StartRound
    <2> QED  BY <1>2, <1>3, <1>4 DEF Made
  <1>7. /\ q.step \in {"hash", "widths"} /\ q.fp \in env.schedules
        /\ q.validated = pool.validated /\ (q.widths = pool.widths \/ q.widths = None)
        /\ rt'.widths = pool.base \/ (q.widths # None /\ rt'.widths = q.widths)
    BY <1>1, <1>2, <1>3, <1>4, <1>5
  <1> QED  BY <1>3, <1>6, <1>7

LEMMA ChooseWidthsFacts ==
    ASSUME DOMAIN pool = PoolFields, DOMAIN rt = {"lane", "widths", "affinity", "measuring"},
           ChooseWidths
    PROVE  /\ Made(pool') /\ pool'.fp = pool.fp
           /\ \E choice \in WidthChoices(pool.fp, pool.active, pool.rejected) :
                \/ /\ \/ choice.widths \in pool.validated
                      \/ BatchParity(env.kernels, env.combo, pool.fp.cn, choice.widths)
                   /\ pool'.step = "hash" /\ rt'.widths = choice.widths
                   /\ pool'.validated = pool.validated \cup {choice.widths}
                   /\ pool'.widths = None \/ pool'.widths = choice.widths
                \/ /\ pool'.step = "widths" /\ UNCHANGED rt
                   /\ pool'.validated = pool.validated /\ pool'.widths = pool.widths
  <1>1. PICK choice \in WidthChoices(pool.fp, pool.active, pool.rejected) :
        IF \/ choice.widths \in pool.validated
           \/ BatchParity(env.kernels, env.combo, pool.fp.cn, choice.widths)
        THEN /\ pool' = [pool EXCEPT !.step = "hash", !.validated = @ \cup {choice.widths},
                            !.widths = IF choice.probing THEN None ELSE choice.widths]
             /\ rt' = [rt EXCEPT !.widths = choice.widths]
        ELSE pool' = [pool EXCEPT !.rejected = @ \cup {choice.widths}] /\ UNCHANGED rt
    BY Zenon DEF ChooseWidths
  <1>2. pool.step = "widths"
    BY DEF ChooseWidths
  <1>3. CASE \/ choice.widths \in pool.validated
             \/ BatchParity(env.kernels, env.combo, pool.fp.cn, choice.widths)
    <2>1. PICK q, v, w : /\ q = pool' /\ v = pool.validated \cup {choice.widths}
                         /\ w = None \/ w = choice.widths
                         /\ q = [pool EXCEPT !.step = "hash", !.validated = v, !.widths = w]
      BY <1>1, <1>3
    <2>2. Made(q) /\ q.fp = pool.fp /\ q.step = "hash" /\ q.validated = v /\ q.widths = w
      BY <2>1 DEF Made, PoolFields
    <2>3. rt'.widths = choice.widths
      BY <1>1, <1>3
    <2> QED  BY <1>3, <2>1, <2>2, <2>3
  <1>4. CASE ~ \/ choice.widths \in pool.validated
               \/ BatchParity(env.kernels, env.combo, pool.fp.cn, choice.widths)
    <2>1. PICK q, v : q = pool' /\ q = [pool EXCEPT !.rejected = v] /\ UNCHANGED rt
      BY <1>1, <1>4
    <2>2. /\ Made(q) /\ q.fp = pool.fp /\ q.step = "widths"
          /\ q.validated = pool.validated /\ q.widths = pool.widths
      BY <1>2, <2>1 DEF Made, PoolFields
    <2> QED  BY <2>1, <2>2
  <1> QED  BY <1>3, <1>4

(* The measurements: the pool takes a step, and no more.                   *)
LEMMA StoreFacts ==
    ASSUME DOMAIN pool = PoolFields, pool.step \notin {"none", "flush", "flushWrite"},
           EndRound \/ LoadStore \/ TruncateStore \/ WriteStore
    PROVE  /\ Made(pool') /\ UNCHANGED rt /\ pool'.fp = pool.fp
           /\ pool'.validated = pool.validated /\ pool'.widths = pool.widths
           /\ pool'.step \notin {"hash", "widths"} \/ pool'.step = pool.step
  <1>1. PICK s : pool' = [pool EXCEPT !.step = s] \/ (pool' = pool /\ s = pool.step)
    BY DEF EndRound, LoadStore, TruncateStore, WriteStore
  <1>2. CASE pool' = pool
    BY <1>2 DEF Made, EndRound, LoadStore, TruncateStore, WriteStore
  <1>3. CASE pool' # pool
    <2>1. PICK s2 \in {"save", "idle", "write"} : pool' = [pool EXCEPT !.step = s2]
      BY <1>3 DEF EndRound, LoadStore, TruncateStore, WriteStore
    <2>2. PICK q : q = pool'
      OBVIOUS
    <2>3. /\ Made(q) /\ q.step = s2 /\ q.fp = pool.fp /\ q.validated = pool.validated
          /\ q.widths = pool.widths
      BY <2>1, <2>2 DEF Made, PoolFields
    <2> QED  BY <2>2, <2>3 DEF EndRound, LoadStore, TruncateStore, WriteStore
  <1> QED  BY <1>2, <1>3

LEMMA PoolStepInv == ASSUME TInv, PoolStep PROVE TInv'
  <1>1. /\ UNCHANGED <<env, cfg, tune, at>> /\ at \in {"mining", "statics"}
        /\ Shaped /\ Stored' /\ DOMAIN rt = {"lane", "widths", "affinity", "measuring"}
    BY PoolShapes, SameStored DEF TInv, Started
  <1>2. Started'
    BY <1>1, SameStart
  <1>3. CASE at = "statics"
    BY <1>1, <1>2, <1>3, AwayStep DEF Idling
  <1>4. CASE at = "mining" /\ MakePool
    BY <1>1, <1>4, MakeStep
  <1>5. CASE at = "mining" /\ ~MakePool
    <2>1. \/ StartRound \/ ChooseWidths \/ EndRound \/ LoadStore \/ TruncateStore \/ WriteStore
      BY <1>5 DEF PoolStep
    <2>2. pool # NoPool
      <3>1. pool.step # "none"
        BY <2>1 DEF StartRound, ChooseWidths, EndRound, LoadStore, TruncateStore, WriteStore
      <3> QED  BY <3>1 DEF NoPool
    <2>3. DOMAIN pool = PoolFields /\ pool.step \notin {"none", "flush", "flushWrite"}
      BY <1>5, <2>2 DEF TInv, Mining, Equipped
    <2>4. Made(pool')
      BY <1>1, <2>1, <2>3, StartRoundFacts, ChooseWidthsFacts, StoreFacts
    <2>5. PICK p : p = pool'
      OBVIOUS
    <2> QED  BY <1>1, <1>5, <2>2, <2>4, <2>5, KeepsPool DEF Made
  <1> QED  BY <1>1, <1>3, <1>4, <1>5

(* The steps at the end of a process.                                      *)
LEMMA ClosingSteps ==
    ASSUME TInv, MiningOver \/ LeaveScreen \/ CloseStreams \/ ProcessEnds \/ Kill
    PROVE  TInv'
  <1>1. /\ UNCHANGED <<env, disk>> /\ at # "off"
        /\ at' \in {"closing", "exit", "statics", "off"}
    BY DEF MiningOver, LeaveScreen, CloseStreams, ProcessEnds, Kill, Gone, Leave, Go, tuningVars
  <1>2. Stored'
    BY <1>1, SameStored
  <1>3. Started'
    <2>1. CASE at' = "off"
      <3>1. Gone
        BY <1>1, <2>1 DEF MiningOver, LeaveScreen, CloseStreams, ProcessEnds, Kill, Leave, Go
      <3>2. DOMAIN rt' = {"lane", "widths", "affinity", "measuring"}
        BY <3>1 DEF Gone, RuntimeInit
      <3>3. DOMAIN tune' =
                {"step", "left", "best", "variant", "queue", "cached", "interrupted"}
        BY <3>1 DEF Gone, IdleTune
      <3> QED  BY <1>1, <2>1, <3>2, <3>3 DEF TInv, Started
    <2>2. CASE at' # "off"
      <3>1. Shaped
        BY <2>2 DEF MiningOver, LeaveScreen, CloseStreams, ProcessEnds, Kill, Gone,
                    tuningVars, Shaped
      <3> QED  BY <1>1, <3>1, SameStart
    <2> QED  BY <2>1, <2>2
  <1> QED  BY <1>1, <1>2, <1>3, AwayStep DEF Idling

LEMMA NextTInv == TInv /\ [Next]_vars => TInv'
  <1> SUFFICES ASSUME TInv, [Next]_vars PROVE TInv'
    OBVIOUS
  <1>1. CASE UNCHANGED <<env, cfg, disk, rt, tune, pool, at>>
    BY <1>1, IdleStep
  <1>2. CASE UNCHANGED vars \/ RefreshThread \/ GpuPrint \/ RequestStop
    BY <1>1, <1>2 DEF vars, RefreshThread, GpuPrint, PrintPiece, RequestStop,
                      tuningVars, poolVars, processVars
  <1>3. CASE MiningFrame \/ PrintPiece(Main) \/ FlushUnfinished
    BY <1>1, <1>3 DEF MiningFrame, PrintPiece, FlushUnfinished,
                      tuningVars, poolVars, processVars
  <1>4. CASE Start \/ Kill
    BY <1>4, StartStep, ClosingSteps
  <1>5. CASE MainStep
    BY <1>3, <1>5, EarlySteps, BenchSteps, RunStep, MinerTuneStep, TuningDoneStep,
       DevicesStep, TuningStep, PoolStepInv, ClosingSteps DEF MainStep
  <1> QED  BY <1>2, <1>4, <1>5 DEF Next

LEMMA TInvHolds == Spec => []TInv
  <1> QED  BY InitTInv, NextTInv, PTL DEF Spec

--------------------------------------------------------------------------------
(* The digests                                                             *)

(* A policy was tested under a rotation that has all it changes.           *)
Tested(w) ==
    /\ w \in WidthPolicies
    /\ \E r \in Rotations : /\ Changed(w, pool.base) \subseteq r
                            /\ BatchParity(env.kernels, env.combo, r, w)
Learned ==
    at = "mining" /\ pool # NoPool =>
        /\ \A w \in pool.validated : Tested(w)
        /\ pool.widths # None => Tested(pool.widths)
        /\ pool.step \in {"hash", "widths"} => pool.fp.cn \in Rotations
        /\ pool.step = "hash" => rt.widths = pool.base \/ Tested(rt.widths)

(* What the benchmark reports, once it does.                               *)
Reported ==
    /\ DOMAIN bench = {"left", "saved", "result"}
    /\ IF at \in {"benchmarking", "closing", "exit", "statics"}
       THEN bench.result # None /\ bench.result.widths # tune.best.widths =>
               GroupRight(env.kernels, env.combo, bench.result.rotation, bench.result.widths, 4)
       ELSE bench.result = None

HInv == Learned /\ Reported

(* A parity test of a policy no rule replaces ran every wider kernel of    *)
(* the policy for the variants of the rotation.                            *)
LEMMA ParityTests ==
    ASSUME NEW k, NEW p, NEW r, NEW w, NEW v \in r, w[v] \in {2, 4},
           Select(p, r, w) = w, BatchParity(k, p, r, w)
    PROVE  <<v, w[v]>> \notin k.wrong /\ <<v, w[v]>> \notin k.fails
  <1>1. KernelOf(w[v], 0, 4) = w[v]
    <2>1. KernelOf(2, 0, 4) = 2 /\ KernelOf(4, 0, 4) = 4
      BY DEF KernelOf
    <2> QED  BY <2>1
  <1>2. <<v, KernelOf(w[v], 0, 4)>> \in KernelsOf(p, r, w, 4)
    <2>1. 0 \in 0 .. 4 - 1
      OBVIOUS
    <2>2. KernelsOf(p, r, w, 4) = {<<u, KernelOf(w[u], l, 4)>> : u \in r, l \in 0 .. 4 - 1}
      BY DEF KernelsOf
    <2> QED  BY <2>1, <2>2
  <1> QED  BY <1>1, <1>2 DEF BatchParity, BatchAccepted

(* The wider kernels of a base policy this machine hashes right with are   *)
(* right, those of a tested policy too: a variant it leaves as it was is   *)
(* the base's, and every variant was under some representative header.     *)
LEMMA WiderKernels ==
    ASSUME NEW b, Proven(b), Unruled(b), NEW r \in Rotations, NEW v \in r, b[v] \in {2, 4}
    PROVE  <<v, b[v]>> \notin env.kernels.wrong /\ <<v, b[v]>> \notin env.kernels.fails
  <1>1. v \in Variants
    BY CnHashAssumption
  <1>2. b # Scalar
    BY <1>1 DEF Scalar
  <1>3. PICK s \in Representative : v \in s
    <2>1. v \in UNION Representative
      BY CnHashAssumption
    <2> QED  BY <2>1
  <1>4. BatchParity(env.kernels, env.combo, s, b)
    BY <1>2 DEF Proven, WidthParity
  <1>5. Select(env.combo, s, b) = b
    BY CnHashAssumption DEF Unruled
  <1> QED  BY <1>3, <1>4, <1>5, ParityTests

LEMMA TestedKernels ==
    ASSUME Proven(pool.base), Unruled(pool.base), NEW w, Unruled(w),
           w = pool.base \/ Tested(w),
           NEW r \in Rotations, NEW v \in r, w[v] \in {2, 4}
    PROVE  <<v, w[v]>> \notin env.kernels.wrong
  <1>1. CASE w[v] = pool.base[v]
    <2>1. PICK b : b = pool.base
      OBVIOUS
    <2> QED  BY <1>1, <2>1, WiderKernels
  <1>2. CASE w[v] # pool.base[v]
    <2>1. v \in Changed(w, pool.base)
      BY <1>2, CnHashAssumption DEF Changed
    <2>2. PICK s \in Rotations : v \in s /\ BatchParity(env.kernels, env.combo, s, w)
      BY <1>2, <2>1 DEF Tested
    <2>3. Select(env.combo, s, w) = w
      BY DEF Unruled
    <2> QED  BY <2>2, <2>3, ParityTests
  <1> QED  BY <1>1, <1>2

(* Which kernel a lane of a group runs.                                    *)
LEMMA KernelCases ==
    ASSUME NEW width \in Widths, NEW l \in Nat, NEW count \in 1 .. 4, NEW n,
           n = KernelOf(width, l, count), count \in {2, 3} => width # 4
    PROVE  n = 1 \/ (n = width /\ n \in {2, 4})
  <1>1. CASE width = 4 /\ count = 4
    BY <1>1 DEF KernelOf
  <1>2. CASE ~(width = 4 /\ count = 4) /\ count = 1
    <2>1. ~(l < 2 * (count \div 2))
      BY <1>2, Z3
    <2> QED  BY <1>2, <2>1 DEF KernelOf
  <1>3. CASE ~(width = 4 /\ count = 4) /\ count # 1
    BY <1>3 DEF KernelOf, Widths
  <1> QED  BY <1>1, <1>2, <1>3

LEMMA WidthOfLanes ==
    ASSUME NEW w \in WidthPolicies
    PROVE  MaxWidth(w) \in Widths
  <1> DEFINE S == {w[v] : v \in Variants}
  <1>1. S \subseteq {1, 2, 4} /\ \A v \in Variants : w[v] \in S
    BY DEF WidthPolicies, Widths
  <1>2. \E m \in S : \A x \in S : x <= m
    <2>1. 0 \in Variants
      BY CnHashAssumption DEF Variants
    <2>2. w[0] \in S
      BY <2>1
    <2> HIDE DEF S
    <2>3. CASE 4 \in S
      BY <1>1, <2>3
    <2>4. CASE 4 \notin S /\ 2 \in S
      BY <1>1, <2>4
    <2>5. CASE 4 \notin S /\ 2 \notin S
      <3>1. \A x \in S : x = 1
        BY <1>1, <2>5
      <3>2. 1 \in S
        BY <2>2, <3>1
      <3> QED  BY <3>1, <3>2
    <2> QED  BY <2>3, <2>4, <2>5
  <1>3. MaxWidth(w) \in S
    <2>1. \E m \in S : \A v \in Variants : w[v] <= m
      BY <1>1, <1>2
    <2> QED  BY <2>1, Zenon DEF MaxWidth
  <1> QED  BY <1>1, <1>3 DEF Widths

(* The digests of a round of a policy with tested widths.                  *)
LEMMA RoundRight ==
    ASSUME Proven(pool.base), Unruled(pool.base), NEW w, Unruled(w), w = pool.base \/ Tested(w),
           NEW r \in Rotations, NEW group \in 1 .. MaxWidth(pool.base),
           ~(group \in {2, 3} /\ \E v \in r : w[v] = 4)
    PROVE  GroupRight(env.kernels, env.combo, r, w, group)
  <1>1. w \in WidthPolicies /\ pool.base \in WidthPolicies
    BY DEF Tested, Proven
  <1>2. group \in 1 .. 4
    BY <1>1, WidthOfLanes DEF Widths
  <1>3. Select(env.combo, r, w) = w
    BY DEF Unruled
  <1>4. ASSUME OptimizedReady(env.kernels), NEW v \in r, NEW l \in Nat, NEW n,
               n = KernelOf(w[v], l, group)
        PROVE  <<v, n>> \notin env.kernels.wrong
    <2>1. v \in Variants /\ w[v] \in Widths
      BY <1>1, CnHashAssumption DEF WidthPolicies
    <2>2. group \in {2, 3} => w[v] # 4
      OBVIOUS
    <2>3. n = 1 \/ (n = w[v] /\ n \in {2, 4})
      BY <1>2, <1>4, <2>1, <2>2, KernelCases
    <2>4. CASE n = 1
      BY <1>4, <2>1, <2>4 DEF OptimizedReady
    <2>5. CASE n = w[v] /\ n \in {2, 4}
      BY <2>5, TestedKernels
    <2> QED  BY <2>3, <2>4, <2>5
  <1>5. ASSUME OptimizedReady(env.kernels), NEW x \in KernelsOf(env.combo, r, w, group)
        PROVE  x \notin env.kernels.wrong
    <2>1. PICK v \in r, l \in 0 .. group - 1 : x = <<v, KernelOf(w[v], l, group)>>
      BY <1>3, <1>5 DEF KernelsOf
    <2> QED  BY <1>4, <1>5, <2>1
  <1> QED  BY <1>5 DEF GroupRight, BatchAccepted

LEMMA HInvRight == TInv /\ HInv => RightHashes
  <1> SUFFICES ASSUME TInv, HInv PROVE RightHashes
    OBVIOUS
  <1>1. ASSUME pool # NoPool, pool.step = "hash", at = "mining", Unruled(pool.base),
               Unruled(rt.widths), NEW group \in 1 .. pool.lanes
        PROVE  \/ GroupRight(env.kernels, env.combo, pool.fp.cn, rt.widths, group)
               \/ group \in {2, 3} /\ \E v \in pool.fp.cn : rt.widths[v] = 4
    <2>1. Proven(pool.base) /\ group \in 1 .. MaxWidth(pool.base)
      BY <1>1 DEF TInv, Mining, Equipped
    <2>2. pool.fp.cn \in Rotations /\ (rt.widths = pool.base \/ Tested(rt.widths))
      BY <1>1 DEF HInv, Learned
    <2>3. PICK w, r : w = rt.widths /\ r = pool.fp.cn
      OBVIOUS
    <2>4. GroupRight(env.kernels, env.combo, r, w, group)
            \/ (group \in {2, 3} /\ \E v \in r : w[v] = 4)
      BY <1>1, <2>1, <2>2, <2>3, RoundRight
    <2> QED  BY <2>3, <2>4
  <1>2. bench.result # None /\ bench.result.widths # tune.best.widths =>
            GroupRight(env.kernels, env.combo, bench.result.rotation, bench.result.widths, 4)
    BY DEF HInv, Reported
  <1> QED  BY <1>1, <1>2 DEF RightHashes

(* The policies a round may try change variants of its rotation only.      *)
OfRotation(w, rotation, base) == w \in WidthPolicies /\ Changed(w, base) \subseteq rotation

LEMMA BaseOfRotation ==
    ASSUME NEW base \in WidthPolicies, NEW rotation
    PROVE  OfRotation(base, rotation, base)
  BY DEF OfRotation, Changed

LEMMA SinglesOfRotation ==
    ASSUME NEW base \in WidthPolicies, NEW rotation, NEW w \in Singles(rotation, base)
    PROVE  OfRotation(w, rotation, base)
  <1>1. CASE w = base
    BY <1>1, BaseOfRotation
  <1>2. ASSUME NEW v \in rotation, NEW n \in Widths, w = [base EXCEPT ![v] = n]
        PROVE  OfRotation(w, rotation, base)
    <2>1. w \in WidthPolicies /\ \A u \in Variants : w[u] # base[u] => u = v
      BY <1>2 DEF WidthPolicies
    <2> QED  BY <1>2, <2>1 DEF OfRotation, Changed
  <1> QED  BY <1>1, <1>2 DEF Singles, WithWidth

LEMMA CombinedOfRotation ==
    ASSUME NEW base \in WidthPolicies, NEW rotation, NEW vs \in SUBSET rotation,
           NEW p \in [vs -> Widths], NEW w \in Combinations(base, p)
    PROVE  OfRotation(w, rotation, base)
  <1>1. PICK chosen \in SUBSET vs :
          w = [v \in Variants |-> IF v \in chosen THEN p[v] ELSE base[v]]
    BY DEF Combinations, Merge
  <1>2. \A v \in Variants : w[v] \in Widths /\ (w[v] # base[v] => v \in rotation)
    BY <1>1 DEF WidthPolicies
  <1> QED  BY <1>1, <1>2 DEF OfRotation, Changed, WidthPolicies

(* What a round may try: the base, or a policy that was not rejected: a    *)
(* single change, or a combination of changes of the rotation.             *)
LEMMA ChoiceKinds ==
    ASSUME NEW fp, NEW workers, NEW rejected, NEW choice \in WidthChoices(fp, workers, rejected)
    PROVE  \/ choice.widths = pool.base
           \/ /\ choice.widths \notin rejected
              /\ \/ choice.widths \in Singles(fp.cn, pool.base)
                 \/ \E vs \in SUBSET fp.cn : \E p \in [vs -> Widths] :
                        choice.widths \in Combinations(pool.base, p)
  <1> DEFINE samples(w) == SamplesOf(Key(fp, <<"width", w>>, workers))
             singles == Singles(fp.cn, pool.base) \ rejected
             Choice(ws, probe) == {[widths |-> w, probing |-> probe] : w \in ws}
             few == {w \in singles : samples(w) < WidthSamples}
             Better(v) == {w[v] : w \in {s \in singles : Changed(s, pool.base) = {v}}}
             promising == UNION {[vs -> Widths] : vs \in SUBSET {v \in fp.cn : Better(v) # {}}}
             fits(p) == \A v \in DOMAIN p : p[v] \in Better(v)
             combined(p) == Combinations(pool.base, p) \ rejected
             unproven(p) == {w \in combined(p) : samples(w) < FinalSamples}
             rest == UNION {IF unproven(p) # {} THEN Choice(unproven(p), TRUE)
                            ELSE Choice(singles \cup combined(p), FALSE)
                            : p \in {q \in promising : fits(q)}}
  <1>1. \/ choice \in Choice({pool.base}, FALSE)
        \/ choice \in Choice({w \in few : \A x \in few : samples(w) <= samples(x)}, TRUE)
        \/ choice \in rest
    BY Zenon DEF WidthChoices
  <1>2. ASSUME NEW ws, NEW probe \in BOOLEAN, choice \in Choice(ws, probe)
        PROVE  choice.widths \in ws
    BY <1>2
  <1>3. few \subseteq singles
    OBVIOUS
  <1>4. CASE choice \in Choice({pool.base}, FALSE)
    BY <1>2, <1>4
  <1>5. CASE choice \in Choice({w \in few : \A x \in few : samples(w) <= samples(x)}, TRUE)
    <2>1. choice.widths \in few
      BY <1>2, <1>5
    <2> QED  BY <1>3, <2>1
  <1>6. CASE choice \in rest
    <2>1. PICK p \in promising :
            choice \in IF unproven(p) # {} THEN Choice(unproven(p), TRUE)
                       ELSE Choice(singles \cup combined(p), FALSE)
      BY <1>6
    <2>2. choice.widths \in singles \cup combined(p)
      <3>1. unproven(p) \subseteq combined(p)
        OBVIOUS
      <3>2. CASE unproven(p) # {}
        <4>1. choice.widths \in unproven(p)
          BY <1>2, <2>1, <3>2
        <4> QED  BY <3>1, <4>1
      <3>3. CASE unproven(p) = {}
        BY <1>2, <2>1, <3>3
      <3> QED  BY <3>2, <3>3
    <2>3. \E vs \in SUBSET fp.cn : p \in [vs -> Widths]
      BY <2>1
    <2>4. CASE choice.widths \in singles
      BY <2>4
    <2>5. CASE choice.widths \in combined(p)
      <3>1. choice.widths \in Combinations(pool.base, p) /\ choice.widths \notin rejected
        BY <2>5
      <3> QED  BY <2>3, <3>1
    <2> QED  BY <2>2, <2>4, <2>5
  <1> QED  BY <1>1, <1>4, <1>5, <1>6

LEMMA ChoiceOfRotation ==
    ASSUME pool.base \in WidthPolicies, NEW fp, NEW workers, NEW rejected,
           NEW choice \in WidthChoices(fp, workers, rejected)
    PROVE  OfRotation(choice.widths, fp.cn, pool.base)
  <1>1. PICK w : w = choice.widths
    OBVIOUS
  <1>2. \/ w = pool.base \/ w \in Singles(fp.cn, pool.base)
        \/ \E vs \in SUBSET fp.cn : \E p \in [vs -> Widths] : w \in Combinations(pool.base, p)
    BY <1>1, ChoiceKinds
  <1> QED  BY <1>1, <1>2, BaseOfRotation, SinglesOfRotation, CombinedOfRotation

LEMMA SelectableProven ==
    ASSUME NEW r, NEW base, NEW w \in Selectable(r, base)
    PROVE  w = base \/ BatchParity(env.kernels, env.combo, r, w)
  <1>1. w = base \/ \E policies : w \in BenchProven(r, policies)
    <2> DEFINE singles == BenchProven(r, Singles(r, base))
               Better(v) == {u[v] : u \in {s \in singles : Changed(s, base) = {v}}}
               winners == {v \in r : Better(v) # {}}
               promising == {p \in UNION {[vs -> Widths] : vs \in SUBSET winners} :
                                \A v \in DOMAIN p : p[v] \in Better(v)}
               combined == UNION {Combinations(base, p) : p \in promising}
    <2>1. w \in {base} \cup IF base \in singles
                            THEN singles \cup BenchProven(r, combined) ELSE {}
      BY Zenon DEF Selectable
    <2> HIDE DEF combined
    <2> QED  BY <2>1
  <1> QED  BY <1>1 DEF BenchProven

(* The benchmark has reported nothing, or nothing changes what it reported. *)
LEMMA Unreported ==
    ASSUME bench'.result = None, DOMAIN bench' = {"left", "saved", "result"}
    PROVE  Reported'
  BY DEF Reported

LEMMA SameReport ==
    ASSUME Reported, UNCHANGED <<bench, tune, env>>,
           at' = at \/ {at, at'} \subseteq {"benchmarking", "closing", "exit", "statics"}
    PROVE  Reported'
  BY DEF Reported

LEMMA BenchReports ==
    ASSUME Reported, BenchStep
    PROVE  Reported'
  <1>1. /\ at = "benchmarking" /\ UNCHANGED <<env, tune>> /\ at' \in {"benchmarking", "closing"}
    BY DEF BenchStep, Go, Leave
  <1>2. CASE EndBench
    BY <1>1, <1>2, SameReport DEF EndBench
  <1>3. CASE BenchCombination
    <2>1. PICK r, w, left :
            /\ w \in Selectable(r, tune.best.widths)
            /\ bench' = [bench EXCEPT !.left = left, !.result = [rotation |-> r, widths |-> w]]
      BY <1>3 DEF BenchCombination
    <2>2. /\ DOMAIN bench' = {"left", "saved", "result"}
          /\ bench'.result = [rotation |-> r, widths |-> w]
      BY <2>1 DEF Reported
    <2>3. w = tune.best.widths \/ BatchParity(env.kernels, env.combo, r, w)
      BY <2>1, SelectableProven
    <2>4. w = tune.best.widths \/ GroupRight(env.kernels, env.combo, r, w, 4)
      BY <2>3 DEF GroupRight, BatchParity
    <2>5. bench'.result.rotation = r /\ bench'.result.widths = w
      BY <2>2
    <2> QED  BY <1>1, <2>2, <2>4, <2>5 DEF Reported
  <1> QED  BY <1>2, <1>3 DEF BenchStep

(* Everywhere else the benchmark is left alone, or starts.                 *)
LEMMA NextReported ==
    ASSUME TInv, Reported, [Next]_vars
    PROVE  Reported'
  <1> DEFINE After == {"benchmarking", "closing", "exit", "statics"}
  <1>1. CASE bench' = IdleBench
    BY <1>1, Unreported DEF IdleBench
  <1>2. CASE UNCHANGED bench /\ at \notin After
    BY <1>2, Unreported DEF Reported
  <1>3. CASE UNCHANGED <<bench, tune, env>> /\ (at' = at \/ {at, at'} \subseteq After)
    BY <1>3, SameReport
  <1>4. CASE Start \/ ProcessEnds \/ Kill
    BY <1>1, <1>4 DEF Start, ProcessEnds, Kill, Gone
  <1>5. CASE RefreshThread \/ GpuPrint \/ RequestStop \/ PoolStep \/ MiningFrame
             \/ PrintPiece(Main) \/ FlushUnfinished \/ UNCHANGED vars
    <2>1. UNCHANGED <<bench, tune, env, at>>
      BY <1>5 DEF vars, RefreshThread, GpuPrint, PrintPiece, RequestStop, PoolStep, MiningFrame,
                  FlushUnfinished, tuningVars, poolVars, processVars
    <2> QED  BY <1>3, <2>1
  <1>6. CASE \/ Configure \/ FirstRun \/ Prompt \/ Display \/ BenchTune \/ RunMiner \/ MinerTune
             \/ TuningDone \/ Devices \/ MiningOver \/ Tuning
    <2>1. UNCHANGED bench /\ at \notin After
      BY <1>6 DEF Configure, FirstRun, Prompt, Display, BenchTune, RunMiner, MinerTune,
                  TuningDone, Devices, MiningOver, Tuning
    <2> QED  BY <1>2, <2>1
  <1>7. CASE LeaveScreen \/ CloseStreams
    <2>1. UNCHANGED <<bench, tune, env>> /\ {at, at'} \subseteq After
      BY <1>7 DEF LeaveScreen, CloseStreams, Go, tuningVars
    <2> QED  BY <1>3, <2>1
  <1>8. CASE BenchBegin
    <2>1. at = "benchTuning" /\ (UNCHANGED bench \/ StartBench)
      BY <1>8 DEF BenchBegin
    <2>2. CASE StartBench
      BY <2>2, Unreported DEF StartBench
    <2> QED  BY <1>2, <2>1, <2>2
  <1>9. CASE BenchStep
    BY <1>9, BenchReports
  <1> QED  BY <1>4, <1>5, <1>6, <1>7, <1>8, <1>9 DEF Next, MainStep

(* A policy stays tested while the pool keeps its base.                    *)
LEMMA StaysTested ==
    ASSUME NEW w, UNCHANGED env, pool'.base = pool.base
    PROVE  Tested(w)' <=> Tested(w)
  BY DEF Tested

LEMMA KeepsLearned ==
    ASSUME UNCHANGED env, NEW p, pool' = p, p.base = pool.base, NEW u, rt'.widths = u,
           \A w \in p.validated : Tested(w), p.widths # None => Tested(p.widths),
           p.step \in {"hash", "widths"} => p.fp.cn \in Rotations,
           p.step = "hash" => u = pool.base \/ Tested(u)
    PROVE  Learned'
  <1>1. PICK x : x = p.widths
    OBVIOUS
  <1>2. \A w : Tested(w)' <=> Tested(w)
    BY StaysTested
  <1>3. Tested(pool.widths)' <=> Tested(p.widths)
    BY DEF Tested
  <1>4. Tested(rt.widths)' <=> Tested(u)
    BY DEF Tested
  <1> QED  BY <1>2, <1>3, <1>4 DEF Learned

LEMMA ChoosesTested ==
    ASSUME pool.base \in WidthPolicies, pool.fp.cn \in Rotations,
           NEW choice \in WidthChoices(pool.fp, pool.active, pool.rejected),
           BatchParity(env.kernels, env.combo, pool.fp.cn, choice.widths)
    PROVE  Tested(choice.widths)
  <1>1. OfRotation(choice.widths, pool.fp.cn, pool.base)
    BY ChoiceOfRotation
  <1> QED  BY <1>1 DEF OfRotation, Tested

LEMMA PoolLearns ==
    ASSUME TInv, Learned, PoolStep, at = "mining"
    PROVE  Learned'
  <1>1. /\ UNCHANGED <<env, at>> /\ DOMAIN rt = {"lane", "widths", "affinity", "measuring"}
        /\ KnownStart(env)
    BY PoolShapes DEF TInv, Started
  <1>2. CASE MakePool
    <2>1. pool'.validated = {} /\ pool'.widths = None /\ pool'.step = "idle"
      BY <1>2 DEF MakePool
    <2> QED  BY <2>1 DEF Learned
  <1>3. CASE ~MakePool
    <2>1. StartRound \/ ChooseWidths \/ EndRound \/ LoadStore \/ TruncateStore \/ WriteStore
      BY <1>3 DEF PoolStep
    <2>2. pool # NoPool
      <3>1. pool.step # "none"
        BY <2>1 DEF StartRound, ChooseWidths, EndRound, LoadStore, TruncateStore, WriteStore
      <3> QED  BY <3>1 DEF NoPool
    <2>3. /\ DOMAIN pool = PoolFields /\ pool.step \notin {"none", "flush", "flushWrite"}
          /\ pool.base \in WidthPolicies
      BY <2>2 DEF TInv, Mining, Equipped, Proven
    <2>4. /\ \A w \in pool.validated : Tested(w)
          /\ pool.widths # None => Tested(pool.widths)
          /\ pool.step \in {"hash", "widths"} => pool.fp.cn \in Rotations
          /\ pool.step = "hash" => rt.widths = pool.base \/ Tested(rt.widths)
      BY <2>2 DEF Learned
    <2>5. PICK p, u : p = pool' /\ u = rt'.widths
      OBVIOUS
    <2>6. CASE StartRound
      <3>1. /\ Made(p) /\ p.fp \in env.schedules /\ p.validated = pool.validated
            /\ p.widths = pool.widths \/ p.widths = None
            /\ u = pool.base \/ (p.widths # None /\ u = p.widths)
        BY <1>1, <2>3, <2>5, <2>6, StartRoundFacts
      <3>2. p.fp.cn \in Rotations
        BY <1>1, <3>1 DEF KnownStart
      <3>3. p.widths # None => Tested(p.widths)
        BY <2>4, <3>1
      <3> QED  BY <1>1, <2>4, <2>5, <3>1, <3>2, <3>3, KeepsLearned DEF Made
    <2>7. CASE ChooseWidths
      <3>1. PICK choice \in WidthChoices(pool.fp, pool.active, pool.rejected) :
               /\ Made(p) /\ p.fp = pool.fp
               /\ \/ /\ \/ choice.widths \in pool.validated
                        \/ BatchParity(env.kernels, env.combo, pool.fp.cn, choice.widths)
                     /\ p.step = "hash" /\ u = choice.widths
                     /\ p.validated = pool.validated \cup {choice.widths}
                     /\ p.widths = None \/ p.widths = choice.widths
                  \/ /\ p.step = "widths" /\ UNCHANGED rt
                     /\ p.validated = pool.validated /\ p.widths = pool.widths
        BY <1>1, <2>3, <2>5, <2>7, ChooseWidthsFacts
      <3>2. p.fp.cn \in Rotations /\ pool.fp.cn \in Rotations
        BY <2>4, <2>7, <3>1 DEF ChooseWidths
      <3>3. CASE p.step = "hash"
        <4>1. Tested(choice.widths)
          BY <2>3, <2>4, <3>1, <3>2, <3>3, ChoosesTested
        <4> QED  BY <1>1, <2>4, <2>5, <3>1, <3>2, <3>3, <4>1, KeepsLearned DEF Made
      <3>4. CASE p.step = "widths"
        BY <1>1, <2>4, <2>5, <3>1, <3>2, <3>4, KeepsLearned DEF Made
      <3> QED  BY <3>1, <3>3, <3>4
    <2>8. CASE EndRound \/ LoadStore \/ TruncateStore \/ WriteStore
      <3>1. /\ Made(p) /\ UNCHANGED rt /\ p.fp = pool.fp
            /\ p.validated = pool.validated /\ p.widths = pool.widths
            /\ p.step \notin {"hash", "widths"} \/ p.step = pool.step
        BY <2>3, <2>5, <2>8, StoreFacts
      <3> QED  BY <1>1, <2>4, <2>5, <3>1, KeepsLearned DEF Made
    <2> QED  BY <2>1, <2>6, <2>7, <2>8
  <1> QED  BY <1>2, <1>3

LEMMA NextLearned ==
    ASSUME TInv, Learned, [Next]_vars
    PROVE  Learned'
  <1>1. CASE at' # "mining"
    BY <1>1 DEF Learned
  <1>2. CASE UNCHANGED <<env, pool, rt, at>>
    BY <1>2 DEF Learned, Tested
  <1>3. CASE RefreshThread \/ GpuPrint \/ RequestStop \/ MiningFrame
             \/ PrintPiece(Main) \/ FlushUnfinished \/ UNCHANGED vars
    BY <1>2, <1>3 DEF vars, RefreshThread, GpuPrint, PrintPiece, RequestStop, MiningFrame,
                      FlushUnfinished, tuningVars, poolVars, processVars
  <1>4. CASE PoolStep
    <2>1. at' = at
      BY <1>4 DEF PoolStep, processVars
    <2> QED  BY <1>1, <1>4, <2>1, PoolLearns
  <1>5. CASE Devices
    <2>1. pool' = NoPool
      BY <1>5 DEF Devices, TInv, Settled, poolVars
    <2> QED  BY <2>1 DEF Learned
  <1>6. CASE Start \/ Configure \/ FirstRun \/ Prompt \/ Display \/ BenchTune \/ BenchBegin
             \/ BenchStep \/ RunMiner \/ MinerTune \/ TuningDone \/ Tuning
    <2>1. at' # "mining"
      BY <1>6 DEF Start, Configure, FirstRun, Prompt, Display, BenchTune, BenchBegin, BenchStep,
                  RunMiner, MinerTune, TuningDone, Tuning, processVars, Go, Leave
    <2> QED  BY <1>1, <2>1
  <1>7. CASE MiningOver \/ LeaveScreen \/ CloseStreams \/ ProcessEnds \/ Kill
    <2>1. at' # "mining"
      BY <1>7 DEF MiningOver, LeaveScreen, CloseStreams, ProcessEnds, Kill, Gone, Go, Leave
    <2> QED  BY <1>1, <2>1
  <1> QED  BY <1>3, <1>4, <1>5, <1>6, <1>7 DEF Next, MainStep

LEMMA HInvHolds == Spec => [](TInv /\ HInv)
  <1>1. Init => TInv /\ HInv
    BY InitTInv DEF Init, IdleBench, HInv, Learned, Reported
  <1>2. TInv /\ HInv /\ [Next]_vars => (TInv /\ HInv)'
    BY NextTInv, NextLearned, NextReported DEF HInv
  <1> QED  BY <1>1, <1>2, PTL DEF Spec

(* With reusable contexts that are right, the base passes the parity test  *)
(* of every rotation: its kernels were tested under other headers, or are  *)
(* the scalar ones.                                                        *)
LEMMA BaseParity ==
    ASSUME KnownStart(env), NEW b, Proven(b), Unruled(b), NEW r \in Rotations,
           OptimizedReady(env.kernels)
    PROVE  BatchParity(env.kernels, env.combo, r, b)
  <1>1. Select(env.combo, r, b) = b
    BY DEF Unruled
  <1>2. PICK k : k = env.kernels
    OBVIOUS
  <1>3. \A v, n : <<v, n>> \in k.fails => n # 1
    BY <1>2 DEF KnownStart, Kernels
  <1>4. ASSUME NEW x \in KernelsOf(env.combo, r, b, 4)
        PROVE  x \notin k.wrong /\ x \notin k.fails
    <2>1. PICK v \in r, l \in 0 .. 3 : x = <<v, KernelOf(b[v], l, 4)>>
      BY <1>1, <1>4 DEF KernelsOf
    <2>2. PICK n : n = KernelOf(b[v], l, 4)
      OBVIOUS
    <2>3. v \in Variants /\ b[v] \in Widths
      BY CnHashAssumption DEF Proven, WidthPolicies
    <2>4. n = 1 \/ (n = b[v] /\ n \in {2, 4})
      BY <2>2, <2>3, KernelCases
    <2>5. CASE n = 1
      BY <1>2, <1>3, <2>1, <2>2, <2>3, <2>5 DEF OptimizedReady
    <2>6. CASE n = b[v] /\ n \in {2, 4}
      BY <1>2, <2>1, <2>2, <2>6, WiderKernels
    <2> QED  BY <2>4, <2>5, <2>6
  <1> QED  BY <1>2, <1>4 DEF BatchParity, BatchAccepted

LEMMA RejectsNew ==
    ASSUME TInv, Learned, PoolStep, at = "mining", pool.step = "widths", pool'.step = "widths",
           OptimizedReady(env.kernels), Unruled(pool.base)
    PROVE  \E w \in WidthPolicies \ pool.rejected : w # pool.base /\ w \in pool'.rejected
  <1>1. pool # NoPool
    BY DEF NoPool
  <1>2. /\ KnownStart(env) /\ DOMAIN pool = PoolFields /\ Proven(pool.base)
        /\ pool.fp.cn \in Rotations
    BY <1>1 DEF TInv, Started, Mining, Equipped, Learned
  <1>3. ChooseWidths
    <2>1. pool.step \notin {"idle", "hash", "save", "flush", "write", "flushWrite"}
      OBVIOUS
    <2> QED  BY <1>1, <2>1 DEF PoolStep, MakePool, StartRound, EndRound, LoadStore,
                               TruncateStore, WriteStore
  <1>4. PICK choice \in WidthChoices(pool.fp, pool.active, pool.rejected) :
        IF \/ choice.widths \in pool.validated
           \/ BatchParity(env.kernels, env.combo, pool.fp.cn, choice.widths)
        THEN pool' = [pool EXCEPT !.step = "hash", !.validated = @ \cup {choice.widths},
                         !.widths = IF choice.probing THEN None ELSE choice.widths]
        ELSE pool' = [pool EXCEPT !.rejected = @ \cup {choice.widths}]
    BY <1>3, Zenon DEF ChooseWidths
  <1>5. CASE \/ choice.widths \in pool.validated
             \/ BatchParity(env.kernels, env.combo, pool.fp.cn, choice.widths)
    <2>1. PICK v, w : pool' = [pool EXCEPT !.step = "hash", !.validated = v, !.widths = w]
      BY <1>4, <1>5
    <2>2. pool'.step = "hash"
      BY <1>2, <2>1 DEF PoolFields
    <2> QED  BY <2>2
  <1>6. CASE ~ \/ choice.widths \in pool.validated
               \/ BatchParity(env.kernels, env.combo, pool.fp.cn, choice.widths)
    <2>1. choice.widths # pool.base
      BY <1>2, <1>6, BaseParity
    <2>2. choice.widths \notin pool.rejected
      BY <2>1, ChoiceKinds
    <2>3. choice.widths \in WidthPolicies
      <3>1. pool.base \in WidthPolicies
        BY <1>2 DEF Proven
      <3> QED  BY <3>1, ChoiceOfRotation DEF OfRotation
    <2>4. pool'.rejected = pool.rejected \cup {choice.widths}
      BY <1>2, <1>4, <1>6 DEF PoolFields
    <2> QED  BY <2>1, <2>2, <2>3, <2>4
  <1> QED  BY <1>5, <1>6

(* Nothing else changes the pool while it chooses.                         *)
LEMMA OnlyPoolSteps ==
    ASSUME [Next]_vars, at = "mining", pool.step = "widths", pool'.step = "widths", pool' # pool
    PROVE  PoolStep
  <1>1. pool' # NoPool /\ pool # NoPool
    BY DEF NoPool
  <1>2. CASE Start \/ ProcessEnds \/ Kill
    BY <1>1, <1>2 DEF Start, ProcessEnds, Kill, Gone
  <1>3. CASE RefreshThread \/ GpuPrint \/ RequestStop \/ MiningFrame
             \/ PrintPiece(Main) \/ FlushUnfinished \/ UNCHANGED vars
    BY <1>3 DEF vars, RefreshThread, GpuPrint, PrintPiece, RequestStop, MiningFrame,
                FlushUnfinished, poolVars
  <1>4. CASE \/ Configure \/ FirstRun \/ Prompt \/ Display \/ BenchTune \/ BenchBegin \/ BenchStep
             \/ RunMiner \/ MinerTune \/ TuningDone \/ Devices \/ Tuning
             \/ MiningOver \/ LeaveScreen \/ CloseStreams
    BY <1>4 DEF Configure, FirstRun, Prompt, Display, BenchTune, BenchBegin, BenchStep,
                RunMiner, MinerTune, TuningDone, Devices, Tuning, MiningOver, LeaveScreen,
                CloseStreams, poolVars
  <1> QED  BY <1>2, <1>3, <1>4 DEF Next, MainStep

--------------------------------------------------------------------------------
(* The theorems                                                            *)

(* However many threads print and whatever they print, and wherever the    *)
(* main thread flushes an unfinished line, the session log holds the lines *)
(* of standard output unmixed.                                             *)
THEOREM LinesCorrect == Spec => []WholeLines
  <1>1. IInv => WholeLines
    BY DEF IInv
  <1> QED  BY <1>1, InvHolds, PTL

(* Once the mining dashboard has drawn a frame, at most one more of the    *)
(* tuning screen appears, and nothing is drawn on the normal screen.       *)
THEOREM HandoverCorrect == Spec => []ScreenHandover
  <1>1. IInv => ScreenHandover
    BY DEF IInv, ScreenState, ScreenHandover
  <1> QED  BY <1>1, InvHolds, PTL

(* Refused, stopped or done, a process that is not killed leaves the       *)
(* screen and the echo as main() found them, no thread and no unwritten    *)
(* part of a line.                                                         *)
THEOREM GivesBackCorrect == Spec => []GivesBack
  <1>1. IInv /\ GInv => GivesBack
    <2> SUFFICES ASSUME IInv, GInv, at = "off", ~killed PROVE Restored
      BY DEF GivesBack
    <2>1. ~con.active /\ ScreenState /\ \A w \in Writers : Buffered(w)
      BY DEF GInv, Over, IInv
    <2> QED  BY <2>1 DEF GInv, Restored, ScreenState, Buffered
  <1> QED  BY <1>1, GInvHolds, PTL

(* Whatever was measured, loaded from an earlier start or under another    *)
(* ceiling, cut off by a kill or refused, a CPU mines with settings it can *)
(* use: production_autotune, the overrides and the pool keep them.         *)
THEOREM TuningUsable == Spec => []UsableTuning
  <1>1. TInv => UsableTuning
    BY DEF TInv, Mining, Equipped, Bound, Allowed, Proven, UsableTuning
  <1> QED  BY <1>1, TInvHolds, PTL

(* The digests of every group of a production round are right, after any   *)
(* history of caches, builds, rotations, refused and learned policies, and *)
(* so are those of a policy the combination benchmark reports: the parity  *)
(* tests of the tuning and of the pool cover every kernel a round runs.    *)
THEOREM HashesRight == Spec => []RightHashes
  <1> QED  BY HInvHolds, HInvRight, PTL

(* Where the reusable contexts are right and no rule replaces the base,    *)
(* each turn of WorkerPool::run's loop over width plans ends it or rejects *)
(* one more policy, never the base: with finitely many policies, it ends.  *)
THEOREM ChoosingCorrect == Spec => ChoosingAdvances
  <1> DEFINE Advances ==
        /\ at = "mining" /\ pool.step = "widths" /\ pool'.step = "widths" /\ pool' # pool
        /\ OptimizedReady(env.kernels) /\ Unruled(pool.base)
        => \E w \in WidthPolicies \ pool.rejected : w # pool.base /\ w \in pool'.rejected
  <1>1. TInv /\ HInv /\ [Next]_vars => [Advances]_vars
    BY OnlyPoolSteps, RejectsNew DEF HInv
  <1> QED  BY <1>1, HInvHolds, PTL DEF Spec, ChoosingAdvances
================================================================================
