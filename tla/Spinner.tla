------------------------------- MODULE Spinner -------------------------------
(***************************************************************************)
(* The terminal spinner (cli/internal/spinner): a goroutine that draws a   *)
(* line at each tick, and the methods Update and Stop of its user.         *)
(* A line is its width on the terminal, Columns, and what the code takes   *)
(* for its width, the number of its bytes.                                 *)
(***************************************************************************)
EXTENDS Integers

CONSTANTS
  Messages,
  Columns,  \* Columns[m]: the columns of the line with message m, the frame included
  Bytes     \* Bytes[m]: the length of that line in bytes

ASSUME SpinnerAssumption ==
  /\ Columns \in [Messages -> Nat \ {0}]
  /\ Bytes \in [Messages -> Nat]
  /\ \A m \in Messages : Columns[m] <= Bytes[m]

VARIABLES
  message,
  stop,     \* the channel stop is closed: Stop was called
  done,     \* the channel done is closed: the goroutine has returned
  lastLen,  \* the goroutine's idea of the length of the line on the terminal
  screen,   \* the columns of that line that show something
  drawn     \* for the properties: the messages drawn on that line

spinnerVars == <<message, stop, done, lastLen, screen, drawn>>

SpinnerInit ==
  /\ message = CHOOSE m \in Messages : TRUE
  /\ stop = FALSE /\ done = TRUE
  /\ lastLen = 0 /\ screen = 0 /\ drawn = {}

\* New, on a terminal line of its own.
New(m) ==
  /\ message' = m
  /\ stop' = FALSE /\ done' = FALSE
  /\ lastLen' = 0 /\ screen' = 0 /\ drawn' = {}

Update(m) ==
  /\ message' = m
  /\ UNCHANGED <<stop, done, lastLen, screen, drawn>>

\* What is left of n columns once the first k are overwritten, the first c of them with text.
Overwritten(n, k, c) == IF n > k THEN n ELSE c

\* renderLine: blanks behind the message, for as many bytes as the line before had more.
renderLine(m) ==
  LET pad == IF lastLen > Bytes[m] THEN lastLen - Bytes[m] ELSE 0
  IN  Overwritten(screen, Columns[m] + pad, Columns[m])

Tick ==
  /\ ~done
  /\ screen' = renderLine(message)
  /\ lastLen' = Bytes[message]
  /\ drawn' = drawn \cup {message}
  /\ UNCHANGED <<message, stop, done>>

\* The other branch of run's select; when both are ready, either is taken.
Finish ==
  /\ stop /\ ~done
  /\ screen' = Overwritten(screen, lastLen, 0)
  /\ done' = TRUE
  /\ UNCHANGED <<message, stop, lastLen, drawn>>

\* Mutant: an earlier version, which set the channel to nil after closing it.
CallStopNil == UNCHANGED spinnerVars

\* The first half of Stop; Stop returns when done is closed.
CallStop ==
  /\ stop' = TRUE
  /\ UNCHANGED <<message, done, lastLen, screen, drawn>>

\* The process is gone, and the goroutine and its channels with it.
Exit ==
  /\ stop' = FALSE /\ done' = TRUE
  /\ UNCHANGED <<message, lastLen, screen, drawn>>

\* Every line of the messages S has equally many bytes more than columns, as when their
\* texts are in ASCII: then a length in bytes tells which of two lines is longer.
Alike(S) == \A m, n \in S : Bytes[m] - Columns[m] = Bytes[n] - Columns[n]
=============================================================================
