----------------------------- MODULE Redaction ------------------------------
(***************************************************************************)
(* The filter between a step's output and its log (redactingWriter): it    *)
(* sees the output byte by byte, in writes of any length, keeps back what  *)
(* may be the beginning of a secret and puts a marker in the place of      *)
(* every secret.                                                           *)
(*                                                                         *)
(* The output is a sequence of pieces: the input from one position to      *)
(* another, copied or hidden behind a marker.  The buffer that collects    *)
(* them for the target is left out; a target that fails ends the step.     *)
(***************************************************************************)
EXTENDS Integers, Sequences, SequencesExt

CONSTANTS
  Bytes,
  SecretSets,  \* the secrets of a step; none is empty (newRedactingWriter)
  InputLimit   \* bound: bytes a step writes

ASSUME RedactionAssumption ==
  /\ \A S \in SecretSets : \A s \in S : s \in Seq(Bytes) /\ s # << >>
  /\ InputLimit \in Nat

VARIABLES
  secrets,   \* the values to be hidden
  input,     \* history: what the step has written
  retained,  \* how many of its last bytes are kept back (pending)
  output,    \* the pieces written to the log
  draining,  \* whether the loop of drain has not returned
  closed

redactVars == <<secrets, input, retained, output, draining, closed>>

RedactInit ==
  /\ secrets \in SecretSets
  /\ input = << >> /\ retained = 0 /\ output = << >>
  /\ draining = FALSE /\ closed = FALSE

Shown == Len(input) - retained
Rest == SubSeq(input, Shown + 1, Len(input))

\* The defect of a filter that decides on every write alone.
MutantPrefixed == FALSE

\* What is kept back may still become a secret.
Prefixed == \E s \in secrets : Len(Rest) < Len(s) /\ IsPrefix(Rest, s)

\* The secrets it begins with, and the longest of them.
Matches == {s \in secrets : IsPrefix(s, Rest)}
Longest(s) == s \in Matches /\ \A u \in Matches : Len(u) <= Len(s)

\* The first n of the bytes kept back become a piece of the log.
Consume(n, hidden) ==
  /\ output' = Append(output, [from |-> Shown + 1, to |-> Shown + n, hidden |-> hidden])
  /\ retained' = retained - n
  /\ UNCHANGED <<secrets, input, draining, closed>>

\* One round of the loop of drain, which the writer finishes before it takes
\* another byte.
Drain ==
  /\ draining /\ retained > 0 /\ (Prefixed => closed)
  /\ \/ \E s \in Matches : Longest(s) /\ Consume(Len(s), TRUE)
     \/ Matches = {} /\ Prefixed /\ Consume(retained, TRUE)
     \/ Matches = {} /\ ~Prefixed /\ Consume(1, FALSE)

\* drain returns: nothing is left, or what is left must wait for more.
DrainReturns ==
  /\ draining /\ (retained = 0 \/ (Prefixed /\ ~closed))
  /\ draining' = FALSE
  /\ UNCHANGED <<secrets, input, retained, output, closed>>

\* Write, which drains after every byte; one of many bytes is many steps.
WriteByte(b) ==
  /\ ~closed /\ ~draining /\ Len(input) < InputLimit
  /\ input' = Append(input, b) /\ retained' = retained + 1 /\ draining' = TRUE
  /\ UNCHANGED <<secrets, output, closed>>

\* Close, which drains for the last time.
CloseWriter ==
  /\ ~closed /\ ~draining
  /\ closed' = TRUE /\ draining' = TRUE
  /\ UNCHANGED <<secrets, input, retained, output>>

RedactNext == Drain \/ DrainReturns \/ CloseWriter \/ \E b \in Bytes : WriteByte(b)

RedactSpec == RedactInit /\ [][RedactNext]_redactVars

-----------------------------------------------------------------------------
\* The text is the beginning of a secret, but not the whole.
Begins(text) == \E s \in secrets : text # s /\ IsPrefix(text, s)

\* The part of the input a piece of the log stands for.
TextOf(p) == SubSeq(input, p.from, p.to)

\* Wherever the writes are cut, and also when secrets overlap or begin alike:
\* the log is the input in order and without a gap; no secret is in it in full;
\* a marker stands for one whole secret, or at the end for the beginning of one;
\* and what is kept back from one write to the next is the beginning of a
\* secret (drain, Close).
RedactionExact ==
  /\ \A k \in DOMAIN output :
       /\ output[k].from = (IF k = 1 THEN 1 ELSE output[k - 1].to + 1)
       /\ output[k].hidden =>
            \/ TextOf(output[k]) \in secrets
            \/ closed /\ k = Len(output) /\ Begins(TextOf(output[k]))
  /\ Shown = (IF output = << >> THEN 0 ELSE Last(output).to)
  /\ \A s \in secrets : \A i \in 1..Len(input) - Len(s) + 1 :
       SubSeq(input, i, i + Len(s) - 1) = s =>
         \E j \in i..i + Len(s) - 1 :
           j > Shown \/ \E p \in Range(output) : p.hidden /\ j \in p.from..p.to
  /\ retained > 0 /\ ~draining => ~closed /\ Begins(Rest)
=============================================================================
