----------------------------- MODULE NumberRoundTrip -----------------------------
(***************************************************************************)
(* A number token through parseNumber, FormatDouble and parseNumber again, *)
(* as when a text is canonicalized and its output read back; or any float  *)
(* a caller built, through the last two.                                   *)
(***************************************************************************)
EXTENDS JsonNumber, ShortestDecimal, FloatFormat

CONSTANT
  ParseFloat(_)   \* strconv.ParseFloat: the bits of the float nearest to a token's magnitude

VARIABLE
  round           \* the input is being read, or the output

working == <<scaling, trimming, digits, dp>>
allVars == <<vars, round, formatVars>>

--------------------------------------------------------------------------------

FromText ==
  /\ Init
  /\ float = [negative |-> FALSE, bits |-> 0]
  /\ Begin("idle")

FromFloat ==
  /\ data = <<>> /\ pos = 0 /\ pc = "idle" /\ outcome = [class |-> "pending", offset |-> 0]
  /\ FormatInit

Start == round = "input" /\ (FromText \/ FromFloat)

Read ==
  /\ pc \notin {"idle", "done"}
  /\ Next
  /\ UNCHANGED <<round, formatVars>>

\* The serializer is called on the number parsed.
Hand ==
  /\ round = "input"
  /\ step = "idle"
  /\ pc = "done" /\ outcome.class = "ok"
  /\ LET raw == SubSeq(data, 1, pos) IN
       float' = [negative |-> raw[1] = "-", bits |-> ParseFloat(raw)]
  /\ step' = "format"
  /\ UNCHANGED <<vars, round, working, verdict, text>>

Format ==
  /\ step \notin {"idle", "done"}
  /\ FormatNext
  /\ UNCHANGED <<vars, round>>

\* The text is parsed.
ReadBack ==
  /\ round = "input"
  /\ step = "done" /\ verdict = "ok"
  /\ round' = "output"
  /\ data' = text /\ pos' = 0 /\ pc' = "sign" /\ outcome' = [class |-> "pending", offset |-> 0]
  /\ UNCHANGED formatVars

\* The text is rejected, or the output read; or the float has no text.
Halt ==
  \/ Stop /\ (outcome.class # "ok" \/ round = "output") /\ UNCHANGED <<round, formatVars>>
  \/ step = "done" /\ verdict # "ok" /\ UNCHANGED allVars

Step == Read \/ Hand \/ Format \/ ReadBack \/ Halt

Convert == Start /\ [][Step]_allVars

--------------------------------------------------------------------------------
(* Properties *)

\* Reading the text of a float gives the float back, bit for bit but for the
\* sign of zero, unless the text is over the limit on the length of a number.
RoundTrips ==
  round = "output" /\ pc = "done" =>
    \/ /\ outcome.class = "ok"
       /\ ParseFloat(data) = float.bits
       /\ data[1] = "-" <=> float.negative /\ float.bits # 0
    \/ outcome.class = "BOUND_EXCEEDED" /\ Len(text) > maxNumberChars

================================================================================
