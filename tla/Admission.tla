----------------------------- MODULE Admission -----------------------------
(***************************************************************************)
(* What generate_image makes of the body of a request: it is sent upstream *)
(* as it came, is refused with a row in request_logs, or is an error that  *)
(* leaves none.                                                            *)
(*                                                                         *)
(* A body is unreadable, some other JSON value, or an object. Of the       *)
(* values in an object all that matters is what int() does with them:      *)
(*   number      of value halves / 2 (a whole one may stand in a string)   *)
(*   infinite    OverflowError (1e999 reads as one)                        *)
(*   other       TypeError or ValueError                                   *)
(***************************************************************************)
EXTENDS Integers

CONSTANTS
    MaxPixels, MaxSteps, MaxSamples,   \* opus_max_pixels, ...
    Limited,                           \* novelai_models names a model,
    DefaultListed,                     \* and the default one
    Halves                             \* bound on the numbers of a body

ASSUME AdmissionAssumption ==
    /\ MaxPixels \in Int /\ MaxSteps \in Int /\ MaxSamples \in Int
    /\ Limited \in BOOLEAN /\ DefaultListed \in BOOLEAN
    /\ Halves \subseteq Int

Fields == {"width", "height", "steps", "n_samples"}

Number(h) == [kind |-> "number", halves |-> h]
Values == {Number(h) : h \in Halves} \cup {[kind |-> "infinite"], [kind |-> "other"]}

Objects == [kind : {"object"}, fields : UNION {[F -> Values] : F \in SUBSET Fields},
            model : {"absent", "listed", "unlisted", "unhashable"}]

Bodies == Objects \cup [kind : {"unreadable", "no object"}]

---------------------------------------------------------------------------
(* _validate_opus_limits *)

\* int() of a number: towards zero
Whole(h) == IF h >= 0 THEN h \div 2 ELSE -((-h) \div 2)

AsInt(body, field) == Whole(body.fields[field].halves)

\* The fields are converted in this order: the first that cannot be decides.
Converted == <<"width", "height", "steps", "n_samples">>

Unconverted(body) == {i \in DOMAIN Converted : body.fields[Converted[i]].kind # "number"}

Overflows(body) ==
    \E i \in Unconverted(body) :
        /\ body.fields[Converted[i]].kind = "infinite"
        /\ \A j \in Unconverted(body) : i <= j

\* Faulty: the product alone is looked at.
WithinLimitsOfProduct(body) ==
    /\ AsInt(body, "steps") \in 1..MaxSteps
    /\ AsInt(body, "width") * AsInt(body, "height") <= MaxPixels
    /\ AsInt(body, "n_samples") = MaxSamples

WithinLimits(body) ==
    /\ AsInt(body, "width") > 0 /\ AsInt(body, "height") > 0
    /\ AsInt(body, "steps") \in 1..MaxSteps
    /\ AsInt(body, "width") * AsInt(body, "height") <= MaxPixels
    /\ AsInt(body, "n_samples") = MaxSamples

Validated(body) ==
    IF DOMAIN body.fields # Fields THEN "refused"
    ELSE IF Unconverted(body) # {}
    THEN IF Overflows(body) THEN "error" ELSE "refused"
    ELSE IF WithinLimits(body) THEN "sent" ELSE "refused"

---------------------------------------------------------------------------
(* generate_image *)

\* The model as it is sent: `model not in allowed_models` raises what cannot be hashed.
ModelRefused(body) ==
    Limited /\ (body.model = "unlisted" \/ (body.model = "absent" /\ ~DefaultListed))

Verdict(body) ==
    IF body.kind # "object" \/ ModelRefused(body) THEN "refused"
    ELSE IF Limited /\ body.model = "unhashable" THEN "error"
    ELSE Validated(body)

Verdicts == {Verdict(body) : body \in Bodies}

---------------------------------------------------------------------------
(* Properties *)

\* A body goes upstream as it came, not as it was converted. The numbers it asks
\* for, in halves, so that a product is in quarters:
Numeric(body) ==
    DOMAIN body.fields = Fields /\ \A field \in Fields : body.fields[field].kind = "number"

Asks(body, field) == body.fields[field].halves

\* It asks for what the limits allow.
Modest(body) ==
    /\ Numeric(body)
    /\ Asks(body, "width") >= 2 /\ Asks(body, "height") >= 2
    /\ Asks(body, "width") * Asks(body, "height") <= 4 * MaxPixels
    /\ Asks(body, "steps") \in 2 .. 2 * MaxSteps
    /\ Asks(body, "n_samples") = 2 * MaxSamples

\* It would after the loss of a row, a column, and what is not whole of a step and
\* of a sample.
NearlyModest(body) ==
    /\ Numeric(body)
    /\ Asks(body, "width") >= 2 /\ Asks(body, "height") >= 2
    /\ (Asks(body, "width") - 2) * (Asks(body, "height") - 2) < 4 * MaxPixels
    /\ Asks(body, "steps") \in 2 .. 2 * MaxSteps + 1
    /\ Asks(body, "n_samples") \in 2 * MaxSamples .. 2 * MaxSamples + 1

ModelAllowed(body) ==
    Limited => body.model = "listed" \/ (body.model = "absent" /\ DefaultListed)

Allowed == {body \in Objects : ModelAllowed(body)}
Sent == {body \in Bodies : Verdict(body) = "sent"}

OnlyNearlyModestSent == Sent \subseteq {body \in Allowed : NearlyModest(body)}
AllModestSent == {body \in Allowed : Modest(body)} \subseteq Sent

============================================================================
