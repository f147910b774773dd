---------------------------- MODULE CelValidation ----------------------------
(***************************************************************************)
(* The CEL filter of TopicMessagesPage.tsx: an effect that runs after each *)
(* change, waits 400 ms, asks the server whether the expression compiles,  *)
(* and is cancelled by the next change or when the page is left. Requests  *)
(* that were sent go on, and are answered in any order.                    *)
(***************************************************************************)
CONSTANTS
    Filters,      \* CEL expressions
    ValidFilters, \* those that compile
    Blank         \* no expression, no verdict

ASSUME CelAssumption ==
    /\ ValidFilters \subseteq Filters
    /\ Blank \notin Filters /\ Blank \notin [of : Filters, valid : BOOLEAN]

VARIABLES
    mounted,    \* is the page open?
    filter,     \* celFilter
    verdict,    \* celValid, with the expression it is about
    validating, \* celValidating
    timer,      \* the 400 ms are running
    checks      \* validations under way; live: not cancelled

celVars == <<mounted, filter, verdict, validating, timer, checks>>

Answers(f) == {[of |-> f, valid |-> f \in ValidFilters], Blank}

CelInit ==
    /\ mounted = TRUE
    /\ filter = Blank /\ verdict = Blank /\ validating = FALSE /\ timer = FALSE
    /\ checks = {}

\* The cleanup: `cancelled` is set, which the late answers look at.
Cancelled == {[c EXCEPT !.live = FALSE] : c \in checks}

\* The cleanup, then the effect: the old verdict stays until there is another.
SetCelFilter(f) ==
    /\ mounted /\ f # filter
    /\ filter' = f
    /\ checks' = Cancelled
    /\ validating' = (f # Blank) /\ timer' = (f # Blank)
    /\ verdict' = IF f = Blank THEN Blank ELSE verdict
    /\ UNCHANGED mounted

Validate ==
    /\ timer
    /\ timer' = FALSE
    /\ checks' = checks \cup {[of |-> filter, live |-> TRUE]}
    /\ UNCHANGED <<mounted, filter, verdict, validating>>

ValidatedAnyway(c) ==           \* mutant: no `cancelled`
    /\ c \in checks
    /\ checks' = checks \ {c}
    /\ verdict' \in Answers(c.of)
    /\ validating' = FALSE
    /\ UNCHANGED <<mounted, filter, timer>>

\* An answer, or an error, which counts as no verdict.
Validated(c) ==
    /\ c \in checks
    /\ checks' = checks \ {c}
    /\ IF c.live THEN verdict' \in Answers(c.of) /\ validating' = FALSE
       ELSE UNCHANGED <<verdict, validating>>
    /\ UNCHANGED <<mounted, filter, timer>>

\* The page is left, or is there anew: its state starts again.
Remount ==
    /\ mounted' = ~mounted
    /\ filter' = Blank /\ verdict' = Blank /\ validating' = FALSE /\ timer' = FALSE
    /\ checks' = Cancelled

ValidateAnswered == \E c \in checks : Validated(c)

CelNext ==
    \/ \E f \in Filters \cup {Blank} : SetCelFilter(f)
    \/ Validate \/ ValidateAnswered \/ Remount

CelSpec == CelInit /\ [][CelNext]_celVars

\* What is shown beside the expression: a wheel, or a mark, green or red, and under
\* it the text of an error, which the wheel does not hide.
Mark      == IF filter # Blank /\ ~validating THEN verdict ELSE Blank
ErrorText == IF verdict # Blank /\ ~verdict.valid THEN verdict ELSE Blank
-----------------------------------------------------------------------------
\* Type correctness; a validation that was not cancelled is the only one, is about
\* what the filter says, and no timer runs beside it; the wheel turns exactly as
\* long as one of the two is there.
CelTypeOK ==
    /\ mounted \in BOOLEAN /\ validating \in BOOLEAN /\ timer \in BOOLEAN
    /\ filter \in Filters \cup {Blank}
    /\ verdict \in [of : Filters, valid : BOOLEAN] \cup {Blank}
    /\ checks \subseteq [of : Filters, live : BOOLEAN]
    /\ timer => validating /\ filter # Blank
    /\ \A c \in checks : c.live => c.of = filter /\ validating /\ ~timer
    /\ validating => timer \/ \E c \in checks : c.live

\* The mark is about the expression that is there and right, in whatever order the
\* validations of earlier ones are answered; so is the text of an error, unless the
\* wheel turns, when it may still be that of an earlier one; beside no expression
\* there is neither.
VerdictIsForFilter ==
    /\ Mark # Blank => Mark = [of |-> filter, valid |-> filter \in ValidFilters]
    /\ ErrorText # Blank /\ ~validating => ErrorText.of = filter
    /\ filter = Blank => ErrorText = Blank
=============================================================================
