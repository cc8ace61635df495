------------------------------- MODULE Retry --------------------------------
(***************************************************************************)
(* The retrying source of internal/pricing/retry.go around HTTPSource: one *)
(* lookup after another, under one context that may be cancelled at any    *)
(* time.  Times are in units of a quarter of a second.                     *)
(*                                                                         *)
(* An error is what isTransient can tell about it: its class, and the      *)
(* status codes whose digits occur anywhere in its text.                   *)
(***************************************************************************)
EXTENDS Integers, Sequences

CONSTANTS
    MaxAttempts,    \* RetryPolicy.MaxAttempts, counting the first
    InitialDelay,
    MaxDelay,
    Multiplier,
    Errors          \* what an attempt may fail with while the context lives

Classes == {"network", "timeout", "status", "graphql", "decode", "canceled"}
RetriedCodes == {500, 502, 503, 504, 429}

ASSUME PolicyAssumption ==
    /\ MaxAttempts \in Nat \ {0, 1}
    /\ InitialDelay \in Nat /\ MaxDelay \in Nat /\ InitialDelay <= MaxDelay
    /\ Multiplier \in Nat \ {0}
ASSUME ErrorAssumption ==
    \A e \in Errors : /\ e.class \in Classes \ {"canceled"}
                      /\ e.code \in Nat
                      /\ e.digits \subseteq Nat
                      /\ e.class = "status" => e.code \in e.digits

VARIABLES
    state,          \* "idle", "call" (an attempt is out), "sleep"
    attempt,
    delay,          \* the nominal delay before the next retry
    waited,         \* how long this lookup has slept
    failures,       \* the errors of this lookup's attempts
    cancelledIn,    \* the attempt during which the context was cancelled, 0
                    \* if before this lookup, Never if it was not
    answer          \* how the last lookup ended

retryVars == <<state, attempt, delay, waited, failures, cancelledIn, answer>>

Never == MaxAttempts + 1
ContextCanceled == [class |-> "canceled", code |-> 0, digits |-> {}]

\* An attempt made under a context that was already cancelled.
Doomed == cancelledIn < attempt

\* Faulty IsTransient: the caller's cancellation is retried like a failure.
IsTransientCanceled(e) ==
    \/ e.class \in {"network", "canceled"}
    \/ e.class \in {"status", "graphql"} /\ e.digits \cap RetriedCodes # {}

\* Faulty IsTransient: any upstream answer but success is retried.
IsTransientStatus(e) == e.class \in {"network", "status", "graphql"}

\* Faulty IsTransient: rate limiting is taken for a client error.
IsTransientNot429(e) ==
    \/ e.class = "network"
    \/ /\ e.class \in {"status", "graphql"}
       /\ e.digits \cap (RetriedCodes \ {429}) # {}

\* Errors of class "status" and "graphql" begin with "upstream"; a client
\* timeout counts as context.DeadlineExceeded.
IsTransient(e) ==
    \/ e.class = "network"
    \/ e.class \in {"status", "graphql"} /\ e.digits \cap RetriedCodes # {}

NextDelay(d) == IF d * Multiplier > MaxDelay THEN MaxDelay ELSE d * Multiplier

Jitter(d) == d - d \div 4 .. d + d \div 4

RetryInit ==
    /\ state = "idle"
    /\ attempt = 0 /\ delay = 0 /\ waited = 0
    /\ failures = <<>>
    /\ cancelledIn = Never
    /\ answer = "none"

\* MemoCache or DiskCache asks for another query.
Lookup ==
    /\ state = "idle"
    /\ state' = "call"
    /\ attempt' = 1
    /\ delay' = InitialDelay
    /\ waited' = 0
    /\ failures' = <<>>
    /\ cancelledIn' = IF cancelledIn = Never THEN Never ELSE 0
    /\ answer' = "none"

Succeed ==
    /\ state = "call"
    /\ ~Doomed
    /\ state' = "idle"
    /\ answer' = "value"
    /\ UNCHANGED <<attempt, delay, waited, failures, cancelledIn>>

\* What the attempt in progress may fail with.
Failures ==
    IF Doomed THEN {ContextCanceled}
    ELSE IF cancelledIn = attempt THEN Errors \cup {ContextCanceled}
    ELSE Errors

\* A permanent error, or the last attempt's, is the lookup's answer; any other
\* is waited out.
Fail ==
    /\ state = "call"
    /\ \E e \in Failures :
          /\ failures' = Append(failures, e)
          /\ IF IsTransient(e) /\ attempt < MaxAttempts
             THEN /\ state' = "sleep"
                  /\ UNCHANGED answer
             ELSE /\ state' = "idle"
                  /\ answer' = "error"
    /\ UNCHANGED <<attempt, delay, waited, cancelledIn>>

\* Faulty Wake: the attempt is not counted.
WakeUncounted ==
    /\ state = "sleep"
    /\ state' = "call"
    /\ failures' = SubSeq(failures, 1, Len(failures) - 1)
    /\ delay' = NextDelay(delay)
    /\ UNCHANGED <<attempt, waited, cancelledIn, answer>>

\* The timer fires.
Wake ==
    /\ state = "sleep"
    /\ \E d \in Jitter(delay) : waited' = waited + d
    /\ attempt' = attempt + 1
    /\ delay' = NextDelay(delay)
    /\ state' = "call"
    /\ UNCHANGED <<failures, cancelledIn, answer>>

\* The context ends the sleep; when the timer has fired too, select may take
\* either.
Interrupted ==
    /\ state = "sleep"
    /\ cancelledIn # Never
    /\ state' = "idle"
    /\ answer' = "error"
    /\ UNCHANGED <<attempt, delay, waited, failures, cancelledIn>>

\* Ctrl-C, at any time.
Cancel ==
    /\ cancelledIn = Never
    /\ cancelledIn' = attempt
    /\ UNCHANGED <<state, attempt, delay, waited, failures, answer>>

Attempt == Succeed \/ Fail \/ Wake \/ Interrupted

RetryNext == Lookup \/ Attempt \/ Cancel

\* The client's timeout ends every request and the timer every sleep.
RetrySpec == RetryInit /\ [][RetryNext]_retryVars /\ WF_retryVars(Attempt)

-----------------------------------------------------------------------------
(* Properties.                                                             *)

\* Type invariant.
RetryTypeOK ==
    /\ state \in {"idle", "call", "sleep"}
    /\ attempt \in 0 .. MaxAttempts
    /\ delay \in 0 .. MaxDelay
    /\ waited \in Nat
    /\ failures \in Seq(Errors \cup {ContextCanceled}) /\ Len(failures) <= MaxAttempts
    /\ cancelledIn \in 0 .. Never
    /\ answer \in {"none", "value", "error"}

\* What the comment of isTransient promises to retry: network errors, timeouts
\* included, upstream 5xx and upstream 429.
DocumentedTransient(e) ==
    \/ e.class \in {"network", "timeout"}
    \/ e.class = "status" /\ (e.code \in 500 .. 599 \/ e.code = 429)

\* "Permanent errors (4xx, schema mismatches, context cancellation) propagate
\* immediately": only documented transient errors are retried.
PermanentErrorsEnd ==
    \A i \in 1 .. Len(failures) :
        i < Len(failures) \/ state = "sleep" => DocumentedTransient(failures[i])

\* "We retry on network errors (DNS, connection refused, timeout), upstream 5xx,
\* upstream 429": a lookup that fails before its last attempt, while nobody
\* cancelled it, failed with an error that is documented as permanent.
TransientErrorsRetried ==
    answer = "error" /\ Len(failures) < MaxAttempts /\ cancelledIn = Never =>
        ~DocumentedTransient(failures[Len(failures)])

\* The text of e holds a retried code that is not e's status.
Misleading(e) ==
    \/ e.class = "graphql" /\ e.digits \cap RetriedCodes # {}
    \/ e.class = "status" /\ (e.digits \ {e.code}) \cap RetriedCodes # {}

\* What the code does make sure of, whatever attempts fail with: no attempt
\* follows a permanent error, unless a number in its text passes for a
\* transient status; none ever follows the caller's cancellation, an
\* undecodable response or a timeout (isTransient in Lookup's loop).
OnlyTransientRetried ==
    \A i \in 1 .. Len(failures) :
        i < Len(failures) \/ state = "sleep" =>
            /\ DocumentedTransient(failures[i]) \/ Misleading(failures[i])
            /\ failures[i].class \notin {"canceled", "decode", "timeout"}

\* What the code does make sure of, whatever attempts fail with: a lookup that
\* nobody cancelled and that fails before its last attempt met neither a network
\* error nor one of the five statuses in its list (isTransient in Lookup's loop).
ListedErrorsRetried ==
    answer = "error" /\ Len(failures) < MaxAttempts /\ cancelledIn = Never =>
        LET e == failures[Len(failures)]
        IN  /\ e.class # "network"
            /\ e.class = "status" => e.code \notin RetriedCodes

\* DefaultRetryPolicy promises about eight seconds of waiting at the worst.
DocumentedWait == 32
WaitBounded == waited <= DocumentedWait

\* After a cancellation at most one more attempt is made, and it is the one the
\* timer had already released.
CancelEnds == state # "idle" => attempt <= cancelledIn + 1

\* Every lookup returns, however the upstream and the caller behave.
LookupReturns == state = "call" ~> state = "idle"
=============================================================================
