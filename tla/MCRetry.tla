------------------------------- MODULE MCRetry ------------------------------
(* Instances of Retry: the production policy, and the errors the HTTP       *)
(* source produces.                                                        *)
EXTENDS Retry

Status(c) == [class |-> "status", code |-> c, digits |-> {c}]
Other(k) == [class |-> k, code |-> 0, digits |-> {}]

\* Errors whose text holds no other number than their status code.
PlainErrors ==
    {Status(c) : c \in {400, 404, 429, 500, 503}}
      \cup {Other(k) : k \in {"network", "decode", "graphql"}}

\* A request that outlasts DefaultHTTPTimeout.
TimeoutErrors == PlainErrors \cup {Other("timeout")}

\* 5xx statuses that the code's list does not have.
UnlistedErrors == PlainErrors \cup {Status(c) : c \in {501, 520}}

\* A 404 whose body, or whose endpoint's port, holds the digits 500, and a
\* GraphQL error that speaks of 503 of something.
NumberedErrors ==
    PlainErrors \cup
        {[class |-> "status", code |-> 404, digits |-> {404, 500}],
         [class |-> "graphql", code |-> 0, digits |-> {503}]}

AllErrors ==
    TimeoutErrors \cup UnlistedErrors \cup NumberedErrors
      \cup {[class |-> "status", code |-> 501, digits |-> {501, 429}]}
=============================================================================
