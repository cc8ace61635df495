---------------------------- MODULE PriceOracle -----------------------------
(***************************************************************************)
(* What a c3x run promises about prices, without any cache: within one run *)
(* the answer to a query never changes, and an answer labelled "live" was  *)
(* quoted by the upstream no earlier than MaxAge before the run began.  An *)
(* offline run promises less: its live answer was quoted once, for the     *)
(* query or for its reference region.                                      *)
(***************************************************************************)
EXTENDS PriceHistory

CONSTANTS
    Runs,       \* c3x processes
    Modes,      \* the kinds of pricing chain a process may be started with
    MaxAge      \* oldest quote an online run may print, before its start

VARIABLES
    mode,       \* mode[r]: "none" when r is not running
    runStart,   \* runStart[r]: when r started
    result      \* result[r][q]: what the chain last returned to the engine

oracleVars == <<clock, priceAt, mode, runStart, result>>

NoResult == [price |-> 0, src |-> "none"]
Failed   == [price |-> 0, src |-> "error"]
Answer(p, s) == [price |-> p, src |-> s]

\* Chains with a MemoCache on top: within one run they answer a query once.
Memoising(m) == m \in {"online", "nocache"}

\* A live price run r may answer q with now.
LivePrice(r, q, p) ==
    IF Memoising(mode[r])
    THEN QuotedIn(q, p, runStart[r] - MaxAge, clock)
    ELSE QuotedIn(q, p, 0, clock) \/ QuotedIn(Ref[q], p, 0, clock)

\* The answers run r may get to q now.  A "stub" zero is what an offline
\* lookup leaves behind; it promises nothing.
Permitted(r, q) ==
    {Failed, Answer(0, "stub")}
      \cup {Answer(p, "live") : p \in {x \in Prices : LivePrice(r, q, x)}}

Init ==
    /\ HistoryInit
    /\ mode = [r \in Runs |-> "none"]
    /\ runStart = [r \in Runs |-> 0]
    /\ result = [r \in Runs |-> [q \in Queries |-> NoResult]]

Begin(r, m) ==
    /\ mode[r] = "none"
    /\ mode' = [mode EXCEPT ![r] = m]
    /\ runStart' = [runStart EXCEPT ![r] = clock]
    /\ UNCHANGED <<clock, priceAt, result>>

End(r) ==
    /\ mode[r] # "none"
    /\ mode' = [mode EXCEPT ![r] = "none"]
    /\ runStart' = [runStart EXCEPT ![r] = 0]
    /\ result' = [result EXCEPT ![r] = [q \in Queries |-> NoResult]]
    /\ UNCHANGED <<clock, priceAt>>

Reply(r, q) ==
    /\ mode[r] # "none"
    /\ Memoising(mode[r]) => result[r][q] = NoResult
    /\ \E a \in Permitted(r, q) : result' = [result EXCEPT ![r][q] = a]
    /\ UNCHANGED <<clock, priceAt, mode, runStart>>

Next ==
    \/ AdvanceTime /\ UNCHANGED <<mode, runStart, result>>
    \/ \E r \in Runs :
          \/ \E m \in Modes : Begin(r, m)
          \/ End(r)
          \/ \E q \in Queries : Reply(r, q)

Spec == Init /\ [][Next]_oracleVars
=============================================================================
