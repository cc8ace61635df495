----------------------------- MODULE Conversion -----------------------------
(***************************************************************************)
(* Currency conversion of internal/pricing/fx.go under one estimate: the   *)
(* engine looks up one line item after another, and the converter          *)
(* multiplies each USD rate by an exchange rate, which it fetches again    *)
(* when it is older than the TTL.                                          *)
(***************************************************************************)
EXTENDS Integers, Sequences

CONSTANTS
    TTL,            \* DefaultFXCacheTTL
    MaxLatency,     \* the client's timeout
    MaxTime,        \* bound of the clock
    MaxItems,       \* bound: line items of the estimate
    MarketRates     \* USD to target

ASSUME ConversionAssumption ==
    /\ TTL \in Nat \ {0} /\ MaxLatency \in Nat
    /\ MaxTime \in Nat /\ MaxItems \in Nat
    /\ MarketRates \subseteq Nat \ {0}

Times == 0 .. MaxTime

VARIABLES
    now,
    market,         \* the feed's rate at every time; only the past matters
    rate,           \* c.rate, 0 before the first fetch
    fetched,        \* c.fetched
    fetching,       \* a request is out
    asked,          \* when it was sent
    items           \* how each line item's rate was left, in order

fxVars == <<now, market, rate, fetched, fetching, asked, items>>

FXInit ==
    /\ now = 0
    /\ market \in [Times -> MarketRates]
    /\ rate = 0 /\ fetched = 0
    /\ fetching = FALSE /\ asked = 0
    /\ items = <<>>

Add(currency, r) ==
    items' = Append(items, [currency |-> currency, rate |-> r, at |-> now])

Idle == ~fetching /\ Len(items) < MaxItems

Fresh == rate # 0 /\ now - fetched < TTL

\* The inner source fails or answers zero: there is nothing to convert.
LookupUnpriced ==
    /\ Idle
    /\ Add("none", 0)
    /\ UNCHANGED <<now, market, rate, fetched, fetching, asked>>

LookupFresh ==
    /\ Idle
    /\ Fresh
    /\ Add("target", rate)
    /\ UNCHANGED <<now, market, rate, fetched, fetching, asked>>

LookupStale ==
    /\ Idle
    /\ ~Fresh
    /\ fetching' = TRUE
    /\ asked' = now
    /\ UNCHANGED <<now, market, rate, fetched, items>>

\* The feed answers with its rate at some moment while the request was out.
FetchReply ==
    /\ fetching
    /\ \E t \in asked .. now : rate' = market[t]
    /\ fetched' = now
    /\ fetching' = FALSE
    /\ Add("target", rate')
    /\ UNCHANGED <<now, market, asked>>

\* Faulty FetchFail: the failed attempt renews the old rate.
FetchFailRenews ==
    /\ fetching
    /\ fetched' = now
    /\ fetching' = FALSE
    /\ Add("usd", 0)
    /\ UNCHANGED <<now, market, rate, asked>>

\* The request fails, or its answer has no positive rate for the target: the
\* USD rate is returned, with a warning in the log.
FetchFail ==
    /\ fetching
    /\ fetching' = FALSE
    /\ Add("usd", 0)
    /\ UNCHANGED <<now, market, rate, fetched, asked>>

Tick ==
    /\ now < MaxTime
    /\ fetching => now - asked < MaxLatency
    /\ now' = now + 1
    /\ UNCHANGED <<market, rate, fetched, fetching, asked, items>>

FXNext ==
    \/ LookupUnpriced \/ LookupFresh \/ LookupStale
    \/ FetchReply \/ FetchFail
    \/ Tick

FXSpec == FXInit /\ [][FXNext]_fxVars

-----------------------------------------------------------------------------
(* Properties.                                                             *)

Items ==
    [currency : {"none", "usd"}, rate : {0}, at : Times]
      \cup [currency : {"target"}, rate : MarketRates, at : Times]

\* Type invariant.
FXTypeOK ==
    /\ now \in Times
    /\ market \in [Times -> MarketRates]
    /\ rate \in MarketRates \cup {0}
    /\ fetched \in Times /\ asked \in Times
    /\ fetching \in BOOLEAN
    /\ items \in Seq(Items)

\* A converted line item used a rate that the feed gave for some moment at most
\* TTL plus one request before.
RatesRecent ==
    \A i \in 1 .. Len(items) :
        items[i].currency = "target" =>
            \E t \in Times : /\ items[i].at - TTL - MaxLatency <= t
                             /\ t <= items[i].at
                             /\ items[i].rate = market[t]

\* "On FX fetch failure the converter falls back to last-known rate (if any)":
\* once one line item of an estimate has been converted, none of the later ones
\* is left in USD.
LastRateUsed ==
    \A i, j \in 1 .. Len(items) :
        i < j /\ items[i].currency = "target" => items[j].currency # "usd"
=============================================================================
