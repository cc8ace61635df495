--------------------------- MODULE CommandProofs ----------------------------
(***************************************************************************)
(* Theorems about Command, for every parser, price list and invocation:    *)
(* what the baseline file holds and what a comparison was made with, that  *)
(* nothing changed where nothing did, and what following advice saves.     *)
(***************************************************************************)
EXTENDS Command, Scopes, EstimatesProofs, FiniteSetTheorems, TLAPS

\* Which command is at which label; the other labels are shared.
Labelled ==
    /\ pc \in {"configure", "write config"} => Is({"configure"})
    /\ pc = "advise" => Is({"recommend"})
    /\ pc = "post" => Is({"comment"})
    /\ pc \in {"save", "write"} => Is({"estimate"}) /\ cmd.save

\* From the moment an estimate is printed it is what will be saved; past the
\* writing it is there.
Saving ==
    /\ pc \in {"save", "write"} => File \in printed
    /\ pc = "gate" /\ Is({"estimate"}) /\ cmd.save => baseline = File

IInv == Labelled /\ Saving /\ SavedIsPrinted

\* Init: there is no baseline, and no command has begun.
LEMMA InitHolds == Init => IInv
BY DEF Init, IInv, Labelled, Saving, SavedIsPrinted, Ended, Is

\* Start: cmd is new, and nothing is printed yet.
LEMMA StartKeeps == IInv /\ Start => IInv'
<1> SUFFICES ASSUME IInv, Start PROVE IInv'
  OBVIOUS
<1>1. PICK invocation : Begin(invocation)
  BY DEF Start
<1>2. pc' \in {"configure", "target", "load", "resolve"}
  BY <1>1 DEF Begin
<1>3. pc' = "configure" => invocation.command = "configure"
  BY <1>1 DEF Begin
<1>4. Labelled'
  BY <1>1, <1>2, <1>3 DEF Labelled, Is, Begin
<1>5. Saving'
  BY <1>2 DEF Saving
<1>6. SavedIsPrinted'
  BY <1>2 DEF IInv, SavedIsPrinted, Ended, Start, files
<1> QED
  BY <1>4, <1>5, <1>6 DEF IInv

\* The end of a process, at whatever step: the files stay.
LEMMA GoneKeeps == IInv /\ Gone => IInv'
BY DEF IInv, Labelled, Saving, SavedIsPrinted, Ended, Gone, files, history

\* The configuration is not the baseline.
LEMMA ConfigureKeeps == IInv /\ (Configure \/ WriteConfig) => IInv'
<1> SUFFICES ASSUME IInv, Configure \/ WriteConfig PROVE IInv'
  OBVIOUS
<1> USE DEF IInv, Labelled, Saving, SavedIsPrinted, Ended, Is, Goto, Exit, history, process
<1>1. CASE Configure
  BY <1>1 DEF Configure
<1>2. CASE WriteConfig
  BY <1>2 DEF WriteConfig
<1> QED
  BY <1>1, <1>2

\* Price: only recommend goes on to the advice.
LEMMA PriceKeeps == IInv /\ Price => IInv'
<1> SUFFICES ASSUME IInv, Price PROVE IInv'
  OBVIOUS
<1>1. pc' \in {"advise", "load", "render"} \/ (pc' = "exit" /\ outcome' = "error")
  BY DEF Price, Goto, Exit
<1>2. pc' = "advise" => Is({"recommend"})
  BY DEF Price, Goto, Exit
<1>3. UNCHANGED <<baseline, cmd, base, printed>>
  BY DEF Price, files, history
<1>4. Labelled'
  BY <1>1, <1>2, <1>3 DEF Labelled, Is
<1>5. Saving'
  BY <1>1 DEF Saving
<1>6. SavedIsPrinted'
  BY <1>1, <1>3 DEF IInv, SavedIsPrinted, Ended
<1> QED
  BY <1>4, <1>5, <1>6 DEF IInv

\* Advise: recommend saves nothing.
LEMMA AdviseKeeps == IInv /\ Advise => IInv'
BY DEF IInv, Labelled, Saving, SavedIsPrinted, Ended, Is, Advise, Exit, files

\* LoadBaseline: what is compared with is what the file held.
LEMMA LoadKeeps == IInv /\ LoadBaseline => IInv'
<1> SUFFICES ASSUME IInv, LoadBaseline PROVE IInv'
  OBVIOUS
<1>1. pc' \in {"parse", "render"} \/ (pc' = "exit" /\ outcome' = "error")
  BY DEF LoadBaseline, Goto, Exit
<1>2. baseline' = baseline /\ printed' = printed
  BY DEF LoadBaseline, files, history
<1>3. base' = base \/ (base' = baseline /\ baseline \notin {None, Torn})
  BY DEF LoadBaseline
<1>4. Labelled' /\ Saving'
  BY <1>1 DEF Labelled, Saving
<1>5. SavedIsPrinted'
  BY <1>1, <1>2, <1>3 DEF IInv, SavedIsPrinted, Ended
<1> QED
  BY <1>4, <1>5 DEF IInv

\* Render: an estimate to be saved is printed first.
LEMMA RenderKeeps == IInv /\ Render => IInv'
<1> SUFFICES ASSUME IInv, Render PROVE IInv'
  OBVIOUS
<1>1. UNCHANGED <<baseline, cmd, resolved, prices, base, estimate>>
  BY DEF Render, files
<1>2. File' = File
  BY <1>1 DEF File, Of
<1>3. printed \subseteq printed'
  BY DEF Render
<1>4. pc' \in {"post", "save", "gate"}
  BY DEF Render, Goto
<1>5. /\ pc' = "post" => Is({"comment"})
      /\ pc' = "save" => Is({"estimate"}) /\ cmd.save
      /\ pc' = "gate" => ~(Is({"estimate"}) /\ cmd.save)
  BY DEF Render, Goto
<1>6. pc' = "save" => File \in printed'
  BY <1>5 DEF Render
<1>7. Labelled'
  BY <1>1, <1>4, <1>5 DEF Labelled, Is
<1>8. Saving'
  BY <1>1, <1>2, <1>4, <1>5, <1>6 DEF Saving, Is
<1>9. SavedIsPrinted'
  BY <1>1, <1>3, <1>4 DEF IInv, SavedIsPrinted, Ended
<1> QED
  BY <1>7, <1>8, <1>9 DEF IInv

\* os.WriteFile: torn in between, and then what was printed.
LEMMA WriteKeeps == IInv /\ (TruncateBaseline \/ WriteBaseline) => IInv'
<1> SUFFICES ASSUME IInv, TruncateBaseline \/ WriteBaseline PROVE IInv'
  OBVIOUS
<1>1. UNCHANGED <<cmd, resolved, prices, base, estimate, printed>>
  BY DEF TruncateBaseline, WriteBaseline, process, history
<1>2. File' = File
  BY <1>1 DEF File, Of
<1>3. File \in printed /\ Is({"estimate"}) /\ cmd.save
  BY DEF IInv, Labelled, Saving, TruncateBaseline, WriteBaseline
<1>4. CASE TruncateBaseline
  BY <1>1, <1>2, <1>3, <1>4
     DEF IInv, Labelled, Saving, SavedIsPrinted, Ended, Is, TruncateBaseline, Goto
<1>5. CASE WriteBaseline
  BY <1>1, <1>2, <1>3, <1>5
     DEF IInv, Labelled, Saving, SavedIsPrinted, Ended, Is, WriteBaseline, Goto, Exit
<1> QED
  BY <1>4, <1>5

\* Gate: an exit code for what is already saved.
LEMMA GateKeeps == IInv /\ Gate => IInv'
<1> SUFFICES ASSUME IInv, Gate PROVE IInv'
  OBVIOUS
<1>1. UNCHANGED <<baseline, cmd, resolved, prices, base, estimate, printed>>
  BY DEF Gate, files, process, history
<1>2. File' = File
  BY <1>1 DEF File, Of
<1>3. pc = "gate" /\ pc' = "exit"
  BY DEF Gate, Exit
<1> QED
  BY <1>1, <1>2, <1>3 DEF IInv, Labelled, Saving, SavedIsPrinted, Ended, Is

\* Post: comment saves nothing.
LEMMA PostKeeps == IInv /\ Post => IInv'
BY DEF IInv, Labelled, Saving, SavedIsPrinted, Ended, Is, Post, Exit, process, history

\* The rest neither print, save nor compare.
LEMMA OthersKeep ==
    IInv /\ (FindTarget \/ ResolveSettings \/ ParseInput \/ ApplyUsageAndWhatIf) => IInv'
<1> SUFFICES ASSUME IInv,
                    FindTarget \/ ResolveSettings \/ ParseInput \/ ApplyUsageAndWhatIf
             PROVE  IInv'
  OBVIOUS
<1> USE DEF Goto, Exit, files, process, history
<1>1. UNCHANGED <<baseline, cmd, prices, base, estimate, printed>>
  BY DEF FindTarget, ResolveSettings, ParseInput, ApplyUsageAndWhatIf
<1>2. \/ pc' \in {"resolve", "parse", "overlay", "price", "load"}
      \/ pc' = "exit" /\ outcome' = "error"
  BY DEF FindTarget, ResolveSettings, ParseInput, ApplyUsageAndWhatIf
<1>3. Labelled' /\ Saving'
  BY <1>2 DEF Labelled, Saving
<1>4. SavedIsPrinted'
  BY <1>1, <1>2 DEF IInv, SavedIsPrinted, Ended
<1> QED
  BY <1>3, <1>4 DEF IInv

LEMMA StutterKeeps == IInv /\ UNCHANGED vars => IInv'
<1> SUFFICES ASSUME IInv, UNCHANGED vars PROVE IInv'
  OBVIOUS
<1>1. UNCHANGED <<baseline, cmd, resolved, prices, base, estimate, printed, pc, outcome>>
  BY DEF vars, files, process, history
<1>2. File' = File
  BY <1>1 DEF File, Of
<1> QED
  BY <1>1, <1>2 DEF IInv, Labelled, Saving, SavedIsPrinted, Ended, Is

\* A baseline file, and whatever is compared with, is an estimate that was
\* printed; one that is there in part, after a process was stopped, is never
\* used; and estimate --save-baseline does not end without having saved.
THEOREM SavedCorrect == Spec => []SavedIsPrinted
<1>1. IInv /\ [Next]_vars => IInv'
  BY StartKeeps, GoneKeeps, ConfigureKeeps, PriceKeeps, AdviseKeeps, LoadKeeps, RenderKeeps,
     WriteKeeps, GateKeeps, PostKeeps, OthersKeep, StutterKeeps
     DEF Next, Reap, Stop
<1>2. IInv => SavedIsPrinted
  BY DEF IInv
<1> QED
  BY InitHolds, <1>1, <1>2, PTL DEF Spec
-----------------------------------------------------------------------------
(* Resources and what is laid over them.                                   *)

LEMMA ProjectFacts ==
    ASSUME NEW rs, IsProject(rs)
    PROVE  /\ Len(rs) \in Nat /\ DOMAIN rs = 1 .. Len(rs)
           /\ \A i \in 1 .. Len(rs) : IsResource(rs[i])
BY DEF IsProject

\* Attributes laid over a resource leave the rest of it.
LEMMA WithAttrsFacts ==
    ASSUME NEW r, IsResource(r), NEW attrs, IsAttributes(attrs)
    PROVE  /\ IsResource(WithAttrs(r, attrs))
           /\ WithAttrs(r, attrs) = [ref |-> r.ref, attrs |-> Layered(attrs, r.attrs),
                                     region |-> r.region, action |-> r.action]
<1> DEFINE s == WithAttrs(r, attrs)
           l == Layered(attrs, r.attrs)
<1>1. r = [ref |-> r.ref, attrs |-> r.attrs, region |-> r.region, action |-> r.action]
  BY DEF IsResource
<1>2. s = [ref |-> r.ref, attrs |-> l, region |-> r.region, action |-> r.action]
  <2>1. s = [r EXCEPT !.attrs = l]
    BY DEF WithAttrs
  <2> HIDE DEF l, s
  <2> QED
    BY <1>1, <2>1
<1>3. IsAttributes(l)
  BY DEF IsAttributes, Layered, IsResource
<1>4. l = [a \in DOMAIN l |-> l[a]]
  BY DEF Layered
<1> HIDE DEF s, l
<1> QED
  BY <1>2, <1>3, <1>4 DEF IsResource, s, l

\* Nothing laid over a resource changes nothing, and one layer over another is
\* one layer.
LEMMA NothingLaid ==
    ASSUME NEW r, IsResource(r), NEW attrs, DOMAIN attrs = {}
    PROVE  WithAttrs(r, attrs) = r
<1>1. r = [ref |-> r.ref, attrs |-> r.attrs, region |-> r.region, action |-> r.action]
  BY DEF IsResource
<1>2. Layered(attrs, r.attrs) = r.attrs
  <2>1. Layered(attrs, r.attrs) = [a \in DOMAIN r.attrs |-> r.attrs[a]]
    BY DEF Layered
  <2> QED
    BY <2>1 DEF IsResource
<1>3. IsAttributes(attrs)
  BY DEF IsAttributes
<1> QED
  BY <1>1, <1>2, <1>3, WithAttrsFacts

LEMMA LaidTwice ==
    ASSUME NEW r, IsResource(r), NEW lower, IsAttributes(lower),
           NEW upper, IsAttributes(upper)
    PROVE  WithAttrs(WithAttrs(r, lower), upper) = WithAttrs(r, Layered(upper, lower))
<1>1. Layered(upper, Layered(lower, r.attrs)) = Layered(Layered(upper, lower), r.attrs)
  BY DEF Layered
<1>2. IsAttributes(Layered(upper, lower))
  BY DEF IsAttributes, Layered
<1> DEFINE s == WithAttrs(r, lower)
<1>3. /\ IsResource(s) /\ s.attrs = Layered(lower, r.attrs)
      /\ s.ref = r.ref /\ s.region = r.region /\ s.action = r.action
  BY WithAttrsFacts
<1> HIDE DEF s
<1>4. WithAttrs(s, upper) = [ref |-> r.ref, attrs |-> Layered(upper, Layered(lower, r.attrs)),
                             region |-> r.region, action |-> r.action]
  BY <1>3, WithAttrsFacts
<1>5. WithAttrs(r, Layered(upper, lower)) =
         [ref |-> r.ref, attrs |-> Layered(Layered(upper, lower), r.attrs),
          region |-> r.region, action |-> r.action]
  BY <1>2, WithAttrsFacts
<1> QED
  BY <1>1, <1>4, <1>5 DEF s

WhatIfs(w) ==
    /\ w \in Seq(Range(w))
    /\ \A k \in DOMAIN w : \A ref \in DOMAIN w[k] : IsAttributes(w[k][ref])

LEMMA SettersFacts ==
    ASSUME NEW w, WhatIfs(w), NEW ref, NEW a \in DOMAIN WhatIfOf(w, ref)
    PROVE  LET k == Max(Setters(w, ref, a))
           IN  /\ k \in Setters(w, ref, a)
               /\ k \in DOMAIN w /\ ref \in DOMAIN w[k] /\ a \in DOMAIN w[k][ref]
               /\ WhatIfOf(w, ref)[a] = w[k][ref][a]
<1>1. Len(w) \in Nat /\ DOMAIN w = 1 .. Len(w)
  BY DEF WhatIfs
<1>2. Setters(w, ref, a) # {} /\ Setters(w, ref, a) \in SUBSET (1 .. Len(w))
  BY <1>1 DEF Setters, WhatIfOf
<1>3. Max(Setters(w, ref, a)) \in Setters(w, ref, a)
  BY <1>1, <1>2, MaxIn
<1>4. WhatIfOf(w, ref)[a] = w[Max(Setters(w, ref, a))][ref][a]
  BY DEF WhatIfOf
<1> QED
  BY <1>3, <1>4 DEF Setters

LEMMA WhatIfOfFacts ==
    ASSUME NEW w, WhatIfs(w), NEW ref
    PROVE  IsAttributes(WhatIfOf(w, ref))
BY SettersFacts DEF WhatIfs, IsAttributes

LEMMA WhatIfsAppend ==
    ASSUME NEW w, WhatIfs(w), NEW changes,
           \A ref \in DOMAIN changes : IsAttributes(changes[ref])
    PROVE  /\ WhatIfs(Append(w, changes))
           /\ Len(w) \in Nat /\ DOMAIN w = 1 .. Len(w)
           /\ DOMAIN Append(w, changes) = 1 .. Len(w) + 1
           /\ Append(w, changes)[Len(w) + 1] = changes
           /\ \A k \in DOMAIN w : Append(w, changes)[k] = w[k]
<1> DEFINE v == Append(w, changes)
           T == Range(w) \cup {changes}
<1>1. Len(w) \in Nat /\ DOMAIN w = 1 .. Len(w) /\ w \in Seq(T)
  <2>1. w \in Seq(Range(w)) /\ Range(w) \subseteq T
    BY DEF WhatIfs
  <2> HIDE DEF T
  <2> QED
    BY <2>1
<1>2. /\ v \in Seq(T) /\ Len(v) = Len(w) + 1 /\ v[Len(w) + 1] = changes
      /\ \A k \in 1 .. Len(w) : v[k] = w[k]
  <2>1. changes \in T
    OBVIOUS
  <2> HIDE DEF T
  <2> QED
    BY <1>1, <2>1
<1> HIDE DEF v, T
<1>3. DOMAIN v = 1 .. Len(w) + 1
  BY <1>1, <1>2
<1>4. v \in Seq(Range(v))
  BY <1>1, <1>2, <1>3 DEF Range
<1>5. WhatIfs(v)
  BY <1>1, <1>2, <1>3, <1>4 DEF WhatIfs
<1> QED
  BY <1>1, <1>2, <1>3, <1>5 DEF v

\* One more what-if is laid over what the others make of the resource.
LEMMA WhatIfOfAppend ==
    ASSUME NEW w, WhatIfs(w), NEW changes,
           \A ref \in DOMAIN changes : IsAttributes(changes[ref]), NEW ref
    PROVE  WhatIfOf(Append(w, changes), ref) =
              IF ref \in DOMAIN changes THEN Layered(changes[ref], WhatIfOf(w, ref))
              ELSE WhatIfOf(w, ref)
<1> DEFINE v == Append(w, changes)
           n == Len(w)
           more == IF ref \in DOMAIN changes THEN DOMAIN changes[ref] ELSE {}
<1>1. /\ WhatIfs(v) /\ n \in Nat /\ DOMAIN w = 1 .. n /\ DOMAIN v = 1 .. n + 1
      /\ v[n + 1] = changes /\ \A k \in 1 .. n : v[k] = w[k]
  BY WhatIfsAppend
<1> HIDE DEF v, n
<1>2. DOMAIN WhatIfOf(v, ref) = more \cup DOMAIN WhatIfOf(w, ref)
  <2>1. \A a : a \in DOMAIN WhatIfOf(v, ref)
                  <=> \E k \in 1 .. n + 1 : ref \in DOMAIN v[k] /\ a \in DOMAIN v[k][ref]
    BY <1>1 DEF WhatIfOf
  <2>2. \A a : a \in DOMAIN WhatIfOf(w, ref)
                  <=> \E k \in 1 .. n : ref \in DOMAIN w[k] /\ a \in DOMAIN w[k][ref]
    BY <1>1 DEF WhatIfOf
  <2>3. \A k \in 1 .. n + 1 : k \in 1 .. n \/ k = n + 1
    BY <1>1
  <2>4. n + 1 \in 1 .. n + 1 /\ \A k \in 1 .. n : k \in 1 .. n + 1
    BY <1>1
  <2> QED
    BY <1>1, <2>1, <2>2, <2>3, <2>4
<1>3. ASSUME NEW a \in more PROVE WhatIfOf(v, ref)[a] = changes[ref][a]
  <2>1. a \in DOMAIN WhatIfOf(v, ref)
    BY <1>2
  <2> DEFINE k == Max(Setters(v, ref, a))
  <2>2. k \in Setters(v, ref, a) /\ WhatIfOf(v, ref)[a] = v[k][ref][a]
    BY <1>1, <2>1, SettersFacts
  <2>3. n + 1 \in Setters(v, ref, a) /\ \A l \in Setters(v, ref, a) : l \in Int /\ l <= n + 1
    BY <1>1 DEF Setters
  <2>4. k = n + 1
    <3>1. k = CHOOSE x \in Setters(v, ref, a) : \A y \in Setters(v, ref, a) : x >= y
      BY DEF Max
    <3>2. \A y \in Setters(v, ref, a) : n + 1 >= y
      BY <1>1, <2>3
    <3> HIDE DEF k
    <3>3. \A y \in Setters(v, ref, a) : k >= y
      BY <2>3, <3>1, <3>2
    <3> QED
      BY <1>1, <2>2, <2>3, <3>3
  <2> QED
    BY <1>1, <2>2, <2>4
<1>4. ASSUME NEW a \in DOMAIN WhatIfOf(w, ref), a \notin more
      PROVE  WhatIfOf(v, ref)[a] = WhatIfOf(w, ref)[a]
  <2>1. Setters(v, ref, a) = Setters(w, ref, a)
    BY <1>1, <1>4 DEF Setters
  <2> DEFINE k == Max(Setters(w, ref, a))
  <2>2. k \in 1 .. n /\ WhatIfOf(w, ref)[a] = w[k][ref][a]
    BY <1>1, SettersFacts
  <2>3. WhatIfOf(v, ref)[a] = v[k][ref][a]
    BY <1>1, <1>2, <2>1, SettersFacts
  <2> QED
    BY <1>1, <2>2, <2>3
<1>5. WhatIfOf(v, ref) = [a \in DOMAIN WhatIfOf(v, ref) |-> WhatIfOf(v, ref)[a]]
  BY DEF WhatIfOf
<1>6. WhatIfOf(w, ref) = [a \in DOMAIN WhatIfOf(w, ref) |-> WhatIfOf(w, ref)[a]]
  BY DEF WhatIfOf
<1>7. CASE ref \in DOMAIN changes
  <2>1. WhatIfOf(v, ref) = [a \in DOMAIN changes[ref] \cup DOMAIN WhatIfOf(w, ref) |->
                              IF a \in DOMAIN changes[ref] THEN changes[ref][a]
                              ELSE WhatIfOf(w, ref)[a]]
    BY <1>2, <1>3, <1>4, <1>5, <1>7
  <2> QED
    BY <1>7, <2>1 DEF Layered, v
<1>8. CASE ref \notin DOMAIN changes
  BY <1>2, <1>4, <1>5, <1>6, <1>8 DEF v
<1> QED
  BY <1>7, <1>8

\* The same resources, but for their attributes.
Laid(rs, ts) ==
    /\ IsProject(ts) /\ Len(ts) = Len(rs) /\ DOMAIN ts = DOMAIN rs
    /\ \A i \in DOMAIN rs : ts[i].ref = rs[i].ref /\ ts[i].action = rs[i].action

LEMMA LaidOver ==
    ASSUME NEW rs, IsProject(rs), NEW over, \A i \in DOMAIN rs : IsAttributes(over[i])
    PROVE  Laid(rs, [i \in DOMAIN rs |-> WithAttrs(rs[i], over[i])])
<1> DEFINE ts == [i \in DOMAIN rs |-> WithAttrs(rs[i], over[i])]
           n == Len(rs)
<1>1. n \in Nat /\ DOMAIN rs = 1 .. n /\ \A i \in 1 .. n : IsResource(rs[i])
  BY ProjectFacts
<1>2. ASSUME NEW i \in 1 .. n
      PROVE  IsResource(ts[i]) /\ ts[i].ref = rs[i].ref /\ ts[i].action = rs[i].action
  BY <1>1, WithAttrsFacts
<1>3. ts \in [1 .. n -> Range(ts)]
  BY <1>1 DEF Range
<1> HIDE DEF ts, n
<1>4. ts \in Seq(Range(ts)) /\ Len(ts) = n /\ DOMAIN ts = 1 .. n
  BY <1>1, <1>3, SequenceOf
<1>5. IsProject(ts)
  BY <1>2, <1>4 DEF IsProject
<1> QED
  BY <1>1, <1>2, <1>4, <1>5 DEF Laid, ts, n

\* What a user or a CI job runs, or what tries out a recommendation.
IsSource(c) ==
    /\ {"command", "path", "vars", "varFiles", "usage", "whatIf"} \subseteq DOMAIN c
    /\ WhatIfs(c.whatIf)
    /\ \E i \in Invocations :
          c.path = i.path /\ c.vars = i.vars /\ c.varFiles = i.varFiles /\ c.usage = i.usage

LEMMA ApplyUsageFacts ==
    ASSUME NEW c, IsSource(c), c.usage \notin {None, Broken}, NEW rs, IsProject(rs)
    PROVE  Laid(rs, ApplyUsage(rs, c.usage))
<1> DEFINE of(f, x) == IF x \in DOMAIN f THEN f[x] ELSE <<>>
           over == [i \in DOMAIN rs |-> Layered(of(c.usage.entries, rs[i].ref),
                                                of(c.usage.defaults, rs[i].ref.kind))]
<1>1. /\ \A ref \in DOMAIN c.usage.entries : IsAttributes(c.usage.entries[ref])
      /\ \A kind \in DOMAIN c.usage.defaults : IsAttributes(c.usage.defaults[kind])
  BY InvocationAssumption DEF IsSource
<1>2. IsAttributes(<<>>)
  BY DEF IsAttributes
<1>3. \A i \in DOMAIN rs : IsAttributes(of(c.usage.entries, rs[i].ref))
  BY <1>1, <1>2
<1>4. \A i \in DOMAIN rs : IsAttributes(of(c.usage.defaults, rs[i].ref.kind))
  BY <1>1, <1>2
<1>5. ApplyUsage(rs, c.usage) =
         [i \in DOMAIN rs |->
            WithAttrs(rs[i], Layered(of(c.usage.entries, rs[i].ref),
                                     of(c.usage.defaults, rs[i].ref.kind)))]
  BY DEF ApplyUsage
<1> HIDE DEF of
<1>6. \A i \in DOMAIN rs : IsAttributes(over[i])
  BY <1>3, <1>4 DEF IsAttributes, Layered
<1>7. ApplyUsage(rs, c.usage) = [i \in DOMAIN rs |-> WithAttrs(rs[i], over[i])]
  BY <1>5
<1> HIDE DEF over
<1> QED
  BY <1>6, <1>7, LaidOver

LEMMA UsageAppliedFacts ==
    ASSUME NEW c, IsSource(c), c.usage # Broken, NEW rs, IsProject(rs)
    PROVE  Laid(rs, UsageApplied(c, rs))
<1>1. CASE c.usage = None
  BY <1>1, ProjectFacts DEF UsageApplied, Laid
<1>2. CASE c.usage # None
  BY <1>2, ApplyUsageFacts DEF UsageApplied
<1> QED
  BY <1>1, <1>2

LEMMA ApplyWhatIfFacts ==
    ASSUME NEW w, WhatIfs(w), NEW rs, IsProject(rs)
    PROVE  /\ Laid(rs, ApplyWhatIf(rs, w))
           /\ \A i \in DOMAIN rs :
                 ApplyWhatIf(rs, w)[i] = WithAttrs(rs[i], WhatIfOf(w, rs[i].ref))
<1> DEFINE over == [i \in DOMAIN rs |-> WhatIfOf(w, rs[i].ref)]
<1>1. ApplyWhatIf(rs, w) = [i \in DOMAIN rs |-> WithAttrs(rs[i], WhatIfOf(w, rs[i].ref))]
  BY DEF ApplyWhatIf
<1>2. ApplyWhatIf(rs, w) = [i \in DOMAIN rs |-> WithAttrs(rs[i], over[i])]
  BY <1>1
<1>3. \A i \in DOMAIN rs : IsAttributes(over[i])
  BY WhatIfOfFacts
<1> HIDE DEF over
<1>4. Laid(rs, ApplyWhatIf(rs, w))
  BY <1>2, <1>3, LaidOver
<1> QED
  BY <1>1, <1>4

LEMMA OverlaidFacts ==
    ASSUME NEW c, IsSource(c), c.usage # Broken, NEW rs, IsProject(rs)
    PROVE  Laid(rs, Overlaid(c, rs))
<1>1. Laid(rs, UsageApplied(c, rs))
  BY UsageAppliedFacts
<1>2. Laid(UsageApplied(c, rs), Overlaid(c, rs))
  BY <1>1, ApplyWhatIfFacts DEF Overlaid, Laid, IsSource
<1> QED
  BY <1>1, <1>2 DEF Laid

-----------------------------------------------------------------------------
(* The same resources in another order.                                    *)

SameResources(rs, ts) ==
    /\ Len(ts) = Len(rs)
    /\ \E f \in Injection(DOMAIN rs, DOMAIN ts) : \A k \in DOMAIN rs : ts[f[k]] = rs[k]

LEMMA SameOverlaid ==
    ASSUME NEW c, IsSource(c), c.usage # Broken, NEW rs, IsProject(rs), NEW ts, IsProject(ts),
           SameResources(rs, ts)
    PROVE  SameResources(Overlaid(c, rs), Overlaid(c, ts))
<1>1. PICK f \in Injection(DOMAIN rs, DOMAIN ts) : \A k \in DOMAIN rs : ts[f[k]] = rs[k]
  BY DEF SameResources
<1> DEFINE us == UsageApplied(c, rs)
           vs == UsageApplied(c, ts)
<1>2. Laid(rs, us) /\ Laid(ts, vs) /\ Laid(rs, Overlaid(c, rs)) /\ Laid(ts, Overlaid(c, ts))
  BY UsageAppliedFacts, OverlaidFacts
<1>3. ASSUME NEW k \in DOMAIN rs PROVE Overlaid(c, ts)[f[k]] = Overlaid(c, rs)[k]
  <2>1. f[k] \in DOMAIN ts /\ ts[f[k]] = rs[k]
    BY <1>1 DEF Injection
  <2>2. vs[f[k]] = us[k]
    BY <2>1 DEF UsageApplied, ApplyUsage
  <2>3. Overlaid(c, rs) = ApplyWhatIf(us, c.whatIf) /\ Overlaid(c, ts) = ApplyWhatIf(vs, c.whatIf)
    BY DEF Overlaid
  <2> HIDE DEF us, vs
  <2>4. /\ Overlaid(c, rs)[k] = WithAttrs(us[k], WhatIfOf(c.whatIf, us[k].ref))
        /\ Overlaid(c, ts)[f[k]] = WithAttrs(vs[f[k]], WhatIfOf(c.whatIf, vs[f[k]].ref))
    BY <1>2, <2>1, <2>3, ApplyWhatIfFacts DEF Laid, IsSource
  <2> QED
    BY <2>2, <2>4
<1> QED
  BY <1>1, <1>2, <1>3 DEF SameResources, Laid

LEMMA Interval == ASSUME NEW m \in Nat PROVE IsFiniteSet(1 .. m) /\ Cardinality(1 .. m) = m
<1>1. 1 \in Int /\ m \in Int
  OBVIOUS
<1>2. /\ IsFiniteSet(1 .. m)
      /\ Cardinality(1 .. m) = IF 1 > m THEN 0 ELSE m - 1 + 1
  BY ONLY <1>1, FS_Interval, Zenon
<1>3. 1 > m => m = 0
  OBVIOUS
<1> QED
  BY <1>2, <1>3

\* A sum does not depend on the order.
LEMMA TotalPermutes ==
    ASSUME NEW s \in Seq(Int), NEW t \in Seq(Int), Len(t) = Len(s),
           NEW f \in Injection(1 .. Len(s), 1 .. Len(s)),
           \A k \in 1 .. Len(s) : s[f[k]] = t[k]
    PROVE  Total(s) = Total(t)
<1> DEFINE n == Len(s)
           zeros == [k \in 1 .. n |-> 0]
<1>1. n \in Nat /\ \A k \in 1 .. n : s[k] \in Int /\ t[k] \in Int
  OBVIOUS
<1>2. zeros \in Seq(Int) /\ Len(zeros) = n
  <2>1. zeros \in [1 .. n -> Int]
    OBVIOUS
  <2> HIDE DEF zeros
  <2> QED
    BY <1>1, <2>1, SequenceOf
<1>3. \A k \in 1 .. n : zeros[k] = 0
  OBVIOUS
<1> HIDE DEF zeros
<1>4. Total(zeros) = Total(zeros) + Total(zeros)
  <2>1. \A k \in 1 .. Len(zeros) : zeros[k] = zeros[k] + zeros[k]
    BY <1>2, <1>3
  <2> QED
    BY <1>2, <2>1, TotalAdds
<1>5. Total(zeros) = 0
  BY <1>2, <1>4, TotalIsInt
<1>6. f \in [1 .. n -> 1 .. n] /\ \A i, j \in 1 .. n : f[i] = f[j] => i = j
  BY DEF Injection, IsInjective
<1>7. \A k \in 1 .. n : \E i \in 1 .. n : f[i] = k
  <2>1. f \in Surjection(1 .. n, 1 .. n)
    BY <1>1, Interval, FS_Injection
  <2> QED
    BY <2>1 DEF Surjection
<1>8. \A k \in 1 .. n : (\A i \in 1 .. n : f[i] # k) => s[k] = zeros[k]
  BY <1>7
<1>9. \A i \in 1 .. n : t[i] = s[f[i]] - zeros[f[i]]
  BY <1>1, <1>3, <1>6
<1>10. DifferAt(s, zeros, n, f, t)
  BY <1>1, <1>2, <1>6, <1>8, <1>9 DEF DifferAt
<1>11. Total(s) = Total(zeros) + Total(t)
  BY <1>10, TotalDiffers
<1> QED
  BY <1>5, <1>11, TotalIsInt

-----------------------------------------------------------------------------
(* Estimates of resources.                                                 *)

Lists == (UNION {PriceLists[c] : c \in DOMAIN PriceLists}) \cup {Stub}

\* What is assumed of the calculator: Engine.costFor rounds a subtotal
\* to cents, and what is planned for a resource it copies and does not read.
CatalogFits ==
    \A r, region, list : IsResource(r) /\ list \in Lists =>
        /\ Subtotal(r, region, list) \in Multiples(CentGrain) \cup {Failed}
        /\ Subtotal([r EXCEPT !.action = "none"], region, list) = Subtotal(r, region, list)

CanBePriced(rs, region, list) ==
    /\ list \in Lists /\ IsProject(rs)
    /\ \A i \in DOMAIN rs : Subtotal(rs[i], region, list) # Failed

\* What counts in the total.
Counted(rs, region, list) ==
    [i \in 1 .. Len(rs) |->
        IF rs[i].action = "delete" THEN 0 ELSE Subtotal(rs[i], region, list)]

LEMMA SubtotalFacts ==
    ASSUME CatalogFits, NEW rs, NEW region, NEW list, CanBePriced(rs, region, list),
           NEW i \in DOMAIN rs
    PROVE  /\ Subtotal(rs[i], region, list) \in Multiples(CentGrain)
           /\ Subtotal(rs[i], region, list) \in Int
<1>1. IsResource(rs[i]) /\ list \in Lists
  BY ProjectFacts DEF CanBePriced
<1>2. Subtotal(rs[i], region, list) \in Multiples(CentGrain)
  BY <1>1 DEF CatalogFits, CanBePriced
<1> QED
  BY <1>2, MultipleIsRounded, CentAssumption

LEMMA CountedFacts ==
    ASSUME CatalogFits, NEW rs, NEW region, NEW list, CanBePriced(rs, region, list)
    PROVE  LET s == Counted(rs, region, list)
           IN  /\ s \in Seq(Int) /\ Len(s) = Len(rs)
               /\ Total(s) \in Multiples(CentGrain)
               /\ Total(s) \in Int /\ Rounded(Total(s), CentGrain) = Total(s)
<1> DEFINE s == Counted(rs, region, list)
           n == Len(rs)
<1>1. n \in Nat /\ DOMAIN rs = 1 .. n
  BY ProjectFacts DEF CanBePriced
<1>2. 0 \in Multiples(CentGrain)
  <2>1. CentGrain * 0 = 0 /\ 0 \in Int
    BY CentAssumption
  <2> QED
    BY <2>1, Zenon DEF Multiples
<1>3. \A i \in 1 .. n : s[i] \in Multiples(CentGrain) /\ s[i] \in Int
  BY <1>1, <1>2, SubtotalFacts DEF Counted
<1>4. s \in [1 .. n -> Int]
  BY <1>3 DEF Counted
<1> HIDE DEF s, n
<1>5. s \in Seq(Int) /\ Len(s) = n
  BY <1>1, <1>4, SequenceOf
<1>6. Total(s) \in Multiples(CentGrain)
  BY <1>3, <1>5, TotalOfMultiples, CentAssumption
<1> QED
  BY <1>5, <1>6, MultipleIsRounded, CentAssumption DEF s, n

LEMMA EstimateOfFacts ==
    ASSUME CatalogFits, NEW rs, NEW region, NEW list, CanBePriced(rs, region, list)
    PROVE  LET e == EstimateOf(rs, region, list)
           IN  /\ IsEstimate(e) /\ Len(e.costs) = Len(rs)
               /\ DOMAIN e.costs = DOMAIN rs /\ DOMAIN rs = 1 .. Len(rs)
               /\ \A i \in DOMAIN rs :
                     e.costs[i] = [ref |-> rs[i].ref, action |-> rs[i].action,
                                   subtotal |-> Subtotal(rs[i], region, list)]
               /\ e.total = Total(Counted(rs, region, list))
               /\ e = [costs |-> e.costs, skipped |-> <<>>, total |-> e.total]
<1> DEFINE e == EstimateOf(rs, region, list)
           n == Len(rs)
           cost(i) == [ref |-> rs[i].ref, action |-> rs[i].action,
                       subtotal |-> Subtotal(rs[i], region, list)]
           costs == [i \in DOMAIN rs |-> cost(i)]
           counted == [i \in DOMAIN costs |->
                         IF costs[i].action = "delete" THEN 0 ELSE costs[i].subtotal]
<1>1. n \in Nat /\ DOMAIN rs = 1 .. n
  BY ProjectFacts DEF CanBePriced
<1>2. e = [costs |-> costs, skipped |-> <<>>, total |-> Rounded(Total(counted), CentGrain)]
  BY DEF EstimateOf, NewEstimate
<1>3. counted = Counted(rs, region, list)
  BY <1>1 DEF Counted
<1>4. Rounded(Total(counted), CentGrain) = Total(Counted(rs, region, list))
  BY <1>3, CountedFacts
<1>5. costs \in [1 .. n -> Range(costs)] /\ \A i \in DOMAIN rs : costs[i] = cost(i)
  BY <1>1 DEF Range
<1>6. \A i \in DOMAIN rs : cost(i).subtotal \in Int
  BY SubtotalFacts
<1> HIDE DEF e, costs, counted, n, cost
<1>7. e.costs = costs /\ e.skipped = <<>> /\ e.total = Total(Counted(rs, region, list))
  BY <1>2, <1>4
<1>8. costs \in Seq(Range(costs)) /\ Len(costs) = n /\ DOMAIN costs = 1 .. n
  BY <1>1, <1>5, SequenceOf
<1>9. IsEstimate(e)
  BY <1>1, <1>5, <1>6, <1>7, <1>8 DEF IsEstimate
<1>10. e = [costs |-> e.costs, skipped |-> <<>>, total |-> e.total]
  BY <1>2, <1>7
<1> QED
  BY <1>1, <1>5, <1>7, <1>8, <1>9, <1>10 DEF e, n, cost

\* The total is the same in any order.
LEMMA EstimatePermutes ==
    ASSUME CatalogFits, NEW rs, NEW ts, NEW region, NEW list,
           CanBePriced(rs, region, list), CanBePriced(ts, region, list),
           SameResources(rs, ts)
    PROVE  EstimateOf(rs, region, list).total = EstimateOf(ts, region, list).total
<1> DEFINE n == Len(rs)
           s == Counted(rs, region, list)
           t == Counted(ts, region, list)
<1>1. /\ n \in Nat /\ DOMAIN rs = 1 .. n /\ DOMAIN ts = 1 .. n /\ Len(ts) = n
  BY ProjectFacts DEF CanBePriced, SameResources
<1>2. PICK f \in Injection(1 .. n, 1 .. n) : \A k \in 1 .. n : ts[f[k]] = rs[k]
  BY <1>1 DEF SameResources
<1>3. \A k \in 1 .. n : t[f[k]] = s[k]
  <2>1. \A k \in 1 .. n : f[k] \in 1 .. n
    BY <1>2 DEF Injection
  <2> QED
    BY <1>1, <1>2, <2>1 DEF Counted
<1>4. s \in Seq(Int) /\ t \in Seq(Int) /\ Len(s) = n /\ Len(t) = n
  BY <1>1, CountedFacts
<1> HIDE DEF s, t, n
<1>5. Total(t) = Total(s)
  BY <1>2, <1>3, <1>4, TotalPermutes
<1> QED
  BY <1>5, EstimateOfFacts DEF s, t

-----------------------------------------------------------------------------
(* A comparison of what is the same.                                       *)

\* Every cost of one is, as it is, in the other.
Contained(b, c) ==
    \E f \in Injection(DOMAIN b.costs, DOMAIN c.costs) : \A k \in DOMAIN b.costs :
        /\ c.costs[f[k]].ref = b.costs[k].ref
        /\ c.costs[f[k]].subtotal = b.costs[k].subtotal

Quiet(diff) ==
    diff.delta = 0 /\ \A i \in DOMAIN diff.rows : diff.rows[i].kind = "unchanged"

LEMMA QuietComparison ==
    ASSUME NEW b, NEW c, IsEstimate(b), IsEstimate(c), UniqueRefs(c),
           Contained(b, c), Contained(c, b), b.total = c.total, c.total \in Int
    PROVE  Quiet(ComputeDiff(b, c))
<1> DEFINE n == Len(c.costs)
           m == Len(b.costs)
           g == DiffRows(b, c)
<1>1. /\ n \in Nat /\ DOMAIN c.costs = 1 .. n
      /\ m \in Nat /\ DOMAIN b.costs = 1 .. m
  BY SubtotalsFacts
<1>2. PICK f \in Injection(1 .. m, 1 .. n) : \A k \in 1 .. m :
         c.costs[f[k]].ref = b.costs[k].ref /\ c.costs[f[k]].subtotal = b.costs[k].subtotal
  BY <1>1 DEF Contained
<1>3. PICK h \in Injection(1 .. n, 1 .. m) : \A k \in 1 .. n :
         b.costs[h[k]].ref = c.costs[k].ref /\ b.costs[h[k]].subtotal = c.costs[k].subtotal
  BY <1>1 DEF Contained
<1>4. UniqueRefs(b)
  <2> SUFFICES ASSUME NEW i \in 1 .. m, NEW k \in 1 .. m, b.costs[i].ref = b.costs[k].ref
               PROVE  i = k
    BY <1>1 DEF UniqueRefs
  <2>1. f[i] \in 1 .. n /\ f[k] \in 1 .. n /\ (f[i] = f[k] => i = k)
    BY DEF Injection, IsInjective
  <2>2. c.costs[f[i]].ref = c.costs[f[k]].ref
    BY <1>2
  <2> QED
    BY <1>1, <2>1, <2>2 DEF UniqueRefs
<1>5. ASSUME NEW i \in 1 .. n PROVE CurrentRows(b, c)[i].kind = "unchanged"
  <2> DEFINE j == CostFor(b, c.costs[i].ref)
  <2>1. h[i] \in 1 .. m /\ b.costs[h[i]].ref = c.costs[i].ref
    BY <1>3 DEF Injection
  <2>2. j = h[i]
    BY <1>4, <2>1, CostForFacts
  <2>3. j # 0 /\ b.costs[j].subtotal = c.costs[i].subtotal
    BY <1>1, <1>3, <2>1, <2>2
  <2>4. CurrentRows(b, c)[i] = CurrentRow(b, c.costs[i])
    BY <1>1 DEF CurrentRows
  <2> QED
    BY <2>3, <2>4 DEF CurrentRow, Row
<1>6. /\ g[0] = CurrentRows(b, c)
      /\ \A k \in 1 .. m : g[k] = IF CostFor(c, b.costs[k].ref) # 0 THEN g[k - 1]
                                  ELSE Append(g[k - 1], GoneRow(b, k))
  BY DiffRowsFacts
<1>7. ASSUME NEW k \in 1 .. m PROVE CostFor(c, b.costs[k].ref) # 0
  <2>1. f[k] \in 1 .. n /\ c.costs[f[k]].ref = b.costs[k].ref
    BY <1>2 DEF Injection
  <2> QED
    BY <1>1, <2>1, CostForFacts
<1>8. g[m] = CurrentRows(b, c)
  <2> HIDE DEF g, m, n
  <2> DEFINE P == {k \in 0 .. m : g[k] = CurrentRows(b, c)}
  <2>1. 0 \in P
    BY <1>1, <1>6
  <2>2. ASSUME NEW k \in 1 .. m, k - 1 \in P PROVE k \in P
    BY <1>1, <1>6, <1>7, <2>2
  <2> HIDE DEF P
  <2>3. \A k \in 0 .. m : k \in P
    BY <1>1, <2>1, <2>2, Upward, Zenon
  <2>4. m \in P
    BY <1>1, <2>3
  <2> QED
    BY <2>4 DEF P
<1>9. ComputeDiff(b, c).rows = CurrentRows(b, c) /\ ComputeDiff(b, c).delta = 0
  BY <1>8 DEF ComputeDiff
<1>10. DOMAIN CurrentRows(b, c) = 1 .. n
  BY <1>1 DEF CurrentRows
<1> QED
  BY <1>5, <1>9, <1>10 DEF Quiet

\* An estimate and what is read back from its file.
LEMMA SavedFacts ==
    ASSUME NEW e, IsEstimate(e),
           \A i \in DOMAIN e.costs :
              e.costs[i] = [ref |-> e.costs[i].ref, action |-> e.costs[i].action,
                            subtotal |-> e.costs[i].subtotal]
    PROVE  /\ IsEstimate(Saved(e)) /\ Saved(e).total = e.total
           /\ DOMAIN Saved(e).costs = DOMAIN e.costs /\ Len(Saved(e).costs) = Len(e.costs)
           /\ \A i \in DOMAIN e.costs :
                 Saved(e).costs[i] = [ref |-> e.costs[i].ref, action |-> "none",
                                      subtotal |-> e.costs[i].subtotal]
<1> DEFINE n == Len(e.costs)
           cs == [i \in DOMAIN e.costs |-> [e.costs[i] EXCEPT !.action = "none"]]
           cost(i) == [ref |-> e.costs[i].ref, action |-> "none",
                       subtotal |-> e.costs[i].subtotal]
<1>1. n \in Nat /\ DOMAIN e.costs = 1 .. n
  BY SubtotalsFacts
<1>2. Saved(e).costs = cs /\ Saved(e).total = e.total
  BY DEF Saved
<1>3. ASSUME NEW i \in 1 .. n
      PROVE  cs[i] = cost(i) /\ cs[i].subtotal = e.costs[i].subtotal
  <2> DEFINE c == e.costs[i]
  <2>1. c = [ref |-> c.ref, action |-> c.action, subtotal |-> c.subtotal]
    BY <1>1
  <2>2. cs[i] = [c EXCEPT !.action = "none"]
    BY <1>1
  <2> HIDE DEF c, cs
  <2>3. cs[i] = [ref |-> c.ref, action |-> "none", subtotal |-> c.subtotal]
    BY <2>1, <2>2
  <2> QED
    BY <2>3 DEF c
<1>4. cs \in [1 .. n -> Range(cs)]
  BY <1>1 DEF Range
<1> HIDE DEF cs, n
<1>5. cs \in Seq(Range(cs)) /\ Len(cs) = n /\ DOMAIN cs = 1 .. n
  BY <1>1, <1>4, SequenceOf
<1>6. IsEstimate(Saved(e))
  <2>1. \A i \in 1 .. n : e.costs[i].subtotal \in Int
    BY DEF IsEstimate, n
  <2> HIDE DEF cost
  <2>2. \A i \in 1 .. n : cs[i].subtotal \in Int
    BY <1>3, <2>1
  <2> QED
    BY <1>2, <1>5, <2>2 DEF IsEstimate
<1> QED
  BY <1>1, <1>2, <1>3, <1>5, <1>6 DEF n

-----------------------------------------------------------------------------
(* Where resources, estimates and reports come from.                       *)

Found(c, s, order) == Parse(c.path, Options(c, s), order)

Overlays(c) == c.command \in {"estimate", "recommend"}

\* The resources of a command, at some settings.
GainedFrom(c, s, rs) ==
    \E order \in Orders :
        /\ Found(c, s, order) # Failed
        /\ Overlays(c) => c.usage # Broken
        /\ rs = IF Overlays(c) THEN Overlaid(c, Found(c, s, order)) ELSE Found(c, s, order)

EstimatedFrom(c, s, rs, list, e) ==
    /\ IsSource(c) /\ GainedFrom(c, s, rs) /\ CanBePriced(rs, Region(s), list)
    /\ e = EstimateOf(rs, Region(s), list)

Priced == EstimatedFrom(cmd, resolved, resources, prices, estimate)

\* The way to the resources.
Parsing ==
    /\ pc \in {"parse", "overlay", "price"} \/ (pc = "load" /\ Is({"diff"})) =>
          resolved.currency \in DOMAIN PriceLists
    /\ pc = "overlay" =>
          /\ Overlays(cmd)
          /\ \E order \in Orders : resources = Found(cmd, resolved, order) /\ resources # Failed
    /\ pc = "price" => GainedFrom(cmd, resolved, resources)
    /\ pc \in {"parse", "price"} /\ Is({"diff"}) => base \in printed

Rendering == pc \in {"render", "save", "write", "gate", "post"} \/ Ended({"ok", "exceeded"})

\* The way to the report.  What policy reads from a file is its own baseline.
Pricing ==
    /\ pc = "advise" => Is({"recommend"}) /\ Priced
    /\ pc = "load" => Is({"diff"}) \/ Priced \/ (Is({"policy"}) /\ cmd.saved)
    /\ pc \in {"load", "render", "save", "write", "gate", "post"} => ~Is({"recommend"})
    /\ Rendering => (Compares => base \in printed)
    /\ Rendering => \/ Is({"configure"}) \/ Priced
                    \/ Is({"policy"}) /\ base \in printed /\ estimate = base.estimate
    /\ pc \in {"gate", "post"} \/ Ended({"ok", "exceeded"}) =>
          (Compares => report = ComputeDiff(base.estimate, estimate))
    /\ Ended({"ok"}) /\ Is({"recommend"}) =>
          report = Recommend(resources, Region(resolved), prices)

IsSaved(f) ==
    \E c, s, rs, list, e :
        /\ EstimatedFrom(c, s, rs, list, e) /\ c.command = "estimate"
        /\ f = [estimate |-> Saved(e), of |-> Of(c, s, list)]

IsAdvised(a) ==
    \E rs : /\ EstimatedFrom(a.cmd, a.resolved, rs, a.prices, a.estimate)
            /\ a.cmd.command = "recommend"
            /\ a.report = Recommend(rs, Region(a.resolved), a.prices)

Remembered ==
    /\ \A f \in printed : IsSaved(f)
    /\ advised # None => IsAdvised(advised)

Derived == (pc # "idle" => IsSource(cmd)) /\ Parsing /\ Pricing /\ Remembered

LEMMA FoundFacts ==
    ASSUME NEW c, IsSource(c), NEW s, NEW order \in Orders, Found(c, s, order) # Failed
    PROVE  IsProject(Found(c, s, order))
<1>1. PICK i \in Invocations : c.path = i.path /\ c.vars = i.vars /\ c.varFiles = i.varFiles
  BY DEF IsSource
<1> DEFINE offline == Options(c, s).offline
<1>2. offline \in BOOLEAN
  BY DEF Options
<1>3. Options(c, s) = [vars |-> c.vars, varFiles |-> c.varFiles, offline |-> offline]
  BY DEF Options
<1> HIDE DEF offline
<1>4. Found(c, s, order) = Parsed(i, offline, order)
  BY <1>1, <1>3 DEF Found, Parsed
<1> QED
  BY <1>2, <1>4, ParseAssumption

LEMMA GainedFacts ==
    ASSUME NEW c, IsSource(c), NEW s, NEW rs, GainedFrom(c, s, rs)
    PROVE  IsProject(rs)
<1>1. PICK order \in Orders :
         /\ Found(c, s, order) # Failed
         /\ Overlays(c) => c.usage # Broken
         /\ rs = IF Overlays(c) THEN Overlaid(c, Found(c, s, order)) ELSE Found(c, s, order)
  BY DEF GainedFrom
<1>2. IsProject(Found(c, s, order))
  BY <1>1, FoundFacts
<1> QED
  BY <1>1, <1>2, OverlaidFacts DEF Laid

-----------------------------------------------------------------------------
(* What the rules propose.                                                 *)

TrafficAttributes == {"monthly_data_processed_gb", "monthly_inter_az_gb"}

\* Attributes that have nothing to do with a gateway's traffic.
Mild(attrs) == IsAttributes(attrs) /\ DOMAIN attrs \cap TrafficAttributes = {}

LEMMA AttrIntFacts == ASSUME NEW r, IsResource(r), NEW a PROVE AttrInt(r, a) \in Int
BY DEF IsResource, IsAttributes, AttrInt, Has

LEMMA SettingFacts ==
    ASSUME NEW a, NEW v, v[1] = "number" => v[2] \in Int
    PROVE  /\ IsAttributes(Setting(a, v))
           /\ a \notin TrafficAttributes => Mild(Setting(a, v))
BY DEF IsAttributes, Setting, Mild

LEMMA SetsMildly ==
    ASSUME NEW a, a \notin TrafficAttributes
    PROVE  /\ \A n \in Int : Mild(Setting(a, Number(n)))
           /\ \A s : Mild(Setting(a, Text(s)))
           /\ \A b : Mild(Setting(a, Truth(b)))
<1>1. \A n \in Int : Number(n)[2] \in Int
  BY DEF Number
<1>2. \A s : Text(s)[1] # "number" /\ Truth(s)[1] # "number"
  BY DEF Text, Truth
<1> QED
  BY <1>1, <1>2, SettingFacts

LEMMA QuantityIsMild ==
    ASSUME NEW r, NEW kind, NEW a, a \notin TrafficAttributes, NEW least, NEW to \in Int
    PROVE  \A c \in Quantity(r, kind, a, least, to) : Mild(c)
BY SetsMildly DEF Quantity

LEMMA SwapIsMild ==
    ASSUME NEW r, NEW kind, NEW a, a \notin TrafficAttributes, NEW applies, NEW to
    PROVE  \A c \in Swap(r, kind, a, applies, to) : Mild(c)
BY SetsMildly DEF Swap

LEMMA MappedIsMild ==
    ASSUME NEW r, NEW kinds, NEW a, a \notin TrafficAttributes, NEW map
    PROVE  \A c \in Mapped(r, kinds, a, map) : Mild(c)
BY SetsMildly DEF Mapped

LEMMA AuditIsMild == ASSUME NEW condition PROVE \A c \in Audit(condition) : Mild(c)
BY DEF Audit, Mild, IsAttributes

LEMMA AWSRulesAreMild ==
    ASSUME NEW r, IsResource(r)
    PROVE  \A c \in AWSRules(r) : Mild(c)
<1>1. \A a : Half(r, a) \in Int /\ OneLess(r, a) \in Int
  BY AttrIntFacts DEF Half, OneLess
<1>2. \A c \in Gp2ToGp3(r) : Mild(c)
  BY SwapIsMild DEF Gp2ToGp3, TrafficAttributes
<1>3. \A c \in EBSRightSize(r) : Mild(c)
  BY <1>1, QuantityIsMild DEF EBSRightSize, TrafficAttributes
<1>4. \A c \in EBSGp3OverprovisionedIOPS(r) : Mild(c)
  BY QuantityIsMild DEF EBSGp3OverprovisionedIOPS, TrafficAttributes
<1>5. \A c \in IdleEIP(r) \cup S3StorageClassTransition(r) : Mild(c)
  BY AuditIsMild DEF IdleEIP, S3StorageClassTransition
<1>6. \A c \in SingleAZDB(r) : Mild(c)
  BY SetsMildly DEF SingleAZDB, TrafficAttributes
<1>7. \A c \in RDSStorageRightSize(r) : Mild(c)
  BY <1>1, QuantityIsMild DEF RDSStorageRightSize, TrafficAttributes
<1>8. \A c \in LambdaMemoryRightSize(r) : Mild(c)
  <2>1. (IF AttrInt(r, "memory_size") >= 4096 THEN Half(r, "memory_size") ELSE 1024) \in Int
    BY <1>1
  <2> QED
    BY <2>1, QuantityIsMild DEF LambdaMemoryRightSize, TrafficAttributes
<1>9. \A c \in CloudWatchLogRetention(r) : Mild(c)
  BY <1>1, QuantityIsMild DEF CloudWatchLogRetention, TrafficAttributes
<1>10. \A c \in InstanceFamilyDowngrade(r) : Mild(c)
  BY MappedIsMild DEF InstanceFamilyDowngrade, IfNonProd, TrafficAttributes
<1>11. \A c \in RedshiftRightSize(r) \cup KinesisShardRightSize(r) : Mild(c)
  BY <1>1, QuantityIsMild DEF RedshiftRightSize, KinesisShardRightSize, TrafficAttributes
<1>12. \A c \in NeptuneSingleNode(r) : Mild(c)
  BY SetsMildly DEF NeptuneSingleNode, IfNonProd, TrafficAttributes
<1> QED
  BY <1>2, <1>3, <1>4, <1>5, <1>6, <1>7, <1>8, <1>9, <1>10, <1>11, <1>12 DEF AWSRules

LEMMA AzureRulesAreMild ==
    ASSUME NEW r, IsResource(r)
    PROVE  \A c \in AzureRules(r) : Mild(c)
<1>1. \A a : Half(r, a) \in Int
  BY AttrIntFacts DEF Half
<1>2. \A c \in AzureBurstableForDev(r) : Mild(c)
  BY MappedIsMild DEF AzureBurstableForDev, IfNonProd, TrafficAttributes
<1>3. \A c \in AzureStorageCoolTier(r) \cup AzureUnattachedDisk(r) : Mild(c)
  BY AuditIsMild DEF AzureStorageCoolTier, AzureUnattachedDisk
<1>4. \A c \in AzurePostgresB1Right(r) \cup AzureRedisBasicForDev(r) : Mild(c)
  BY SwapIsMild DEF AzurePostgresB1Right, AzureRedisBasicForDev, IfNonProd, TrafficAttributes
<1>5. \A c \in AzureLogAnalyticsRetention(r) : Mild(c)
  BY <1>1, QuantityIsMild DEF AzureLogAnalyticsRetention, TrafficAttributes
<1> QED
  BY <1>2, <1>3, <1>4, <1>5 DEF AzureRules

LEMMA GCPRulesAreMild ==
    ASSUME NEW r, IsResource(r)
    PROVE  \A c \in GCPRules(r) : Mild(c)
<1>1. \A a : Half(r, a) \in Int
  BY AttrIntFacts DEF Half
<1>2. \A c \in GCPPDStandardToBalanced(r) \cup GCPE2InsteadOfN1(r) : Mild(c)
  BY SwapIsMild DEF GCPPDStandardToBalanced, GCPE2InsteadOfN1, TrafficAttributes
<1>3. \A c \in GCPCloudSQLNonProdTier(r) : Mild(c)
  BY SwapIsMild DEF GCPCloudSQLNonProdTier, IfNonProd, TrafficAttributes
<1>4. \A c \in GCPStorageBucketColdline(r) \cup GCPUnusedStaticIP(r) : Mild(c)
  BY AuditIsMild DEF GCPStorageBucketColdline, GCPUnusedStaticIP
<1>5. \A c \in GCPLoggingRetention(r) : Mild(c)
  BY <1>1, QuantityIsMild DEF GCPLoggingRetention, TrafficAttributes
<1> QED
  BY <1>2, <1>3, <1>4, <1>5 DEF GCPRules

\* No rule for one resource moves traffic.
LEMMA ProposeIsMild ==
    ASSUME NEW r, IsResource(r)
    PROVE  \A c \in Propose(r) : Mild(c)
BY AWSRulesAreMild, AzureRulesAreMild, GCPRulesAreMild DEF Propose

\* The sum of what goes through the gateways but the survivor.
LEMMA MovedFacts ==
    ASSUME NEW rs, IsProject(rs), NEW survivor
    PROVE  Moved(rs, survivor) \in Int
<1> DEFINE s == [i \in DOMAIN rs |->
                    IF i \in Gateways(rs) \ {survivor} THEN Processed(rs[i]) ELSE 0]
           n == Len(rs)
<1>1. n \in Nat /\ DOMAIN rs = 1 .. n /\ \A i \in 1 .. n : IsResource(rs[i])
  BY ProjectFacts
<1>2. \A i \in 1 .. n : Processed(rs[i]) \in Int
  BY <1>1, AttrIntFacts DEF Processed
<1>3. s \in [1 .. n -> Int]
  BY <1>1, <1>2
<1>4. Moved(rs, survivor) = Total(s)
  BY DEF Moved
<1> HIDE DEF s, n
<1>5. s \in Seq(Int)
  BY <1>1, <1>3, SequenceOf
<1> QED
  BY <1>4, <1>5, TotalIsInt

LEMMA MinIn ==
    ASSUME NEW n \in Nat, NEW t \in SUBSET (1 .. n), t # {}
    PROVE  Min(t) \in t /\ \A x \in t : Min(t) <= x
<1> DEFINE P == {k \in 0 .. n : t \cap 1 .. k # {} => \E x \in t : \A y \in t : y >= x}
<1>1. 0 \in P
  <2>1. 1 .. 0 = {}
    OBVIOUS
  <2> QED
    BY <2>1
<1>2. ASSUME NEW k \in 1 .. n, k - 1 \in P PROVE k \in P
  <2>1. CASE t \cap 1 .. (k - 1) # {}
    BY <1>2, <2>1
  <2>2. CASE t \cap 1 .. (k - 1) = {} /\ k \in t
    <3>1. \A y \in t : y >= k
      <4> SUFFICES ASSUME NEW y \in t, y < k PROVE FALSE
        OBVIOUS
      <4>1. y \in 1 .. (k - 1)
        OBVIOUS
      <4> QED
        BY <2>2, <4>1
    <3> QED
      BY <2>2, <3>1
  <2>3. CASE t \cap 1 .. (k - 1) = {} /\ k \notin t
    <3>1. t \cap 1 .. k = {}
      <4> SUFFICES ASSUME NEW y \in t, y \in 1 .. k PROVE FALSE
        OBVIOUS
      <4>1. y = k \/ y \in 1 .. (k - 1)
        OBVIOUS
      <4> QED
        BY <2>3, <4>1
    <3> QED
      BY <3>1
  <2> QED
    BY <2>1, <2>2, <2>3
<1> HIDE DEF P
<1>3. n \in P
  <2>1. \A k \in 0 .. n : k \in P
    BY <1>1, <1>2, Upward, Zenon
  <2> QED
    BY <2>1
<1>4. \E x \in t : \A y \in t : y >= x
  <2>1. t \cap 1 .. n # {}
    OBVIOUS
  <2> QED
    BY <1>3, <2>1 DEF P
<1>5. Min(t) \in t /\ \A y \in t : y >= Min(t)
  BY <1>4 DEF Min
<1> QED
  BY <1>5

\* The survivor is a gateway, and what it is to carry is a number.
LEMMA ConsolidationFacts ==
    ASSUME NEW rs, IsProject(rs), NEW changes \in NATGatewayConsolidation(rs)
    PROVE  LET j == Min(Gateways(rs))
           IN  /\ j \in Gateways(rs) /\ Between(rs, j) \in Int
               /\ DOMAIN changes = {rs[i].ref : i \in Gateways(rs)}
               /\ \A ref \in DOMAIN changes :
                     changes[ref] = IF ref = rs[j].ref
                                    THEN Setting("monthly_inter_az_gb", Number(Between(rs, j)))
                                    ELSE Idle
<1> DEFINE nats == Gateways(rs)
           j == Min(nats)
<1>1. Len(rs) \in Nat /\ DOMAIN rs = 1 .. Len(rs) /\ \A i \in 1 .. Len(rs) : IsResource(rs[i])
  BY ProjectFacts
<1>2. /\ ~(Cardinality(nats) < 2)
      /\ changes = [ref \in {rs[i].ref : i \in nats} |->
                      IF ref = rs[j].ref
                      THEN Setting("monthly_inter_az_gb", Number(Between(rs, j))) ELSE Idle]
  BY DEF NATGatewayConsolidation
<1>3. nats # {}
  <2> SUFFICES ASSUME nats = {} PROVE FALSE
    OBVIOUS
  <2>1. Cardinality(nats) = 0
    BY FS_EmptySet
  <2> QED
    BY <1>2, <2>1
<1>4. nats \in SUBSET (1 .. Len(rs))
  BY <1>1 DEF Gateways
<1> HIDE DEF nats
<1>5. j \in nats
  BY <1>1, <1>3, <1>4, MinIn
<1>6. Between(rs, j) \in Int
  <2>1. AttrInt(rs[j], "monthly_inter_az_gb") \in Int
    BY <1>1, <1>4, <1>5, AttrIntFacts
  <2> QED
    BY <2>1, MovedFacts DEF Between
<1> HIDE DEF j
<1> QED
  BY <1>2, <1>5, <1>6 DEF nats, j

LEMMA TreeFacts ==
    ASSUME NEW rs, IsProject(rs), NEW changes \in ProposeTree(rs)
    PROVE  /\ \A ref \in DOMAIN changes : IsAttributes(changes[ref])
           /\ \/ changes \in NATGatewayConsolidation(rs)
              \/ \A ref \in DOMAIN changes : Mild(changes[ref])
<1>1. CASE changes \in NATGatewayConsolidation(rs)
  <2> DEFINE j == Min(Gateways(rs))
             between == Setting("monthly_inter_az_gb", Number(Between(rs, j)))
  <2>1. \A ref \in DOMAIN changes : changes[ref] \in {between, Idle}
    BY <1>1, ConsolidationFacts
  <2>2. Number(Between(rs, j))[2] \in Int
    BY <1>1, ConsolidationFacts DEF Number
  <2>3. IsAttributes(between)
    BY <2>2, SettingFacts
  <2>4. IsAttributes(Idle)
    BY DEF IsAttributes, Idle, Number
  <2> HIDE DEF between
  <2> QED
    BY <1>1, <2>1, <2>3, <2>4
<1>2. CASE changes \in IdleALB(rs)
  <2>1. PICK r : changes = Setting(r.ref, Setting("monthly_lcu_hours", Number(0)))
    BY <1>2 DEF IdleALB
  <2> DEFINE setting == Setting("monthly_lcu_hours", Number(0))
  <2>2. Mild(setting)
    BY SetsMildly DEF TrafficAttributes
  <2> HIDE DEF setting
  <2>3. \A ref \in DOMAIN changes : changes[ref] = setting
    BY <2>1 DEF Setting, setting
  <2> QED
    BY <2>2, <2>3 DEF Mild
<1>3. CASE changes \in AzureOrphanedDisk(rs)
  <2>1. PICK r : changes = Setting(r.ref, Setting("disk_size_gb", Number(0)))
    BY <1>3 DEF AzureOrphanedDisk
  <2> DEFINE setting == Setting("disk_size_gb", Number(0))
  <2>2. Mild(setting)
    BY SetsMildly DEF TrafficAttributes
  <2> HIDE DEF setting
  <2>3. \A ref \in DOMAIN changes : changes[ref] = setting
    BY <2>1 DEF Setting, setting
  <2> QED
    BY <2>2, <2>3 DEF Mild
<1>4. CASE changes \in GCPCommittedUseEligible(rs)
  <2>1. \A ref \in DOMAIN changes : changes[ref] = Setting("cud_purchased", Truth(TRUE))
    BY <1>4 DEF GCPCommittedUseEligible
  <2>2. Mild(Setting("cud_purchased", Truth(TRUE)))
    BY SetsMildly DEF TrafficAttributes
  <2> QED
    BY <2>1, <2>2 DEF Mild
<1> QED
  BY <1>1, <1>2, <1>3, <1>4 DEF ProposeTree

LEMMA ResourceOfFacts ==
    ASSUME NEW rs, IsProject(rs), NEW ref \in {r.ref : r \in Range(rs)}
    PROVE  \E i \in DOMAIN rs : rs[i].ref = ref /\ ResourceOf(rs, ref) = rs[i]
<1> DEFINE I == {i \in 1 .. Len(rs) : rs[i].ref = ref}
<1>1. Len(rs) \in Nat /\ DOMAIN rs = 1 .. Len(rs)
  BY ProjectFacts
<1>2. ResourceOf(rs, ref) = rs[IF I # {} THEN Max(I) ELSE 0]
  BY DEF ResourceOf, SelectLastInSeq
<1>3. I # {} /\ I \in SUBSET (1 .. Len(rs))
  BY <1>1 DEF Range
<1> HIDE DEF I
<1>4. Max(I) \in I
  BY <1>1, <1>3, MaxIn
<1>5. Max(I) \in 1 .. Len(rs) /\ rs[Max(I)].ref = ref
  BY <1>4 DEF I
<1> QED
  BY <1>1, <1>2, <1>3, <1>5

\* The alternatives are to resources of the project.
IsChoice(rs, changes, source) ==
    \A ref \in DOMAIN changes : \E i \in DOMAIN rs : rs[i].ref = ref /\ source[ref] = rs[i]

LEMMA RecommendFacts ==
    ASSUME NEW rs, IsProject(rs), NEW region, NEW list, NEW advice \in Recommend(rs, region, list)
    PROVE  /\ \A ref \in DOMAIN advice.changes : IsAttributes(advice.changes[ref])
           /\ \/ advice.changes \in NATGatewayConsolidation(rs)
              \/ \A ref \in DOMAIN advice.changes : Mild(advice.changes[ref])
           /\ advice.savings > 0
           /\ \E source : /\ IsChoice(rs, advice.changes, source)
                          /\ advice.savings = Score(rs, advice.changes, source, region, list)
<1> DEFINE scored(changes, source) ==
               [changes |-> changes, savings |-> Score(rs, changes, source, region, list)]
           about(r) == {scored(Setting(r.ref, c), Setting(r.ref, r)) : c \in Propose(r)}
           single == UNION {about(r) : r \in Range(rs)}
           tree == {scored(changes, [ref \in DOMAIN changes |-> ResourceOf(rs, ref)]) :
                      changes \in {p \in ProposeTree(rs) :
                          DOMAIN p # {} /\ DOMAIN p \subseteq {r.ref : r \in Range(rs)}}}
<1>1. advice \in single \cup tree /\ advice.savings > 0
  BY DEF Recommend
<1>2. CASE advice \in single
  <2>0. PICK r \in Range(rs) : advice \in about(r)
    BY <1>2
  <2>1. PICK c \in Propose(r) : advice = scored(Setting(r.ref, c), Setting(r.ref, r))
    BY <2>0
  <2>2. PICK i \in DOMAIN rs : r = rs[i]
    BY DEF Range
  <2>3. IsResource(r)
    BY <2>2, ProjectFacts
  <2>4. Mild(c)
    BY <2>3, ProposeIsMild
  <2>5. /\ advice.changes = Setting(r.ref, c)
        /\ advice.savings = Score(rs, Setting(r.ref, c), Setting(r.ref, r), region, list)
    BY <2>1
  <2> HIDE DEF single, tree, about, scored
  <2>6. \A ref \in DOMAIN advice.changes : ref = r.ref /\ advice.changes[ref] = c
    BY <2>5 DEF Setting
  <2>8. Setting(r.ref, r)[r.ref] = r
    BY DEF Setting
  <2>9. IsChoice(rs, advice.changes, Setting(r.ref, r))
    BY <2>2, <2>6, <2>8 DEF IsChoice
  <2>7. \A ref \in DOMAIN advice.changes : Mild(advice.changes[ref])
    BY <2>4, <2>6
  <2> QED
    BY <1>1, <2>5, <2>9, <2>7 DEF Mild
<1>3. CASE advice \in tree
  <2>1. PICK changes \in ProposeTree(rs) :
          /\ DOMAIN changes \subseteq {r.ref : r \in Range(rs)}
          /\ advice = scored(changes, [ref \in DOMAIN changes |-> ResourceOf(rs, ref)])
    BY <1>3
  <2> DEFINE source == [ref \in DOMAIN changes |-> ResourceOf(rs, ref)]
  <2>2. advice.changes = changes /\ advice.savings = Score(rs, changes, source, region, list)
    BY <2>1
  <2>3. IsChoice(rs, changes, source)
    <3> SUFFICES ASSUME NEW ref \in DOMAIN changes
                 PROVE  \E i \in DOMAIN rs : rs[i].ref = ref /\ source[ref] = rs[i]
      BY DEF IsChoice
    <3>1. source[ref] = ResourceOf(rs, ref) /\ ref \in {r.ref : r \in Range(rs)}
      BY <2>1
    <3> QED
      BY <3>1, ResourceOfFacts
  <2> HIDE DEF single, tree, about, scored, source
  <2> QED
    BY <1>1, <2>2, <2>3, TreeFacts
<1> QED
  BY <1>1, <1>2, <1>3

-----------------------------------------------------------------------------
(* What-ifs that are added to others.                                      *)

LEMMA NoWhatIf ==
    ASSUME NEW rs, IsProject(rs)
    PROVE  WhatIfs(<<>>) /\ ApplyWhatIf(rs, <<>>) = rs
<1>1. WhatIfs(<<>>)
  BY DEF WhatIfs
<1>2. /\ Len(rs) \in Nat /\ DOMAIN rs = 1 .. Len(rs) /\ \A i \in 1 .. Len(rs) : IsResource(rs[i])
      /\ rs = [i \in DOMAIN rs |-> rs[i]]
  <2>1. rs \in Seq(Range(rs))
    BY DEF IsProject
  <2> QED
    BY <2>1, ProjectFacts
<1>3. \A i \in DOMAIN rs : DOMAIN WhatIfOf(<<>>, rs[i].ref) = {}
  BY DEF WhatIfOf
<1>4. \A i \in DOMAIN rs : WithAttrs(rs[i], WhatIfOf(<<>>, rs[i].ref)) = rs[i]
  BY <1>2, <1>3, NothingLaid
<1>5. ApplyWhatIf(rs, <<>>) = [i \in DOMAIN rs |-> WithAttrs(rs[i], WhatIfOf(<<>>, rs[i].ref))]
  BY DEF ApplyWhatIf
<1> QED
  BY <1>1, <1>2, <1>4, <1>5

\* It is laid over the resources that it names, as the others left them.
LEMMA WhatIfAdded ==
    ASSUME NEW us, IsProject(us), NEW w, WhatIfs(w), NEW changes,
           \A ref \in DOMAIN changes : IsAttributes(changes[ref]),
           NEW i \in DOMAIN us
    PROVE  LET rs == ApplyWhatIf(us, w)
               ts == ApplyWhatIf(us, Append(w, changes))
           IN  ts[i] = IF rs[i].ref \in DOMAIN changes
                       THEN WithAttrs(rs[i], changes[rs[i].ref]) ELSE rs[i]
<1> DEFINE v == Append(w, changes)
           ref == us[i].ref
           rs == ApplyWhatIf(us, w)
           ts == ApplyWhatIf(us, v)
<1>1. WhatIfs(v) /\ IsResource(us[i])
  BY WhatIfsAppend, ProjectFacts
<1>2. /\ rs[i] = WithAttrs(us[i], WhatIfOf(w, ref))
      /\ ts[i] = WithAttrs(us[i], WhatIfOf(v, ref))
      /\ rs[i].ref = ref
  <2> HIDE DEF v
  <2> QED
    BY <1>1, ApplyWhatIfFacts DEF Laid
<1>3. WhatIfOf(v, ref) = IF ref \in DOMAIN changes THEN Layered(changes[ref], WhatIfOf(w, ref))
                         ELSE WhatIfOf(w, ref)
  BY WhatIfOfAppend
<1>4. IsAttributes(WhatIfOf(w, ref))
  BY WhatIfOfFacts
<1> HIDE DEF rs, ts, v
<1>5. CASE ref \in DOMAIN changes
  <2>1. WithAttrs(WithAttrs(us[i], WhatIfOf(w, ref)), changes[ref]) =
           WithAttrs(us[i], Layered(changes[ref], WhatIfOf(w, ref)))
    BY <1>1, <1>4, <1>5, LaidTwice
  <2>2. ts[i] = WithAttrs(rs[i], changes[ref])
    BY <1>2, <1>3, <1>5, <2>1
  <2> QED
    BY <1>2, <1>5, <2>2 DEF rs, ts, v
<1>6. CASE ref \notin DOMAIN changes
  BY <1>2, <1>3, <1>6 DEF rs, ts, v
<1> QED
  BY <1>5, <1>6

-----------------------------------------------------------------------------
(* The traffic of gateways.                                                *)

\* What a number is after something is laid over the resource.
LEMMA NumberLaidOver ==
    ASSUME NEW r, IsResource(r), NEW attrs, IsAttributes(attrs), NEW a
    PROVE  AttrInt(WithAttrs(r, attrs), a) =
              IF a \in DOMAIN attrs
              THEN (IF attrs[a][1] = "number" THEN attrs[a][2] ELSE 0) ELSE AttrInt(r, a)
<1>1. WithAttrs(r, attrs).attrs = Layered(attrs, r.attrs)
  BY WithAttrsFacts
<1> QED
  BY <1>1 DEF AttrInt, Has, Layered

Share(r) ==
    IF r.ref.kind = "aws_nat_gateway" THEN Processed(r) + AttrInt(r, "monthly_inter_az_gb") ELSE 0

LEMMA TrafficFacts ==
    ASSUME NEW rs, IsProject(rs)
    PROVE  LET s == [i \in 1 .. Len(rs) |-> Share(rs[i])]
           IN  s \in Seq(Int) /\ Len(s) = Len(rs) /\ Traffic(rs) = Total(s)
<1> DEFINE s == [i \in 1 .. Len(rs) |-> Share(rs[i])]
           n == Len(rs)
<1>1. n \in Nat /\ DOMAIN rs = 1 .. n /\ \A i \in 1 .. n : IsResource(rs[i])
  BY ProjectFacts
<1>2. \A i \in 1 .. n : Share(rs[i]) \in Int
  BY <1>1, AttrIntFacts DEF Share, Processed
<1>3. Traffic(rs) = Total(s)
  BY <1>1 DEF Traffic, Gateways, Share
<1>4. s \in [1 .. n -> Int]
  BY <1>2
<1> HIDE DEF s, n
<1>5. s \in Seq(Int) /\ Len(s) = n
  BY <1>1, <1>4, SequenceOf
<1> QED
  BY <1>3, <1>5 DEF s, n

\* Under mild changes every gateway keeps its share.
LEMMA MildKeeps ==
    ASSUME NEW r, IsResource(r), NEW attrs, Mild(attrs)
    PROVE  Share(WithAttrs(r, attrs)) = Share(r)
<1> DEFINE s == WithAttrs(r, attrs)
<1>1. s.ref = r.ref /\ IsAttributes(attrs)
  BY WithAttrsFacts DEF Mild
<1>2. /\ AttrInt(s, "monthly_data_processed_gb") = AttrInt(r, "monthly_data_processed_gb")
      /\ AttrInt(s, "monthly_inter_az_gb") = AttrInt(r, "monthly_inter_az_gb")
  BY <1>1, NumberLaidOver DEF Mild, TrafficAttributes
<1> HIDE DEF s
<1> QED
  BY <1>1, <1>2 DEF Share, Processed, s

\* Of a consolidation the survivor gets what the others lose.
LEMMA ConsolidationKeeps ==
    ASSUME NEW rs, IsProject(rs), NEW changes \in NATGatewayConsolidation(rs),
           \A i, k \in DOMAIN rs : rs[i].ref = rs[k].ref => i = k,
           NEW ts, IsProject(ts), Len(ts) = Len(rs),
           \A i \in DOMAIN rs : ts[i] = IF rs[i].ref \in DOMAIN changes
                                        THEN WithAttrs(rs[i], changes[rs[i].ref]) ELSE rs[i]
    PROVE  Traffic(ts) = Traffic(rs)
<1> DEFINE n == Len(rs)
           j == Min(Gateways(rs))
           m == Moved(rs, j)
           x == [i \in 1 .. n |-> Share(rs[i])]
           y == [i \in 1 .. n |-> Share(ts[i])]
           z == [i \in 1 .. n |-> IF i \in Gateways(rs) \ {j} THEN Processed(rs[i]) ELSE 0]
           u == [i \in 1 .. n |-> x[i] - z[i]]
<1>1. n \in Nat /\ DOMAIN rs = 1 .. n /\ \A i \in 1 .. n : IsResource(rs[i])
  BY ProjectFacts
<1>2. /\ j \in Gateways(rs) /\ Between(rs, j) \in Int
      /\ DOMAIN changes = {rs[i].ref : i \in Gateways(rs)}
      /\ \A ref \in DOMAIN changes :
            changes[ref] = IF ref = rs[j].ref
                           THEN Setting("monthly_inter_az_gb", Number(Between(rs, j)))
                           ELSE Idle
  BY ConsolidationFacts
<1>3. /\ x \in Seq(Int) /\ Len(x) = n /\ Traffic(rs) = Total(x)
      /\ y \in Seq(Int) /\ Len(y) = n /\ Traffic(ts) = Total(y)
  BY TrafficFacts
<1>4. m \in Int /\ m = Total(z)
  <2>1. z = [i \in DOMAIN rs |->
               IF i \in Gateways(rs) \ {j} THEN Processed(rs[i]) ELSE 0]
    BY <1>1
  <2>2. m = Total([i \in DOMAIN rs |->
                     IF i \in Gateways(rs) \ {j} THEN Processed(rs[i]) ELSE 0])
    BY DEF Moved
  <2>3. m \in Int
    BY MovedFacts
  <2> HIDE DEF z, m, j
  <2> QED
    BY <2>1, <2>2, <2>3
<1>5. \A i \in 1 .. n : z[i] \in Int /\ x[i] \in Int
  <2>1. \A i \in 1 .. n : Processed(rs[i]) \in Int
    BY <1>1, AttrIntFacts DEF Processed
  <2> HIDE DEF x
  <2> QED
    BY <1>3, <2>1
<1>6. z \in Seq(Int) /\ Len(z) = n /\ u \in Seq(Int) /\ Len(u) = n
  <2>1. z \in [1 .. n -> Int]
    BY <1>5
  <2>2. u \in [1 .. n -> Int]
    BY <1>5
  <2> HIDE DEF z, u, n
  <2> QED
    BY <1>1, <2>1, <2>2, SequenceOf
<1> HIDE DEF j, m, n
<1>7. j \in 1 .. n /\ rs[j].ref.kind = "aws_nat_gateway"
  BY <1>1, <1>2 DEF Gateways
<1>8. Share(ts[j]) = Share(rs[j]) + m
  <2> DEFINE b == Between(rs, j)
             attrs == Setting("monthly_inter_az_gb", Number(b))
  <2>1. ts[j] = WithAttrs(rs[j], attrs)
    BY <1>1, <1>2, <1>7
  <2>2. /\ IsAttributes(attrs) /\ DOMAIN attrs = {"monthly_inter_az_gb"}
        /\ attrs["monthly_inter_az_gb"][1] = "number" /\ attrs["monthly_inter_az_gb"][2] = b
    BY <1>2 DEF IsAttributes, Setting, Number
  <2>3. b = AttrInt(rs[j], "monthly_inter_az_gb") + m
    BY DEF Between, m
  <2> HIDE DEF attrs, b
  <2>4. /\ AttrInt(ts[j], "monthly_data_processed_gb") = AttrInt(rs[j], "monthly_data_processed_gb")
        /\ AttrInt(ts[j], "monthly_inter_az_gb") = b
    BY <1>1, <1>7, <2>1, <2>2, NumberLaidOver
  <2>5. ts[j].ref = rs[j].ref
    BY <1>1, <1>7, <2>1, <2>2, WithAttrsFacts
  <2>6. /\ AttrInt(rs[j], "monthly_data_processed_gb") \in Int
        /\ AttrInt(rs[j], "monthly_inter_az_gb") \in Int
    BY <1>1, <1>7, AttrIntFacts
  <2>7. /\ Share(rs[j]) = AttrInt(rs[j], "monthly_data_processed_gb")
                            + AttrInt(rs[j], "monthly_inter_az_gb")
        /\ Share(ts[j]) = AttrInt(rs[j], "monthly_data_processed_gb") + b
    BY <1>7, <2>4, <2>5 DEF Share, Processed
  <2> QED
    BY <1>4, <2>3, <2>6, <2>7
<1>9. ASSUME NEW i \in 1 .. n, i # j PROVE Share(ts[i]) = Share(rs[i]) - z[i]
  <2>1. CASE i \in Gateways(rs)
    <3>1. rs[i].ref.kind = "aws_nat_gateway" /\ rs[i].ref # rs[j].ref
      BY <1>1, <1>7, <1>9, <2>1 DEF Gateways
    <3>2. ts[i] = WithAttrs(rs[i], Idle)
      BY <1>1, <1>2, <2>1, <3>1
    <3>3. IsAttributes(Idle)
      BY DEF IsAttributes, Idle, Number
    <3>4. /\ AttrInt(ts[i], "monthly_data_processed_gb") = 0
          /\ AttrInt(ts[i], "monthly_inter_az_gb") = AttrInt(rs[i], "monthly_inter_az_gb")
      <4>1. /\ DOMAIN Idle = {"monthly_data_processed_gb", "monthly_hours"}
            /\ Idle["monthly_data_processed_gb"][1] = "number"
            /\ Idle["monthly_data_processed_gb"][2] = 0
        BY DEF Idle, Number
      <4> QED
        BY <1>1, <3>2, <3>3, <4>1, NumberLaidOver
    <3>5. ts[i].ref = rs[i].ref
      BY <1>1, <3>2, <3>3, WithAttrsFacts
    <3>6. /\ AttrInt(rs[i], "monthly_data_processed_gb") \in Int
          /\ AttrInt(rs[i], "monthly_inter_az_gb") \in Int
      BY <1>1, AttrIntFacts
    <3>7. z[i] = AttrInt(rs[i], "monthly_data_processed_gb")
      BY <1>9, <2>1 DEF Processed
    <3> HIDE DEF z
    <3> QED
      BY <3>1, <3>4, <3>5, <3>6, <3>7 DEF Share, Processed
  <2>2. CASE i \notin Gateways(rs)
    <3>1. rs[i].ref.kind # "aws_nat_gateway"
      BY <1>1, <2>2 DEF Gateways
    <3>2. rs[i].ref \notin DOMAIN changes
      BY <1>1, <1>2, <3>1 DEF Gateways
    <3>3. ts[i] = rs[i] /\ z[i] = 0
      BY <1>1, <2>2, <3>2
    <3> HIDE DEF z
    <3> QED
      BY <3>1, <3>3 DEF Share
  <2> QED
    BY <2>1, <2>2
<1>10. /\ \A i \in 1 .. n : x[i] = u[i] + z[i]
       /\ \A i \in 1 .. n : i # j => y[i] = u[i]
       /\ y[j] = u[j] + m
  <2>1. /\ \A i \in 1 .. n : x[i] = Share(rs[i]) /\ y[i] = Share(ts[i]) /\ u[i] = x[i] - z[i]
        /\ z[j] = 0
    BY <1>7
  <2> HIDE DEF x, y, z, u
  <2> QED
    BY <1>4, <1>5, <1>7, <1>8, <1>9, <2>1
<1> HIDE DEF x, y, z, u
<1>11. Total(x) = Total(u) + m
  <2>1. /\ u \in Seq(Int) /\ z \in Seq(Int) /\ x \in Seq(Int)
        /\ Len(z) = Len(u) /\ Len(x) = Len(u)
        /\ \A k \in 1 .. Len(u) : x[k] = u[k] + z[k]
    BY <1>3, <1>6, <1>10
  <2>2. Total(x) = Total(u) + Total(z)
    BY ONLY <2>1, TotalAdds
  <2> QED
    BY <1>4, <2>2
<1>12. Total(y) = Total(u) + y[j] - u[j]
  <2>1. /\ u \in Seq(Int) /\ y \in Seq(Int) /\ Len(y) = Len(u) /\ j \in 1 .. Len(u)
        /\ \A k \in 1 .. Len(u) : k # j => y[k] = u[k]
    BY <1>3, <1>6, <1>7, <1>10
  <2> QED
    BY ONLY <2>1, TotalChanges
<1>13. u[j] \in Int /\ Total(u) \in Int
  BY <1>6, <1>7, TotalIsInt
<1> QED
  BY <1>3, <1>4, <1>10, <1>11, <1>12, <1>13

LEMMA RecommendedKeepsTraffic ==
    ASSUME NEW rs, IsProject(rs), \A i, k \in DOMAIN rs : rs[i].ref = rs[k].ref => i = k,
           NEW region, NEW list, NEW advice \in Recommend(rs, region, list)
    PROVE  Traffic(ApplyWhatIf(rs, <<advice.changes>>)) = Traffic(rs)
<1> DEFINE changes == advice.changes
           ts == ApplyWhatIf(rs, <<changes>>)
<1>1. /\ \A ref \in DOMAIN changes : IsAttributes(changes[ref])
      /\ \/ changes \in NATGatewayConsolidation(rs)
         \/ \A ref \in DOMAIN changes : Mild(changes[ref])
  BY RecommendFacts
<1> HIDE DEF changes
<1> DEFINE w == <<>>
<1>2. /\ w \in Seq({}) /\ <<changes>> = Append(w, changes)
      /\ WhatIfs(w) /\ ApplyWhatIf(rs, w) = rs
  BY NoWhatIf
<1>3. WhatIfs(Append(w, changes))
  <2> HIDE DEF w
  <2> QED
    BY <1>1, <1>2, WhatIfsAppend
<1>4. IsProject(ts) /\ Len(ts) = Len(rs) /\ DOMAIN ts = DOMAIN rs
  BY <1>2, <1>3, ApplyWhatIfFacts DEF Laid
<1>5. ASSUME NEW i \in DOMAIN rs
      PROVE  ts[i] = IF rs[i].ref \in DOMAIN changes
                     THEN WithAttrs(rs[i], changes[rs[i].ref]) ELSE rs[i]
  <2> DEFINE us == ApplyWhatIf(rs, w)
             vs == ApplyWhatIf(rs, Append(w, changes))
  <2> HIDE DEF w
  <2>1. vs[i] = IF us[i].ref \in DOMAIN changes
                THEN WithAttrs(us[i], changes[us[i].ref]) ELSE us[i]
    BY <1>1, <1>2, WhatIfAdded
  <2>2. us = rs /\ vs = ts
    BY <1>2
  <2> HIDE DEF us, vs, ts
  <2> QED
    BY <2>1, <2>2
<1> HIDE DEF ts
<1>6. CASE changes \in NATGatewayConsolidation(rs)
  BY <1>4, <1>5, <1>6, ConsolidationKeeps DEF ts, changes
<1>7. CASE \A ref \in DOMAIN changes : Mild(changes[ref])
  <2>1. \A i \in DOMAIN rs : Share(ts[i]) = Share(rs[i])
    BY <1>5, <1>7, ProjectFacts, MildKeeps
  <2>2. [i \in 1 .. Len(ts) |-> Share(ts[i])] = [i \in 1 .. Len(rs) |-> Share(rs[i])]
    BY <1>4, <2>1, ProjectFacts
  <2>3. Traffic(ts) = Traffic(rs)
    BY <1>4, <2>2, TrafficFacts
  <2> QED
    BY <2>3 DEF ts, changes
<1> QED
  BY <1>1, <1>6, <1>7

-----------------------------------------------------------------------------
(* Derived is kept by every step.                                          *)

LEMMA InvocationIsSource == ASSUME NEW i \in Invocations PROVE IsSource(i)
BY InvocationAssumption DEF IsSource, WhatIfs

\* What tries out a recommendation is like what asked for it, but for the command
\* and a what-if more.
LEMMA TrialFacts ==
    ASSUME IsAdvised(advised), NEW advice \in advised.report
    PROVE  LET c == advised.cmd
               t == Trial(advice)
           IN  /\ IsSource(c) /\ IsSource(t) /\ t.command = "estimate"
               /\ t.path = c.path /\ t.vars = c.vars /\ t.varFiles = c.varFiles
               /\ t.usage = c.usage /\ t.whatIf = Append(c.whatIf, advice.changes)
               /\ \A ref \in DOMAIN advice.changes : IsAttributes(advice.changes[ref])
<1> DEFINE c == advised.cmd
           t == Trial(advice)
           w == Append(c.whatIf, advice.changes)
<1>1. PICK rs : /\ EstimatedFrom(c, advised.resolved, rs, advised.prices, advised.estimate)
                /\ advised.report = Recommend(rs, Region(advised.resolved), advised.prices)
  BY DEF IsAdvised
<1>2. IsSource(c) /\ IsProject(rs)
  BY <1>1, GainedFacts DEF EstimatedFrom
<1>3. \A ref \in DOMAIN advice.changes : IsAttributes(advice.changes[ref])
  BY <1>1, <1>2, RecommendFacts
<1>4. WhatIfs(w)
  BY <1>2, <1>3, WhatIfsAppend DEF IsSource
<1>5. t = [c EXCEPT !.command = "estimate", !.whatIf = w]
  BY DEF Trial
<1>6. {"command", "path", "vars", "varFiles", "usage", "whatIf"} \subseteq DOMAIN c
  BY <1>2 DEF IsSource
<1> HIDE DEF c, t, w
<1>7. /\ DOMAIN t = DOMAIN c /\ t.command = "estimate" /\ t.path = c.path /\ t.vars = c.vars
      /\ t.varFiles = c.varFiles /\ t.usage = c.usage /\ t.whatIf = w
  BY <1>5, <1>6
<1>8. IsSource(t)
  BY <1>2, <1>4, <1>7 DEF IsSource
<1> QED
  BY <1>2, <1>3, <1>7, <1>8 DEF c, t, w

LEMMA InitDerived == Init => Derived
BY DEF Init, Derived, Parsing, Pricing, Remembered, Rendering, Ended

LEMMA StartDerives == Derived /\ Start => Derived'
<1> SUFFICES ASSUME Derived, Start PROVE Derived'
  OBVIOUS
<1>1. PICK c : IsSource(c) /\ Begin(c)
  <2>1. CASE \E c \in Invocations : Begin(c)
    BY <2>1, InvocationIsSource
  <2>2. CASE advised # None /\ \E advice \in advised.report : Begin(Trial(advice))
    BY <2>2, TrialFacts DEF Derived, Remembered
  <2> QED
    BY <2>1, <2>2 DEF Start
<1>2. /\ pc' \in {"configure", "target", "load", "resolve"} /\ cmd' = c
      /\ pc' = "load" => c.command = "policy" /\ c.saved
  BY <1>1 DEF Begin
<1>3. Parsing' /\ Pricing'
  BY <1>2 DEF Parsing, Pricing, Rendering, Ended, Is
<1>4. Remembered'
  BY DEF Derived, Remembered, Start
<1> QED
  BY <1>1, <1>2, <1>3, <1>4 DEF Derived

LEMMA GoneDerives == Derived /\ Gone => Derived'
BY DEF Derived, Parsing, Pricing, Remembered, Rendering, Ended, Gone, history

\* The settings and the wizard.
LEMMA SettingsDerive ==
    IInv /\ Derived /\ (FindTarget \/ ResolveSettings \/ Configure \/ WriteConfig) => Derived'
<1> SUFFICES ASSUME IInv, Derived, FindTarget \/ ResolveSettings \/ Configure \/ WriteConfig
             PROVE  Derived'
  OBVIOUS
<1>1. /\ UNCHANGED <<cmd, printed, advised>> /\ pc # "idle"
      /\ \/ pc' \in {"resolve", "write config"}
         \/ pc' = "exit" /\ outcome' = "error"
         \/ pc' = "exit" /\ Is({"configure"})
         \/ /\ resolved'.currency \in DOMAIN PriceLists
            /\ pc' = IF Is({"diff"}) THEN "load" ELSE "parse"
  <2> USE DEF Goto, Exit, process, history
  <2>1. CASE FindTarget
    BY <2>1 DEF FindTarget
  <2>2. CASE ResolveSettings
    BY <2>2 DEF ResolveSettings
  <2>3. CASE Configure
    BY <2>3 DEF Configure
  <2>4. CASE WriteConfig
    BY <2>4 DEF WriteConfig, IInv, Labelled
  <2> QED
    BY <2>1, <2>2, <2>3, <2>4
<1>2. Parsing' /\ Pricing'
  BY <1>1 DEF Parsing, Pricing, Rendering, Ended, Is, Compares
<1> QED
  BY <1>1, <1>2 DEF Derived, Remembered

LEMMA ParseDerives == Derived /\ ParseInput => Derived'
<1> SUFFICES ASSUME Derived, ParseInput PROVE Derived'
  OBVIOUS
<1>1. UNCHANGED <<cmd, resolved, base, printed, advised>> /\ pc = "parse"
  BY DEF ParseInput, history
<1>2. PICK order \in Orders :
         /\ resources' = Found(cmd, resolved, order)
         /\ IF resources' = Failed THEN pc' = "exit" /\ outcome' = "error"
            ELSE pc' = IF Overlays(cmd) THEN "overlay" ELSE "price"
  BY DEF ParseInput, Found, Goto, Exit, Overlays, Is
<1>3. resolved.currency \in DOMAIN PriceLists /\ (Is({"diff"}) => base \in printed)
  BY <1>1 DEF Derived, Parsing
<1>4. pc' = "price" => GainedFrom(cmd, resolved, resources')
  BY <1>2 DEF GainedFrom
<1>5. Parsing'
  BY <1>1, <1>2, <1>3, <1>4 DEF Parsing, Is
<1>6. Pricing'
  BY <1>2 DEF Pricing, Rendering, Ended
<1> QED
  BY <1>1, <1>5, <1>6 DEF Derived, Remembered

LEMMA OverlayDerives == Derived /\ ApplyUsageAndWhatIf => Derived'
<1> SUFFICES ASSUME Derived, ApplyUsageAndWhatIf PROVE Derived'
  OBVIOUS
<1>1. UNCHANGED <<cmd, resolved, base, printed, advised>> /\ pc = "overlay"
  BY DEF ApplyUsageAndWhatIf, history
<1>2. \/ pc' = "exit" /\ outcome' = "error"
      \/ pc' = "price" /\ cmd.usage # Broken /\ resources' = Overlaid(cmd, resources)
  BY DEF ApplyUsageAndWhatIf, Goto, Exit
<1>3. /\ resolved.currency \in DOMAIN PriceLists /\ Overlays(cmd)
      /\ \E order \in Orders : resources = Found(cmd, resolved, order) /\ resources # Failed
  BY <1>1 DEF Derived, Parsing
<1>4. pc' = "price" => GainedFrom(cmd, resolved, resources')
  BY <1>2, <1>3 DEF GainedFrom
<1>5. ~Is({"diff"})
  BY <1>3 DEF Overlays, Is
<1>6. Parsing'
  BY <1>1, <1>2, <1>3, <1>4, <1>5 DEF Parsing, Is
<1>7. Pricing'
  BY <1>2 DEF Pricing, Rendering, Ended
<1> QED
  BY <1>1, <1>6, <1>7 DEF Derived, Remembered

LEMMA PriceDerives == Derived /\ Price => Derived'
<1> SUFFICES ASSUME Derived, Price PROVE Derived'
  OBVIOUS
<1>1. UNCHANGED <<cmd, resolved, resources, base, printed, advised>> /\ pc = "price"
  BY DEF Price, history
<1>2. PICK list \in Prices :
         /\ prices' = list
         /\ \/ pc' = "exit" /\ outcome' = "error"
            \/ /\ \A i \in DOMAIN resources :
                     Subtotal(resources[i], Region(resolved), list) # Failed
               /\ estimate' = EstimateOf(resources, Region(resolved), list)
               /\ pc' = CASE Is({"recommend"}) -> "advise"
                          [] Is({"comment", "policy"}) /\ cmd.baseline -> "load"
                          [] OTHER -> "render"
  BY DEF Price, Goto, Exit
<1>3. /\ resolved.currency \in DOMAIN PriceLists /\ GainedFrom(cmd, resolved, resources)
      /\ IsSource(cmd) /\ (Is({"diff"}) => base \in printed)
  BY <1>1 DEF Derived, Parsing
<1>4. list \in Lists
  <2>1. PriceLists[resolved.currency] \subseteq Lists /\ Stub \in Lists
    BY <1>3 DEF Lists
  <2> QED
    BY <2>1 DEF Prices
<1>5. CASE pc' = "exit" /\ outcome' = "error"
  BY <1>1, <1>5 DEF Derived, Remembered, Parsing, Pricing, Rendering, Ended
<1>6. CASE ~(pc' = "exit" /\ outcome' = "error")
  <2>1. CanBePriced(resources, Region(resolved), list)
    BY <1>2, <1>3, <1>4, <1>6, GainedFacts DEF CanBePriced
  <2>2. Priced'
    BY <1>1, <1>2, <1>3, <1>6, <2>1 DEF Priced, EstimatedFrom
  <2>3. /\ pc' \in {"advise", "load", "render"}
        /\ pc' = "advise" => Is({"recommend"})
        /\ pc' = "load" => Is({"comment", "policy"})
        /\ pc' = "render" => ~Is({"recommend"}) /\ (Compares => Is({"diff"}))
    BY <1>2, <1>6 DEF Is, Compares
  <2>4. Parsing'
    BY <1>1, <2>3 DEF Parsing, Is
  <2>5. Pricing'
    BY <1>1, <1>3, <2>2, <2>3 DEF Pricing, Rendering, Ended, Is, Compares
  <2> QED
    BY <1>1, <2>4, <2>5 DEF Derived, Remembered
<1> QED
  BY <1>5, <1>6

LEMMA AdviseDerives == Derived /\ Advise => Derived'
<1> SUFFICES ASSUME Derived, Advise PROVE Derived'
  OBVIOUS
<1>1. /\ UNCHANGED <<cmd, resolved, resources, prices, base, estimate, printed>>
      /\ pc = "advise" /\ pc' = "exit" /\ outcome' = "ok"
      /\ report' = Recommend(resources, Region(resolved), prices)
      /\ advised' = [cmd |-> cmd, resolved |-> resolved, prices |-> prices,
                     estimate |-> estimate, report |-> report']
  BY DEF Advise, Exit
<1>2. Is({"recommend"}) /\ Priced
  BY <1>1 DEF Derived, Pricing
<1>3. IsAdvised(advised')
  BY <1>1, <1>2 DEF IsAdvised, Priced, Is
<1>4. Remembered'
  BY <1>1, <1>3 DEF Derived, Remembered
<1>5. Priced'
  BY <1>1, <1>2 DEF Priced
<1>6. Parsing'
  BY <1>1 DEF Parsing
<1>7. ~Compares' /\ Is({"recommend"})'
  BY <1>1, <1>2 DEF Is, Compares
<1>8. Pricing'
  BY <1>1, <1>5, <1>7 DEF Pricing, Rendering, Ended
<1> QED
  BY <1>1, <1>4, <1>6, <1>8 DEF Derived

LEMMA LoadDerives == IInv /\ Derived /\ LoadBaseline => Derived'
<1> SUFFICES ASSUME IInv, Derived, LoadBaseline PROVE Derived'
  OBVIOUS
<1>1. UNCHANGED <<baseline, cmd, resolved, resources, prices, printed, advised>> /\ pc = "load"
  BY DEF LoadBaseline, history, files
<1>2. \/ pc' = "exit" /\ outcome' = "error"
      \/ /\ baseline \in printed /\ base' = baseline
         /\ estimate' = IF Is({"policy"}) /\ cmd.saved THEN baseline.estimate ELSE estimate
         /\ pc' = IF Is({"diff"}) THEN "parse" ELSE "render"
  BY DEF LoadBaseline, Goto, Exit, IInv, SavedIsPrinted
<1>3. /\ Is({"diff"}) => resolved.currency \in DOMAIN PriceLists
      /\ Is({"diff"}) \/ Priced \/ (Is({"policy"}) /\ cmd.saved)
      /\ ~Is({"recommend"})
  BY <1>1 DEF Derived, Parsing, Pricing
<1>4. Parsing'
  BY <1>1, <1>2, <1>3 DEF Parsing, Is
<1>5. pc' = "render" => Priced' \/ (Is({"policy"}) /\ base' \in printed /\ estimate' = base'.estimate)
  BY <1>1, <1>2, <1>3 DEF Priced
<1>6. Pricing'
  BY <1>1, <1>2, <1>3, <1>5 DEF Pricing, Rendering, Ended, Is
<1> QED
  BY <1>1, <1>4, <1>6 DEF Derived, Remembered

LEMMA RenderDerives == Derived /\ Render => Derived'
<1> SUFFICES ASSUME Derived, Render PROVE Derived'
  OBVIOUS
<1>1. /\ UNCHANGED <<cmd, resolved, resources, prices, base, estimate, advised>>
      /\ pc = "render" /\ pc' \in {"post", "save", "gate"}
      /\ Compares => report' = ComputeDiff(base.estimate, estimate)
      /\ printed' \in {printed, printed \cup {File}}
      /\ printed' # printed => Is({"estimate"})
  BY DEF Render, Goto
<1>2. /\ ~Is({"recommend"}) /\ (Compares => base \in printed)
      /\ \/ Is({"configure"}) \/ Priced
         \/ Is({"policy"}) /\ base \in printed /\ estimate = base.estimate
  BY <1>1 DEF Derived, Pricing, Rendering
<1>3. Is({"estimate"}) => IsSaved(File)
  <2>1. Is({"estimate"}) => Priced
    BY <1>2 DEF Is
  <2> QED
    BY <2>1 DEF IsSaved, Priced, File, Is
<1>4. Remembered'
  BY <1>1, <1>3 DEF Derived, Remembered
<1>5. /\ printed \subseteq printed'
      /\ Is({"configure"})' = Is({"configure"}) /\ Is({"policy"})' = Is({"policy"})
      /\ Is({"recommend"})' = Is({"recommend"}) /\ Compares' = Compares
      /\ Priced' = Priced
  BY <1>1 DEF Priced, Is, Compares
<1>6. Parsing'
  BY <1>1 DEF Parsing
<1>7. Pricing'
  BY <1>1, <1>2, <1>5 DEF Pricing, Rendering, Ended
<1> QED
  BY <1>1, <1>4, <1>6, <1>7 DEF Derived

\* Writing the baseline, the gate, and the comment.
LEMMA EndsDerive ==
    IInv /\ Derived /\ (TruncateBaseline \/ WriteBaseline \/ Gate \/ Post) => Derived'
<1> SUFFICES ASSUME IInv, Derived, TruncateBaseline \/ WriteBaseline \/ Gate \/ Post
             PROVE  Derived'
  OBVIOUS
<1>1. /\ UNCHANGED <<cmd, resolved, resources, prices, base, estimate, report, printed, advised>>
      /\ pc \in {"save", "write", "gate", "post"}
      /\ pc' \in {"write", "gate", "exit"}
      /\ pc \in {"save", "write"} \/ pc' = "exit"
  <2> USE DEF Goto, Exit, process, history
  <2>1. CASE TruncateBaseline
    BY <2>1 DEF TruncateBaseline
  <2>2. CASE WriteBaseline
    BY <2>2 DEF WriteBaseline
  <2>3. CASE Gate
    BY <2>3 DEF Gate
  <2>4. CASE Post
    BY <2>4 DEF Post
  <2> QED
    BY <2>1, <2>2, <2>3, <2>4
<1>2. pc \in {"save", "write"} => Is({"estimate"})
  BY DEF IInv, Labelled
<1>3. /\ ~Is({"recommend"}) /\ (Compares => base \in printed)
      /\ \/ Is({"configure"}) \/ Priced
         \/ Is({"policy"}) /\ base \in printed /\ estimate = base.estimate
      /\ Compares => report = ComputeDiff(base.estimate, estimate)
  <2>1. Is({"estimate"}) => ~Compares
    BY DEF Is, Compares
  <2> QED
    BY <1>1, <1>2, <2>1 DEF Derived, Pricing, Rendering
<1>5. /\ Is({"configure"})' = Is({"configure"}) /\ Is({"policy"})' = Is({"policy"})
      /\ Is({"recommend"})' = Is({"recommend"}) /\ Compares' = Compares
      /\ Priced' = Priced
  BY <1>1 DEF Priced, Is, Compares
<1>6. Parsing'
  BY <1>1 DEF Parsing
<1>7. Pricing'
  BY <1>1, <1>3, <1>5 DEF Pricing, Rendering, Ended
<1> QED
  BY <1>1, <1>6, <1>7 DEF Derived, Remembered

LEMMA StutterDerives == Derived /\ UNCHANGED vars => Derived'
<1> SUFFICES ASSUME Derived, UNCHANGED vars PROVE Derived'
  OBVIOUS
<1>1. UNCHANGED <<cmd, resolved, resources, prices, base, estimate, report, printed, advised,
                  pc, outcome>>
  BY DEF vars, process, history
<1>2. Is({"configure"})' = Is({"configure"}) /\ Is({"policy"})' = Is({"policy"})
  BY <1>1 DEF Is
<1>3. /\ Is({"recommend"})' = Is({"recommend"}) /\ Is({"diff"})' = Is({"diff"})
      /\ Compares' = Compares /\ Priced' = Priced /\ Rendering' = Rendering
  BY <1>1 DEF Priced, Is, Compares, Rendering, Ended
<1>4. Parsing'
  BY <1>1, <1>3 DEF Derived, Parsing
<1>5. Pricing'
  BY <1>1, <1>2, <1>3 DEF Derived, Pricing, Ended
<1> QED
  BY <1>1, <1>4, <1>5 DEF Derived, Remembered

\* Where everything comes from, in every state.
LEMMA DerivedCorrect == Spec => [](IInv /\ Derived)
<1>1. Init => IInv /\ Derived
  BY InitHolds, InitDerived
<1>2. IInv /\ Derived /\ [Next]_vars => (IInv /\ Derived)'
  <2> SUFFICES ASSUME IInv, Derived, [Next]_vars PROVE IInv' /\ Derived'
    OBVIOUS
  <2>1. IInv'
    BY StartKeeps, GoneKeeps, ConfigureKeeps, PriceKeeps, AdviseKeeps, LoadKeeps, RenderKeeps,
       WriteKeeps, GateKeeps, PostKeeps, OthersKeep, StutterKeeps
       DEF Next, Reap, Stop
  <2>2. Derived'
    BY StartDerives, GoneDerives, SettingsDerive, ParseDerives, OverlayDerives, PriceDerives,
       AdviseDerives, LoadDerives, RenderDerives, EndsDerive, StutterDerives
       DEF Next, Reap, Stop
  <2> QED
    BY <2>1, <2>2
<1> QED
  BY <1>1, <1>2, PTL DEF Spec

-----------------------------------------------------------------------------
(* NAT gateways.                                                           *)

\* What recommend found, when it has ended.
LEMMA AdvisedNow ==
    ASSUME Derived, Ended({"ok"}), Is({"recommend"})
    PROVE  Priced /\ report = Recommend(resources, Region(resolved), prices)
<1>1. Rendering
  BY DEF Ended, Rendering
<1>2. ~Is({"configure"}) /\ ~Is({"policy"})
  BY DEF Is
<1> QED
  BY <1>1, <1>2 DEF Derived, Pricing

\* A recommendation to consolidate NAT gateways moves their traffic to the one
\* that stays, all of it, and no other recommendation moves any.
THEOREM TrafficCorrect == Spec => []TrafficConserved
<1>1. IInv /\ Derived => TrafficConserved
  <2> SUFFICES ASSUME Derived, Ended({"ok"}), Is({"recommend"}), UniqueRefs(estimate),
                      NEW advice \in report
               PROVE  Traffic(ApplyWhatIf(resources, <<advice.changes>>)) = Traffic(resources)
    BY DEF TrafficConserved
  <2>1. Priced /\ report = Recommend(resources, Region(resolved), prices)
    BY AdvisedNow
  <2>2. IsProject(resources) /\ estimate = EstimateOf(resources, Region(resolved), prices)
    BY <2>1, GainedFacts DEF Priced, EstimatedFrom
  <2>3. /\ DOMAIN estimate.costs = DOMAIN resources
        /\ \A i \in DOMAIN resources : estimate.costs[i].ref = resources[i].ref
    BY <2>2 DEF EstimateOf, NewEstimate
  <2>4. \A i, k \in DOMAIN resources : resources[i].ref = resources[k].ref => i = k
    BY <2>3 DEF UniqueRefs
  <2> QED
    BY <2>1, <2>2, <2>4, RecommendedKeepsTraffic
<1> QED
  BY <1>1, DerivedCorrect, PTL

-----------------------------------------------------------------------------
(* Locals: the order of a Go map does not matter.                          *)

\* Only the last alternative of an expression refers to a local.
Settled(exprs) ==
    \A x \in DOMAIN exprs :
        /\ Len(exprs[x]) \in Nat
        /\ \A i \in 1 .. Len(exprs[x]) : exprs[x][i][1] = "local" => i = Len(exprs[x])

\* Every name has the value of its expression, and those without one none.
Solution(f, exprs, given, data) ==
    /\ DOMAIN f \subseteq DOMAIN exprs
    /\ \A x \in DOMAIN exprs :
          LET v == Evaluate(exprs[x], Scope(given, f, data))
          IN  IF x \in DOMAIN f THEN v # Failed /\ f[x] = v ELSE v = Failed

\* As is every function.
Mapping(f) == f = [x \in DOMAIN f |-> f[x]]

\* Part of another.
Below(f, g) == DOMAIN f \subseteq DOMAIN g /\ \A x \in DOMAIN f : f[x] = g[x]

\* What expressions are of, and the functions from names to that.
Contents(exprs, given, data) ==
    (UNION {{exprs[x][i][2] : i \in 1 .. Len(exprs[x])} : x \in DOMAIN exprs})
        \cup {given[x] : x \in DOMAIN given} \cup {data[x] : x \in DOMAIN data}
Known(exprs, given, data) ==
    UNION {[X -> Contents(exprs, given, data)] : X \in SUBSET DOMAIN exprs}

\* What the passes keep: names have the values of their expressions, and no
\* more of them than in every solution.
Partial(f, exprs, given, data) ==
    /\ f \in Known(exprs, given, data)
    /\ \A x \in DOMAIN f : /\ f[x] # Failed
                           /\ f[x] = Evaluate(exprs[x], Scope(given, f, data))
    /\ \A s : Solution(s, exprs, given, data) => Below(f, s)

\* A set of numbers has a least one.
LEMMA LeastIn ==
    ASSUME NEW S \in SUBSET Nat, S # {}
    PROVE  Min(S) \in S /\ \A k \in S : Min(S) <= k
<1>1. PICK d \in S : \A e \in S : ~(<<e, d>> \in OpToRel(<, Nat))
  BY NatLessThanWellFounded, WFMin
<1>2. \A e \in S : ~(e < d)
  BY <1>1 DEF OpToRel
<1>3. \A e \in S : d <= e
  BY <1>2
<1> QED
  BY <1>3 DEF Min

\* A scope has three parts.
LEMMA ScopeFacts ==
    ASSUME NEW given, NEW f, NEW data
    PROVE  LET scope == Scope(given, f, data)
           IN  /\ DOMAIN scope = {"var", "local", "data"}
               /\ scope["var"] = given /\ scope["local"] = f /\ scope["data"] = data
BY DEF Scope

\* The first alternative that resolves decides.
LEMMA EvaluateFacts ==
    ASSUME NEW expr, Len(expr) \in Nat, NEW scope
    PROVE  \/ /\ \A i \in 1 .. Len(expr) : ~Resolves(expr[i], scope)
              /\ Evaluate(expr, scope) = Failed
           \/ \E i \in 1 .. Len(expr) :
                 /\ Resolves(expr[i], scope)
                 /\ \A j \in 1 .. Len(expr) : Resolves(expr[j], scope) => i <= j
                 /\ Evaluate(expr, scope) = IF expr[i][1] = "value" THEN expr[i][2]
                                            ELSE scope[expr[i][1]][expr[i][2]]
<1> DEFINE I == {i \in 1 .. Len(expr) : Resolves(expr[i], scope)}
           first == IF I # {} THEN Min(I) ELSE 0
<1>1. Evaluate(expr, scope) = IF first = 0 THEN Failed
                              ELSE IF expr[first][1] = "value" THEN expr[first][2]
                              ELSE scope[expr[first][1]][expr[first][2]]
  BY DEF Evaluate, SelectInSeq
<1>2. CASE I = {}
  BY <1>1, <1>2
<1>3. CASE I # {}
  <2>1. I \in SUBSET Nat
    OBVIOUS
  <2>2. first \in I /\ \A k \in I : first <= k
    BY <1>3, <2>1, LeastIn
  <2> HIDE DEF first
  <2>3. first # 0
    BY <2>2
  <2> QED
    BY <1>1, <2>2, <2>3
<1> QED
  BY <1>2, <1>3

\* The first alternative with this property is the one that decides.
LEMMA EvaluateFirst ==
    ASSUME NEW expr, Len(expr) \in Nat, NEW scope, NEW i \in 1 .. Len(expr),
           Resolves(expr[i], scope),
           \A j \in 1 .. Len(expr) : Resolves(expr[j], scope) => i <= j
    PROVE  Evaluate(expr, scope) = IF expr[i][1] = "value" THEN expr[i][2]
                                   ELSE scope[expr[i][1]][expr[i][2]]
<1>1. PICK k \in 1 .. Len(expr) :
          /\ Resolves(expr[k], scope)
          /\ \A j \in 1 .. Len(expr) : Resolves(expr[j], scope) => k <= j
          /\ Evaluate(expr, scope) = IF expr[k][1] = "value" THEN expr[k][2]
                                     ELSE scope[expr[k][1]][expr[k][2]]
  BY EvaluateFacts
<1>2. k = i
  BY <1>1
<1> QED
  BY <1>1, <1>2

\* What evaluates keeps its value when more locals are known.
LEMMA EvaluateGrows ==
    ASSUME NEW exprs, Settled(exprs), NEW x \in DOMAIN exprs, NEW given, NEW data,
           NEW f, NEW g, Below(f, g), Evaluate(exprs[x], Scope(given, f, data)) # Failed
    PROVE  Evaluate(exprs[x], Scope(given, g, data)) = Evaluate(exprs[x], Scope(given, f, data))
<1> DEFINE expr == exprs[x]
           before == Scope(given, f, data)
           after == Scope(given, g, data)
<1>1. /\ Len(expr) \in Nat
      /\ \A i \in 1 .. Len(expr) : expr[i][1] = "local" => i = Len(expr)
  BY DEF Settled
<1>2. /\ DOMAIN before = {"var", "local", "data"} /\ DOMAIN after = {"var", "local", "data"}
      /\ before["var"] = given /\ before["local"] = f /\ before["data"] = data
      /\ after["var"] = given /\ after["local"] = g /\ after["data"] = data
  BY ScopeFacts
<1>3. \A a : Resolves(a, before) =>
          Resolves(a, after) /\ (a[1] # "value" => after[a[1]][a[2]] = before[a[1]][a[2]])
  <2> HIDE DEF before, after
  <2> QED
    BY <1>2 DEF Resolves, Below
<1>4. \A a : a[1] # "local" /\ Resolves(a, after) => Resolves(a, before)
  <2> HIDE DEF before, after
  <2> QED
    BY <1>2 DEF Resolves
<1> HIDE DEF expr, before, after
<1>5. Evaluate(expr, before) # Failed
  BY DEF expr, before
<1>6. PICK i \in 1 .. Len(expr) :
          /\ Resolves(expr[i], before)
          /\ \A j \in 1 .. Len(expr) : Resolves(expr[j], before) => i <= j
          /\ Evaluate(expr, before) = IF expr[i][1] = "value" THEN expr[i][2]
                                      ELSE before[expr[i][1]][expr[i][2]]
  BY <1>1, <1>5, EvaluateFacts
<1>7. \A j \in 1 .. Len(expr) : Resolves(expr[j], after) => i <= j
  BY <1>1, <1>4, <1>6
<1>8. Evaluate(expr, after) = IF expr[i][1] = "value" THEN expr[i][2]
                              ELSE after[expr[i][1]][expr[i][2]]
  BY <1>1, <1>3, <1>6, <1>7, EvaluateFirst
<1>9. Evaluate(expr, after) = Evaluate(expr, before)
  BY <1>3, <1>6, <1>8
<1> QED
  BY <1>9 DEF expr, before, after

\* What an expression evaluates to is of the contents.
LEMMA EvaluateIn ==
    ASSUME NEW exprs, Settled(exprs), NEW x \in DOMAIN exprs, NEW given, NEW data,
           NEW f \in Known(exprs, given, data),
           Evaluate(exprs[x], Scope(given, f, data)) # Failed
    PROVE  Evaluate(exprs[x], Scope(given, f, data)) \in Contents(exprs, given, data)
<1> DEFINE expr == exprs[x]
           scope == Scope(given, f, data)
           C == Contents(exprs, given, data)
<1>1. Len(expr) \in Nat
  BY DEF Settled
<1>2. /\ DOMAIN scope = {"var", "local", "data"}
      /\ scope["var"] = given /\ scope["local"] = f /\ scope["data"] = data
  BY ScopeFacts
<1>3. PICK i \in 1 .. Len(expr) :
          /\ Resolves(expr[i], scope)
          /\ Evaluate(expr, scope) = IF expr[i][1] = "value" THEN expr[i][2]
                                     ELSE scope[expr[i][1]][expr[i][2]]
  BY <1>1, EvaluateFacts
<1>4. /\ expr[i][2] \in C
      /\ \A y \in DOMAIN given : given[y] \in C
      /\ \A y \in DOMAIN data : data[y] \in C
  <2>1. expr[i][2] \in {exprs[x][k][2] : k \in 1 .. Len(exprs[x])}
    OBVIOUS
  <2>2. {exprs[x][k][2] : k \in 1 .. Len(exprs[x])}
          \in {{exprs[y][k][2] : k \in 1 .. Len(exprs[y])} : y \in DOMAIN exprs}
    OBVIOUS
  <2>3. expr[i][2] \in UNION {{exprs[y][k][2] : k \in 1 .. Len(exprs[y])} : y \in DOMAIN exprs}
    BY <2>1, <2>2, Zenon
  <2>4. /\ \A y \in DOMAIN given : given[y] \in {given[z] : z \in DOMAIN given}
        /\ \A y \in DOMAIN data : data[y] \in {data[z] : z \in DOMAIN data}
    OBVIOUS
  <2> HIDE DEF expr
  <2> QED
    BY <2>3, <2>4, Zenon DEF Contents
<1>5. \A y \in DOMAIN f : f[y] \in C
  BY DEF Known
<1> HIDE DEF scope, expr, C
<1>6. Evaluate(expr, scope) \in C
  BY <1>2, <1>3, <1>4, <1>5 DEF Resolves
<1> QED
  BY <1>6 DEF scope, expr, C

\* Being part of another is an order.
LEMMA BelowFacts ==
    /\ \A f : Below(f, f)
    /\ \A f, g, h : Below(f, g) /\ Below(g, h) => Below(f, h)
    /\ \A exprs, given, data : \A f, g \in Known(exprs, given, data) :
          Below(f, g) /\ Below(g, f) => f = g
<1>1. \A f : Below(f, f)
  BY DEF Below
<1>2. \A f, g, h : Below(f, g) /\ Below(g, h) => Below(f, h)
  BY DEF Below
<1>3. ASSUME NEW exprs, NEW given, NEW data,
             NEW f \in Known(exprs, given, data), NEW g \in Known(exprs, given, data),
             Below(f, g), Below(g, f)
      PROVE  f = g
  <2>1. f = [x \in DOMAIN f |-> f[x]] /\ g = [x \in DOMAIN g |-> g[x]]
    BY DEF Known
  <2>2. DOMAIN f = DOMAIN g /\ \A x \in DOMAIN f : f[x] = g[x]
    BY <1>3 DEF Below
  <2> QED
    BY <2>1, <2>2
<1> QED
  BY <1>1, <1>2, <1>3

\* Looking at a name adds it, or changes nothing.
LEMMA LookFacts ==
    ASSUME NEW exprs, NEW name, NEW f, NEW given, NEW data,
           NEW g, g = Look(exprs, name, f, given, data),
           NEW v, v = Evaluate(exprs[name], Scope(given, f, data))
    PROVE  \/ /\ g = f
              /\ name \notin DOMAIN exprs \/ name \in DOMAIN f \/ v = Failed
           \/ /\ name \in DOMAIN exprs /\ name \notin DOMAIN f /\ v # Failed
              /\ name \in DOMAIN g /\ \A y \in DOMAIN g : y = name \/ y \in DOMAIN f
              /\ Mapping(g)
              /\ g[name] = v
              /\ Below(f, g)
<1>1. CASE name \notin DOMAIN exprs \/ name \in DOMAIN f \/ v = Failed
  <2>1. g = f
    BY <1>1 DEF Look
  <2> QED
    BY <1>1, <2>1
<1>2. CASE name \in DOMAIN exprs /\ name \notin DOMAIN f /\ v # Failed
  <2>1. g = Layered(Setting(name, v), f)
    BY <1>2 DEF Look
  <2>2. g = [x \in {name} \cup DOMAIN f |-> IF x = name THEN v ELSE f[x]]
    BY <2>1 DEF Layered, Setting
  <2>3. /\ name \in DOMAIN g /\ \A y \in DOMAIN g : y = name \/ y \in DOMAIN f
        /\ Mapping(g)
        /\ g[name] = v
        /\ Below(f, g)
    BY <1>2, <2>2 DEF Mapping, Below
  <2>4. /\ name \in DOMAIN exprs /\ name \notin DOMAIN f /\ v # Failed
        /\ name \in DOMAIN g /\ \A y \in DOMAIN g : y = name \/ y \in DOMAIN f
        /\ Mapping(g)
        /\ g[name] = v
        /\ Below(f, g)
    BY <1>2, <2>3
  <2> QED
    BY <2>4
<1> QED
  BY <1>1, <1>2

\* What is known only grows, and stays part of every solution.
LEMMA LookKeeps ==
    ASSUME NEW exprs, Settled(exprs), NEW name, NEW given, NEW data,
           NEW f \in Known(exprs, given, data)
    PROVE  LET g == Look(exprs, name, f, given, data)
           IN  /\ g \in Known(exprs, given, data)
               /\ Below(f, g)
               /\ Partial(f, exprs, given, data) => Partial(g, exprs, given, data)
<1> DEFINE g == Look(exprs, name, f, given, data)
           v == Evaluate(exprs[name], Scope(given, f, data))
<1>0. \/ g = f
      \/ /\ name \in DOMAIN exprs /\ name \notin DOMAIN f /\ v # Failed
         /\ name \in DOMAIN g /\ \A y \in DOMAIN g : y = name \/ y \in DOMAIN f
         /\ Mapping(g)
         /\ g[name] = v
         /\ Below(f, g)
  <2>1. g = Look(exprs, name, f, given, data) /\ v = Evaluate(exprs[name], Scope(given, f, data))
    OBVIOUS
  <2> HIDE DEF g, v
  <2> QED
    BY <2>1, LookFacts
<1>1. CASE g = f
  BY <1>1 DEF Below
<1>2. CASE g # f
  <2>1. /\ name \in DOMAIN exprs /\ name \notin DOMAIN f /\ v # Failed
        /\ name \in DOMAIN g /\ \A y \in DOMAIN g : y = name \/ y \in DOMAIN f
        /\ Mapping(g)
        /\ g[name] = v
        /\ Below(f, g)
    BY <1>0, <1>2, Zenon
  <2>2. v \in Contents(exprs, given, data)
    BY <2>1, EvaluateIn
  <2> HIDE DEF g, v
  <2>3. /\ DOMAIN f \subseteq DOMAIN exprs
        /\ \A x \in DOMAIN f : f[x] \in Contents(exprs, given, data)
    BY DEF Known
  <2>4. g \in [DOMAIN g -> Contents(exprs, given, data)] /\ DOMAIN g \in SUBSET DOMAIN exprs
    BY <2>1, <2>2, <2>3 DEF Mapping, Below
  <2>5. g \in Known(exprs, given, data)
    BY <2>4 DEF Known
  <2>6. Below(f, g)
    BY <2>1
  <2>7. ASSUME Partial(f, exprs, given, data) PROVE Partial(g, exprs, given, data)
    <3>1. ASSUME NEW x \in DOMAIN g
          PROVE  g[x] # Failed /\ g[x] = Evaluate(exprs[x], Scope(given, g, data))
      <4>1. x \in DOMAIN exprs
        BY <2>1, <2>3
      <4>2. g[x] # Failed /\ g[x] = Evaluate(exprs[x], Scope(given, f, data))
        <5>1. CASE x = name
          BY <2>1, <5>1 DEF v
        <5>2. CASE x # name
          BY <2>1, <2>7, <5>2 DEF Partial, Below
        <5> QED
          BY <5>1, <5>2
      <4> QED
        BY <2>6, <4>1, <4>2, EvaluateGrows
    <3>2. ASSUME NEW s, Solution(s, exprs, given, data) PROVE Below(g, s)
      <4>1. Below(f, s)
        BY <2>7, <3>2 DEF Partial
      <4>2. Evaluate(exprs[name], Scope(given, s, data)) = v
        BY <2>1, <4>1, EvaluateGrows DEF v
      <4>3. name \in DOMAIN s /\ s[name] = v
        BY <2>1, <3>2, <4>2 DEF Solution
      <4> QED
        BY <2>1, <4>1, <4>3 DEF Below
    <3> QED
      BY <2>5, <3>1, <3>2 DEF Partial
  <2>8. /\ g \in Known(exprs, given, data) /\ Below(f, g)
        /\ Partial(f, exprs, given, data) => Partial(g, exprs, given, data)
    BY <2>5, <2>6, <2>7
  <2> QED
    BY <2>8 DEF g
<1> QED
  BY <1>1, <1>2

\* A pass, name by name.
LEMMA PassRuns ==
    ASSUME NEW exprs, Settled(exprs), NEW order, Len(order) \in Nat, NEW given, NEW data,
           NEW known \in Known(exprs, given, data)
    PROVE  \E g \in [0 .. Len(order) -> Known(exprs, given, data)] :
              /\ g[0] = known
              /\ \A k \in 1 .. Len(order) :
                    g[k] = Look(exprs, order[k], g[k - 1], given, data)
              /\ Pass(exprs, order, known, given, data) = g[Len(order)]
<1> DEFINE m == Len(order)
           S == Known(exprs, given, data)
           Step(k, f) == Look(exprs, order[k], f, given, data)
           F == [k \in 1 .. m |-> [f \in S |-> Step(k, f)]]
           Body(g) == [k \in 0 .. m |-> IF k = 0 THEN known ELSE Step(k, g[k - 1])]
<1>1. Pass(exprs, order, known, given, data) = (CHOOSE g : g = Body(g))[m]
  BY DEF Pass
<1>2. \A k \in 1 .. m : \A f \in S : Step(k, f) \in S
  BY LookKeeps
<1> HIDE DEF Step, S
<1>3. F \in [1 .. m -> [S -> S]]
  BY <1>2
<1>4. known \in S
  BY DEF S
<1>5. PICK g : Recursion(g, m, S, known, F)
  <2> HIDE DEF F
  <2> QED
    BY <1>3, <1>4, RecursionExists, Zenon
<1>6. g = Body(g)
  <2>1. \A k \in 1 .. m : k - 1 \in 0 .. m
    OBVIOUS
  <2>2. \A k \in 1 .. m : g[k] = Step(k, g[k - 1])
    BY <1>5, <2>1 DEF Recursion
  <2>3. \A k \in 0 .. m : k # 0 => k \in 1 .. m
    OBVIOUS
  <2> QED
    BY <1>5, <2>2, <2>3 DEF Recursion
<1> DEFINE h == CHOOSE f : f = Body(f)
<1>7. h = Body(h)
  BY <1>6
<1> HIDE DEF h
<1>8. h \in [0 .. m -> S] /\ h[0] = known /\ \A k \in 1 .. m : h[k] = Step(k, h[k - 1])
  <2>1. DOMAIN h = 0 .. m /\ h = [k \in DOMAIN h |-> h[k]]
    BY <1>7
  <2>2. h[0] = known /\ \A k \in 1 .. m : h[k] = Step(k, h[k - 1])
    BY <1>7
  <2> DEFINE P == {k \in 0 .. m : h[k] \in S}
  <2>3. 0 \in P
    BY <2>2, <1>4
  <2>4. ASSUME NEW k \in 1 .. m, k - 1 \in P PROVE k \in P
    BY <2>2, <2>4, <1>2
  <2> HIDE DEF P
  <2>5. \A k \in 0 .. m : k \in P
    BY <2>3, <2>4, Upward, Zenon
  <2> QED
    BY <2>1, <2>2, <2>5 DEF P
<1>9. Pass(exprs, order, known, given, data) = h[m]
  BY <1>1 DEF h
<1> QED
  BY <1>8, <1>9 DEF Step, S

\* A pass only adds to what is known; one that adds nothing leaves nothing
\* that can be added.
LEMMA PassFacts ==
    ASSUME NEW exprs, Settled(exprs), NEW order, Len(order) \in Nat, NEW given, NEW data,
           NEW f \in Known(exprs, given, data), NEW g, g = Pass(exprs, order, f, given, data)
    PROVE  /\ g \in Known(exprs, given, data)
           /\ Below(f, g)
           /\ Partial(f, exprs, given, data) => Partial(g, exprs, given, data)
           /\ g = f => \A k \in 1 .. Len(order) : Look(exprs, order[k], f, given, data) = f
<1> DEFINE m == Len(order)
           S == Known(exprs, given, data)
<1>1. PICK h \in [0 .. m -> S] :
          /\ h[0] = f
          /\ \A k \in 1 .. m : h[k] = Look(exprs, order[k], h[k - 1], given, data)
          /\ g = h[m]
  BY PassRuns
<1>2. \A k \in 1 .. m : k - 1 \in 0 .. m
  OBVIOUS
<1>3. \A k \in 1 .. m : /\ Below(h[k - 1], h[k])
                        /\ Partial(h[k - 1], exprs, given, data) => Partial(h[k], exprs, given, data)
  BY <1>1, <1>2, LookKeeps
<1> DEFINE P == {k \in 0 .. m : /\ Below(f, h[k])
                                /\ Partial(f, exprs, given, data) =>
                                      Partial(h[k], exprs, given, data)}
<1>4. \A k \in 0 .. m : k \in P
  <2>1. 0 \in P
    BY <1>1, BelowFacts
  <2>2. ASSUME NEW k \in 1 .. m, k - 1 \in P PROVE k \in P
    <3>1. Below(f, h[k])
      BY <1>3, <2>2, BelowFacts
    <3> QED
      BY <1>3, <2>2, <3>1
  <2> HIDE DEF P
  <2> QED
    BY <2>1, <2>2, Upward, Zenon
<1> DEFINE Q == {i \in 0 .. m : Below(h[m - i], h[m])}
<1>5. \A i \in 0 .. m : i \in Q
  <2>1. 0 \in Q
    BY BelowFacts
  <2>2. ASSUME NEW i \in 1 .. m, i - 1 \in Q PROVE i \in Q
    <3>1. m - i + 1 \in 1 .. m /\ m - (i - 1) = m - i + 1 /\ (m - i + 1) - 1 = m - i
      OBVIOUS
    <3>2. Below(h[m - i], h[m - i + 1])
      BY <1>3, <3>1
    <3>3. Below(h[m - i + 1], h[m])
      BY <2>2, <3>1
    <3>4. Below(h[m - i], h[m])
      BY <3>2, <3>3, BelowFacts
    <3> QED
      BY <3>4
  <2> HIDE DEF Q
  <2> QED
    BY <2>1, <2>2, Upward, Zenon
<1>6. ASSUME g = f, NEW k \in 0 .. m PROVE h[k] = f
  <2>1. m - k \in 0 .. m /\ m - (m - k) = k
    OBVIOUS
  <2>2. Below(h[k], h[m])
    BY <1>5, <2>1
  <2>3. Below(f, h[k])
    BY <1>4
  <2>4. h[k] \in S /\ f \in S
    BY <1>1
  <2> QED
    BY <1>1, <1>6, <2>2, <2>3, <2>4, BelowFacts
<1>7. ASSUME g = f, NEW k \in 1 .. m PROVE Look(exprs, order[k], f, given, data) = f
  <2>1. h[k] = f /\ h[k - 1] = f
    BY <1>2, <1>6, <1>7
  <2> QED
    BY <1>1, <2>1
<1> QED
  BY <1>1, <1>4, <1>7

\* resolveLocals ends with this pass.
LastPass(h, n, exprs) == h[n] = h[n - 1] \/ DOMAIN h[n] = DOMAIN exprs

\* The passes, one by one, to the last.
Passes(h, d, order, given, data) ==
    LET m == Len(order) + 1
    IN  /\ h \in [0 .. m -> Known(d.locals, given, data)]
        /\ h[0] = <<>>
        /\ \A n \in 1 .. m : h[n] = Pass(d.locals, order, h[n - 1], given, data)
        /\ \A n \in 1 .. m : LastPass(h, n, d.locals) =>
              \E k \in 1 .. m : /\ LastPass(h, k, d.locals)
                                /\ ResolveLocals(d, given, data, order) = h[k]

LEMMA PassesRun ==
    ASSUME NEW d, Settled(d.locals), NEW order, Len(order) \in Nat, NEW given, NEW data
    PROVE  \E h : Passes(h, d, order, given, data)
<1> DEFINE m == Len(order) + 1
           S == Known(d.locals, given, data)
           Step(f) == Pass(d.locals, order, f, given, data)
           F == [k \in 1 .. m |-> [f \in S |-> Step(f)]]
           Body(g) == [n \in 0 .. m |-> IF n = 0 THEN <<>> ELSE Step(g[n - 1])]
           h == CHOOSE g : g = Body(g)
<1>0. m \in Nat
  OBVIOUS
<1>1. ResolveLocals(d, given, data, order) =
         h[Min({n \in 1 .. m : h[n] = h[n - 1] \/ DOMAIN h[n] = DOMAIN d.locals})]
  BY DEF ResolveLocals
<1>2. \A f \in S : Step(f) \in S
  BY PassFacts
<1>3. <<>> \in S
  <2> DEFINE C == Contents(d.locals, given, data)
  <2>1. <<>> \in [{} -> C]
    <3> HIDE DEF C
    <3> QED
      OBVIOUS
  <2>2. {} \in SUBSET DOMAIN d.locals
    OBVIOUS
  <2> QED
    BY <2>1, <2>2 DEF Known
<1> HIDE DEF Step, S, m
<1>4. F \in [1 .. m -> [S -> S]]
  BY <1>2
<1>5. PICK g : Recursion(g, m, S, <<>>, F)
  <2> HIDE DEF F
  <2> QED
    BY <1>0, <1>3, <1>4, RecursionExists, Zenon
<1>6. g = Body(g)
  <2>1. \A k \in 1 .. m : k - 1 \in 0 .. m
    BY <1>0
  <2>2. \A k \in 1 .. m : g[k] = Step(g[k - 1])
    BY <1>5, <2>1 DEF Recursion
  <2>3. \A k \in 0 .. m : k # 0 => k \in 1 .. m
    BY <1>0
  <2> QED
    BY <1>0, <1>5, <2>2, <2>3 DEF Recursion
<1>7. h = Body(h)
  BY <1>6
<1> HIDE DEF h
<1>8. h \in [0 .. m -> S] /\ h[0] = <<>> /\ \A k \in 1 .. m : h[k] = Step(h[k - 1])
  <2>1. DOMAIN h = 0 .. m /\ h = [k \in DOMAIN h |-> h[k]]
    BY <1>7
  <2>2. h[0] = <<>> /\ \A k \in 1 .. m : h[k] = Step(h[k - 1])
    BY <1>0, <1>7
  <2> DEFINE P == {k \in 0 .. m : h[k] \in S}
  <2>3. 0 \in P
    BY <1>0, <2>2, <1>3
  <2>4. ASSUME NEW k \in 1 .. m, k - 1 \in P PROVE k \in P
    BY <1>0, <2>2, <2>4, <1>2
  <2> HIDE DEF P
  <2>5. \A k \in 0 .. m : k \in P
    BY <1>0, <2>3, <2>4, Upward, Zenon
  <2> QED
    BY <2>1, <2>2, <2>5 DEF P
<1> DEFINE last == {k \in 1 .. m : h[k] = h[k - 1] \/ DOMAIN h[k] = DOMAIN d.locals}
<1>9. ASSUME NEW n \in 1 .. m, LastPass(h, n, d.locals)
      PROVE  \E k \in 1 .. m : /\ LastPass(h, k, d.locals)
                               /\ ResolveLocals(d, given, data, order) = h[k]
  <2>1. last \in SUBSET Nat /\ last # {}
    BY <1>0, <1>9 DEF LastPass
  <2>2. Min(last) \in last
    <3> HIDE DEF last
    <3> QED
      BY <2>1, LeastIn
  <2>3. ResolveLocals(d, given, data, order) = h[Min(last)]
    BY <1>1
  <2> QED
    BY <2>2, <2>3 DEF LastPass
<1>10. Passes(h, d, order, given, data)
  BY <1>8, <1>9 DEF Passes, Step, S, m
<1> QED
  BY <1>10

\* An order in which every name occurs.
Covers(order, names) == Len(order) \in Nat /\ names \subseteq {order[k] : k \in 1 .. Len(order)}

\* There are not enough names for each pass to resolve one.
LEMMA PassesEnd ==
    ASSUME NEW exprs, NEW order, Covers(order, DOMAIN exprs), NEW given, NEW data,
           NEW m, m = Len(order) + 1, NEW h \in [0 .. m -> Known(exprs, given, data)],
           \A n \in 1 .. m : Below(h[n - 1], h[n])
    PROVE  \E n \in 1 .. m : h[n] = h[n - 1]
<1> DEFINE names == {order[k] : k \in 1 .. Len(order)}
           at == [k \in 1 .. Len(order) |-> order[k]]
<1> SUFFICES ASSUME \A n \in 1 .. m : h[n] # h[n - 1] PROVE FALSE
  OBVIOUS
<1>0. Len(order) \in Nat /\ m \in Nat /\ DOMAIN exprs \subseteq names
  BY DEF Covers
<1>1. IsFiniteSet(names) /\ Cardinality(names) <= Len(order)
  <2>1. at \in Surjection(1 .. Len(order), names)
    BY DEF Surjection
  <2>2. IsFiniteSet(1 .. Len(order)) /\ Cardinality(1 .. Len(order)) = Len(order)
    BY <1>0, Interval
  <2> HIDE DEF at, names
  <2> QED
    BY <2>1, <2>2, FS_Surjection
<1>2. \A n \in 0 .. m : /\ DOMAIN h[n] \subseteq names
                        /\ IsFiniteSet(DOMAIN h[n]) /\ Cardinality(DOMAIN h[n]) \in Nat
  <2> HIDE DEF names
  <2> SUFFICES ASSUME NEW n \in 0 .. m
               PROVE  /\ DOMAIN h[n] \subseteq names
                      /\ IsFiniteSet(DOMAIN h[n]) /\ Cardinality(DOMAIN h[n]) \in Nat
    OBVIOUS
  <2>1. DOMAIN h[n] \subseteq names
    BY <1>0 DEF Known
  <2> QED
    BY <1>1, <2>1, FS_Subset, FS_CardinalityType
<1>3. \A n \in 1 .. m : n - 1 \in 0 .. m /\ n \in 0 .. m
  BY <1>0
<1>4. ASSUME NEW n \in 1 .. m
      PROVE  Cardinality(DOMAIN h[n]) > Cardinality(DOMAIN h[n - 1])
  <2>1. DOMAIN h[n - 1] \in SUBSET DOMAIN h[n]
    BY DEF Below
  <2>2. DOMAIN h[n - 1] # DOMAIN h[n]
    <3>1. h[n] \in Known(exprs, given, data) /\ h[n - 1] \in Known(exprs, given, data)
      BY <1>3
    <3>2. DOMAIN h[n - 1] = DOMAIN h[n] => Below(h[n], h[n - 1])
      BY DEF Below
    <3> QED
      BY <3>1, <3>2, BelowFacts
  <2> QED
    BY <1>2, <1>3, <2>1, <2>2, FS_Subset
<1> DEFINE P == {n \in 0 .. m : Cardinality(DOMAIN h[n]) >= n}
<1>5. \A n \in 0 .. m : n \in P
  <2>1. 0 \in P
    BY <1>0, <1>2
  <2>2. ASSUME NEW n \in 1 .. m, n - 1 \in P PROVE n \in P
    <3>1. /\ Cardinality(DOMAIN h[n]) \in Nat /\ Cardinality(DOMAIN h[n - 1]) \in Nat
          /\ Cardinality(DOMAIN h[n - 1]) >= n - 1
      BY <1>2, <1>3, <2>2
    <3> QED
      BY <1>3, <1>4, <3>1
  <2> HIDE DEF P
  <2> QED
    BY <1>0, <2>1, <2>2, Upward, Zenon
<1>6. m \in 0 .. m
  BY <1>0
<1>7. Cardinality(DOMAIN h[m]) >= m /\ Cardinality(DOMAIN h[m]) \in Nat
  BY <1>2, <1>5, <1>6
<1>8. Cardinality(DOMAIN h[m]) <= Cardinality(names) /\ Cardinality(names) \in Nat
  <2> HIDE DEF names
  <2> QED
    BY <1>1, <1>2, <1>6, FS_Subset, FS_CardinalityType
<1> QED
  BY <1>0, <1>1, <1>7, <1>8

\* resolveLocals: its passes come to an end, every local has the value of its
\* expression where that has one, and no other function with that property
\* has fewer names: locals that refer to each other in a circle have none.
THEOREM LocalsLeast ==
    ASSUME NEW d, Settled(d.locals), NEW given, NEW data,
           NEW order, Covers(order, DOMAIN d.locals)
    PROVE  LET f == ResolveLocals(d, given, data, order)
           IN  /\ f \in Known(d.locals, given, data)
               /\ Solution(f, d.locals, given, data)
               /\ \A s : Solution(s, d.locals, given, data) => Below(f, s)
<1> DEFINE exprs == d.locals
           m == Len(order) + 1
           f == ResolveLocals(d, given, data, order)
<1>0. /\ Len(order) \in Nat /\ m \in Nat
      /\ DOMAIN exprs \subseteq {order[k] : k \in 1 .. Len(order)}
  BY DEF Covers
<1>1. PICK h \in [0 .. m -> Known(exprs, given, data)] :
          /\ h[0] = <<>>
          /\ \A n \in 1 .. m : h[n] = Pass(exprs, order, h[n - 1], given, data)
          /\ \A n \in 1 .. m : LastPass(h, n, exprs) =>
                \E k \in 1 .. m : LastPass(h, k, exprs) /\ f = h[k]
  <2>1. PICK h : Passes(h, d, order, given, data)
    BY <1>0, PassesRun
  <2> QED
    BY <2>1 DEF Passes
<1> HIDE DEF f, exprs, m
<1>2. \A n \in 1 .. m : n - 1 \in 0 .. m /\ n \in 0 .. m
  BY <1>0
<1>3. Settled(exprs)
  BY DEF exprs
<1>4. \A n \in 1 .. m :
          /\ Below(h[n - 1], h[n])
          /\ Partial(h[n - 1], exprs, given, data) => Partial(h[n], exprs, given, data)
          /\ h[n] = h[n - 1] => \A k \in 1 .. Len(order) :
                Look(exprs, order[k], h[n - 1], given, data) = h[n - 1]
  BY <1>0, <1>1, <1>2, <1>3, PassFacts
<1>5. Partial(h[0], exprs, given, data)
  <2>1. h[0] \in Known(exprs, given, data) /\ DOMAIN h[0] = {}
    BY <1>0, <1>1
  <2> QED
    BY <2>1 DEF Partial, Below
<1> DEFINE P == {n \in 0 .. m : Partial(h[n], exprs, given, data)}
<1>6. \A n \in 0 .. m : n \in P
  <2>1. 0 \in P
    BY <1>0, <1>5
  <2>2. ASSUME NEW n \in 1 .. m, n - 1 \in P PROVE n \in P
    BY <1>2, <1>4, <2>2
  <2> HIDE DEF P
  <2> QED
    BY <1>0, <2>1, <2>2, Upward, Zenon
<1>7. \E n \in 1 .. m : h[n] = h[n - 1]
  <2>1. Covers(order, DOMAIN exprs) /\ m = Len(order) + 1
    BY DEF exprs, m
  <2> QED
    BY <1>1, <1>4, <2>1, PassesEnd
<1>8. PICK n \in 1 .. m : LastPass(h, n, exprs) /\ f = h[n]
  BY <1>1, <1>7 DEF LastPass
<1>9. n \in 0 .. m /\ (h[n] = h[n - 1] \/ DOMAIN h[n] = DOMAIN exprs)
  BY <1>2, <1>8 DEF LastPass
<1>10. Partial(f, exprs, given, data)
  BY <1>6, <1>8, <1>9
<1>11. DOMAIN f \subseteq DOMAIN exprs
  BY <1>10 DEF Partial, Known
<1>12. ASSUME NEW x \in DOMAIN exprs, x \notin DOMAIN f
       PROVE  Evaluate(exprs[x], Scope(given, f, data)) = Failed
  <2>1. h[n] = h[n - 1]
    BY <1>8, <1>9, <1>12
  <2>2. PICK k \in 1 .. Len(order) : x = order[k]
    BY <1>0
  <2>3. Look(exprs, x, f, given, data) = f
    BY <1>4, <1>8, <1>9, <2>1, <2>2
  <2> QED
    BY <1>12, <2>3, LookFacts
<1>13. Solution(f, exprs, given, data)
  BY <1>10, <1>11, <1>12 DEF Partial, Solution
<1>14. /\ f \in Known(exprs, given, data)
       /\ Solution(f, exprs, given, data)
       /\ \A s : Solution(s, exprs, given, data) => Below(f, s)
  BY <1>10, <1>13 DEF Partial
<1> QED
  BY <1>14 DEF f, exprs

\* What the locals of a directory or a unit are does not depend on the order in
\* which resolveLocals gets them from a Go map.
THEOREM LocalsOrderIndependent ==
    ASSUME NEW d, Settled(d.locals), NEW given, NEW data,
           NEW o, Covers(o, DOMAIN d.locals), NEW p, Covers(p, DOMAIN d.locals)
    PROVE  ResolveLocals(d, given, data, o) = ResolveLocals(d, given, data, p)
<1> DEFINE f == ResolveLocals(d, given, data, o)
           g == ResolveLocals(d, given, data, p)
<1>1. f \in Known(d.locals, given, data) /\ g \in Known(d.locals, given, data)
  BY LocalsLeast
<1>2. Solution(f, d.locals, given, data) /\ Solution(g, d.locals, given, data)
  BY LocalsLeast
<1>3. Below(f, g) /\ Below(g, f)
  BY <1>2, LocalsLeast
<1>4. f = g
  <2> HIDE DEF f, g
  <2> QED
    BY <1>1, <1>3, BelowFacts
<1> QED
  BY <1>4

\* Nor does the scope of a directory.
THEOREM ScopeOrderIndependent ==
    ASSUME NEW d, Settled(d.locals), NEW given,
           NEW o, Covers(o, DOMAIN d.locals), NEW p, Covers(p, DOMAIN d.locals)
    PROVE  ScopeOf(d, given, o) = ScopeOf(d, given, p)
BY LocalsOrderIndependent DEF ScopeOf

-----------------------------------------------------------------------------
(* Two runs over one project.                                              *)

\* What is assumed of the parsers: the order of a Go map changes at most the
\* order of the resources.
OrderIndependent ==
    \A i \in Invocations, offline \in BOOLEAN, o \in Orders, p \in Orders :
        Parsed(i, offline, o) # Failed /\ Parsed(i, offline, p) # Failed =>
            SameResources(Parsed(i, offline, o), Parsed(i, offline, p))

\* Two commands that read the same, at settings that do not tell them apart.
Alike(c, d, s) ==
    /\ c.path = d.path /\ c.vars = d.vars /\ c.varFiles = d.varFiles
    /\ ParsedAlike(s)

LEMMA FoundAlike ==
    ASSUME NEW c, NEW d, NEW s, Alike(c, d, s), NEW order
    PROVE  Found(c, s, order) = Found(d, s, order)
<1>1. Options(c, s).offline <=> Options(d, s).offline
  BY DEF Alike, ParsedAlike, Options
<1>2. Options(c, s).offline \in BOOLEAN /\ Options(d, s).offline \in BOOLEAN
  BY DEF Options
<1>3. Options(c, s) = Options(d, s)
  BY <1>1, <1>2 DEF Alike, Options
<1> QED
  BY <1>3 DEF Alike, Found

LEMMA FoundInAnyOrder ==
    ASSUME OrderIndependent, NEW c, IsSource(c), NEW s,
           NEW o \in Orders, Found(c, s, o) # Failed,
           NEW p \in Orders, Found(c, s, p) # Failed
    PROVE  SameResources(Found(c, s, o), Found(c, s, p))
<1>1. PICK i \in Invocations : c.path = i.path /\ c.vars = i.vars /\ c.varFiles = i.varFiles
  BY DEF IsSource
<1> DEFINE offline == Options(c, s).offline
<1>2. offline \in BOOLEAN
  BY DEF Options
<1>3. Options(c, s) = [vars |-> c.vars, varFiles |-> c.varFiles, offline |-> offline]
  BY DEF Options
<1> HIDE DEF offline
<1>4. \A order \in Orders : Found(c, s, order) = Parsed(i, offline, order)
  BY <1>1, <1>3 DEF Found, Parsed
<1> QED
  BY <1>2, <1>4 DEF OrderIndependent

-----------------------------------------------------------------------------
(* Comparisons with a project's own baseline.                              *)

\* The costs of these resources, whatever is planned for them.
Shows(e, rs, region, list) ==
    /\ DOMAIN e.costs = DOMAIN rs
    /\ \A i \in DOMAIN rs : /\ e.costs[i].ref = rs[i].ref
                            /\ e.costs[i].subtotal = Subtotal(rs[i], region, list)

LEMMA SameIsContained ==
    ASSUME NEW rs, NEW ts, SameResources(rs, ts), NEW region, NEW list,
           NEW b, Shows(b, rs, region, list), NEW c, Shows(c, ts, region, list)
    PROVE  Contained(b, c)
<1>1. PICK f \in Injection(DOMAIN rs, DOMAIN ts) : \A k \in DOMAIN rs : ts[f[k]] = rs[k]
  BY DEF SameResources
<1>2. \A k \in DOMAIN rs : f[k] \in DOMAIN ts
  BY <1>1 DEF Injection
<1>3. f \in Injection(DOMAIN b.costs, DOMAIN c.costs)
  BY DEF Shows
<1>4. \A k \in DOMAIN b.costs : /\ c.costs[f[k]].ref = b.costs[k].ref
                                /\ c.costs[f[k]].subtotal = b.costs[k].subtotal
  BY <1>1, <1>2 DEF Shows
<1> QED
  BY <1>3, <1>4 DEF Contained

LEMMA SavedShows ==
    ASSUME CatalogFits, NEW rs, NEW region, NEW list, CanBePriced(rs, region, list)
    PROVE  LET e == EstimateOf(rs, region, list)
           IN  /\ IsEstimate(e) /\ Shows(e, rs, region, list) /\ e.total \in Int
               /\ IsEstimate(Saved(e)) /\ Shows(Saved(e), rs, region, list)
               /\ Saved(e).total = e.total
<1> DEFINE e == EstimateOf(rs, region, list)
<1>1. /\ IsEstimate(e) /\ DOMAIN e.costs = DOMAIN rs
      /\ \A i \in DOMAIN rs :
            e.costs[i] = [ref |-> rs[i].ref, action |-> rs[i].action,
                          subtotal |-> Subtotal(rs[i], region, list)]
      /\ e.total \in Int
  BY EstimateOfFacts, CountedFacts
<1> HIDE DEF e
<1>2. ASSUME NEW i \in DOMAIN rs
      PROVE  /\ e.costs[i].ref = rs[i].ref
             /\ e.costs[i].subtotal = Subtotal(rs[i], region, list)
             /\ e.costs[i] = [ref |-> e.costs[i].ref, action |-> e.costs[i].action,
                              subtotal |-> e.costs[i].subtotal]
  <2> DEFINE c == e.costs[i]
  <2>1. c = [ref |-> rs[i].ref, action |-> rs[i].action,
             subtotal |-> Subtotal(rs[i], region, list)]
    BY <1>1
  <2> HIDE DEF c
  <2>2. /\ c.ref = rs[i].ref /\ c.action = rs[i].action
        /\ c.subtotal = Subtotal(rs[i], region, list)
    BY <2>1
  <2> QED
    BY <2>1, <2>2 DEF c
<1>3. /\ IsEstimate(Saved(e)) /\ Saved(e).total = e.total
      /\ DOMAIN Saved(e).costs = DOMAIN e.costs
      /\ \A i \in DOMAIN e.costs :
            Saved(e).costs[i] = [ref |-> e.costs[i].ref, action |-> "none",
                                 subtotal |-> e.costs[i].subtotal]
  BY <1>1, <1>2, SavedFacts
<1>4. ASSUME NEW i \in DOMAIN rs
      PROVE  /\ Saved(e).costs[i].ref = rs[i].ref
             /\ Saved(e).costs[i].subtotal = Subtotal(rs[i], region, list)
  <2>1. Saved(e).costs[i] = [ref |-> e.costs[i].ref, action |-> "none",
                             subtotal |-> e.costs[i].subtotal]
    BY <1>1, <1>3
  <2>2. Saved(e).costs[i].ref = e.costs[i].ref /\ Saved(e).costs[i].subtotal = e.costs[i].subtotal
    BY <2>1
  <2> QED
    BY <1>2, <2>2
<1> QED
  BY <1>1, <1>2, <1>3, <1>4 DEF Shows, e

\* Without usage and what-ifs the resources are as they were found.
LEMMA FoundAsIs ==
    ASSUME NEW c, IsSource(c), NEW s, NEW rs, GainedFrom(c, s, rs),
           ~Overlays(c) \/ (c.usage = None /\ c.whatIf = <<>>)
    PROVE  \E order \in Orders : Found(c, s, order) # Failed /\ rs = Found(c, s, order)
<1>1. PICK order \in Orders :
         /\ Found(c, s, order) # Failed
         /\ rs = IF Overlays(c) THEN Overlaid(c, Found(c, s, order)) ELSE Found(c, s, order)
  BY DEF GainedFrom
<1>2. CASE ~Overlays(c)
  BY <1>1, <1>2
<1>3. CASE Overlays(c)
  <2> DEFINE fs == Found(c, s, order)
  <2>1. IsProject(fs)
    BY <1>1, FoundFacts
  <2>2. Overlaid(c, fs) = ApplyWhatIf(fs, <<>>)
    BY <1>3 DEF Overlaid, UsageApplied
  <2> QED
    BY <1>1, <1>3, <2>1, <2>2, NoWhatIf
<1> QED
  BY <1>2, <1>3

\* A saved estimate, compared with one of the same.
LEMMA QuietWithOwn ==
    ASSUME CatalogFits, OrderIndependent,
           NEW c, NEW d, NEW s, NEW rs, NEW ts, NEW list, NEW b, NEW e,
           EstimatedFrom(c, s, rs, list, b), EstimatedFrom(d, s, ts, list, e),
           Alike(c, d, s), c.usage = None, c.whatIf = <<>>, ~Overlays(d),
           UniqueRefs(e)
    PROVE  Quiet(ComputeDiff(Saved(b), e))
<1> DEFINE region == Region(s)
<1>1. /\ IsSource(c) /\ GainedFrom(c, s, rs) /\ CanBePriced(rs, region, list)
      /\ b = EstimateOf(rs, region, list)
      /\ IsSource(d) /\ GainedFrom(d, s, ts) /\ CanBePriced(ts, region, list)
      /\ e = EstimateOf(ts, region, list)
  BY DEF EstimatedFrom
<1> HIDE DEF region
<1>2. PICK o \in Orders : Found(c, s, o) # Failed /\ rs = Found(c, s, o)
  BY <1>1, FoundAsIs
<1>3. PICK p \in Orders : Found(d, s, p) # Failed /\ ts = Found(d, s, p)
  BY <1>1, FoundAsIs
<1>4. Found(c, s, p) = Found(d, s, p)
  BY FoundAlike
<1>5. SameResources(rs, ts) /\ SameResources(ts, rs)
  BY <1>1, <1>2, <1>3, <1>4, FoundInAnyOrder
<1>6. /\ IsEstimate(e) /\ Shows(e, ts, region, list) /\ e.total \in Int
      /\ IsEstimate(Saved(b)) /\ Shows(Saved(b), rs, region, list) /\ Saved(b).total = b.total
  BY <1>1, SavedShows
<1>7. Contained(Saved(b), e) /\ Contained(e, Saved(b))
  BY <1>5, <1>6, SameIsContained
<1>8. Saved(b).total = e.total
  BY <1>1, <1>5, <1>6, EstimatePermutes
<1> QED
  BY <1>6, <1>7, <1>8, QuietComparison

\* An estimate that was read from a file, compared with itself.
LEMMA QuietWithItself ==
    ASSUME CatalogFits, NEW f, IsSaved(f), UniqueRefs(f.estimate)
    PROVE  Quiet(ComputeDiff(f.estimate, f.estimate))
<1>1. PICK c, s, rs, list, e : /\ EstimatedFrom(c, s, rs, list, e)
                               /\ f = [estimate |-> Saved(e), of |-> Of(c, s, list)]
  BY DEF IsSaved
<1> DEFINE b == f.estimate
           same == [i \in DOMAIN b.costs |-> i]
<1>2. IsEstimate(b) /\ b.total \in Int
  BY <1>1, SavedShows DEF EstimatedFrom
<1> HIDE DEF b
<1>3. same \in Injection(DOMAIN b.costs, DOMAIN b.costs)
  BY DEF Injection, IsInjective
<1>4. Contained(b, b)
  BY <1>3 DEF Contained
<1> QED
  BY <1>2, <1>4, QuietComparison DEF b

\* With subtotals rounded to cents and parsers that no map's order makes find
\* other resources, a project that did not change is equal to its own baseline,
\* for whichever of the commands compares them.
THEOREM QuietCorrect ==
    ASSUME CatalogFits, OrderIndependent
    PROVE  Spec => []QuietDiff
<1>1. IInv /\ Derived => QuietDiff
  <2> DEFINE plain == [cmd EXCEPT !.usage = None, !.whatIf = <<>>]
  <2> SUFFICES ASSUME Derived, Ended({"ok", "exceeded"}), Compares,
                      base.of = Of(plain, resolved, prices), ParsedAlike(resolved),
                      UniqueRefs(estimate)
               PROVE  Quiet(report)
    BY DEF QuietDiff, Quiet
  <2>1. /\ base \in printed /\ report = ComputeDiff(base.estimate, estimate)
        /\ Priced \/ estimate = base.estimate
    <3>1. Rendering /\ ~Is({"configure"})
      BY DEF Rendering, Compares, Is
    <3> QED
      BY <3>1 DEF Derived, Pricing
  <2>2. IsSaved(base)
    BY <2>1 DEF Derived, Remembered
  <2>3. CASE estimate = base.estimate
    BY <2>1, <2>2, <2>3, QuietWithItself
  <2>4. CASE Priced
    <3>1. PICK c, s, rs, list, e :
             /\ EstimatedFrom(c, s, rs, list, e)
             /\ base = [estimate |-> Saved(e), of |-> Of(c, s, list)]
      BY <2>2 DEF IsSaved
    <3>2. /\ Of(c, s, list) = Of(plain, resolved, prices)
          /\ IsSource(cmd)
      BY <2>4, <3>1 DEF Priced, EstimatedFrom
    <3>3. /\ plain.path = cmd.path /\ plain.vars = cmd.vars /\ plain.varFiles = cmd.varFiles
          /\ plain.usage = None /\ plain.whatIf = <<>>
      BY <3>2 DEF IsSource
    <3> HIDE DEF plain
    <3>4. /\ c.path = cmd.path /\ c.vars = cmd.vars /\ c.varFiles = cmd.varFiles
          /\ c.usage = None /\ c.whatIf = <<>> /\ s = resolved /\ list = prices
      BY <3>2, <3>3 DEF Of
    <3>5. Alike(c, cmd, resolved)
      BY <3>4 DEF Alike
    <3>6. ~Overlays(cmd)
      BY DEF Compares, Is, Overlays
    <3>7. EstimatedFrom(cmd, resolved, resources, prices, estimate)
      BY <2>4 DEF Priced
    <3>8. Quiet(ComputeDiff(Saved(e), estimate))
      BY <3>1, <3>4, <3>5, <3>6, <3>7, QuietWithOwn
    <3> QED
      BY <2>1, <3>1, <3>8
  <2> QED
    BY <2>1, <2>3, <2>4
<1> QED
  BY <1>1, DerivedCorrect, PTL

-----------------------------------------------------------------------------
(* Recommendations that are followed.                                      *)

\* A finite set as a sequence has every element in one place.
LEMMA SetToSeqFacts ==
    ASSUME NEW S, IsFiniteSet(S)
    PROVE  LET m == Cardinality(S)
               f == SetToSeq(S)
           IN  /\ m \in Nat /\ f \in [1 .. m -> S]
               /\ \A i, k \in 1 .. m : f[i] = f[k] => i = k
               /\ \A x \in S : \E i \in 1 .. m : f[i] = x
<1> DEFINE m == Cardinality(S)
           f == SetToSeq(S)
<1>1. m \in Nat /\ ExistsBijection(1 .. m, S)
  BY FS_CardinalityType
<1>2. PICK g \in Bijection(1 .. m, S) : TRUE
  BY <1>1 DEF ExistsBijection
<1>3. g \in [1 .. m -> S] /\ IsInjective(g)
  BY <1>2 DEF Bijection, Injection
<1>4. f \in [1 .. m -> S] /\ IsInjective(f)
  <2>1. f = CHOOSE h \in [1 .. m -> S] : IsInjective(h)
    BY DEF SetToSeq
  <2> HIDE DEF f
  <2> QED
    BY <1>3, <2>1
<1> HIDE DEF f
<1>5. IsFiniteSet(1 .. m) /\ Cardinality(1 .. m) = m
  <2> HIDE DEF m
  <2> QED
    BY <1>1, Interval
<1>6. f \in Injection(1 .. m, S)
  BY <1>4 DEF Injection
<1>7. f \in Surjection(1 .. m, S)
  BY <1>5, <1>6, FS_Injection
<1>8. \A x \in S : \E i \in 1 .. m : f[i] = x
  BY <1>7 DEF Surjection
<1>9. \A i, k \in 1 .. m : f[i] = f[k] => i = k
  BY <1>4 DEF IsInjective
<1> QED
  BY <1>1, <1>4, <1>8, <1>9 DEF f

\* What is proposed is about finitely many resources.
LEMMA ChoiceIsFinite ==
    ASSUME NEW rs, IsProject(rs), NEW changes, NEW source, IsChoice(rs, changes, source)
    PROVE  IsFiniteSet(DOMAIN changes)
<1> DEFINE n == Len(rs)
           all == {rs[i].ref : i \in 1 .. n}
           f == [i \in 1 .. n |-> rs[i].ref]
<1>1. n \in Nat /\ DOMAIN rs = 1 .. n
  BY ProjectFacts
<1>2. f \in Surjection(1 .. n, all)
  BY DEF Surjection
<1>3. DOMAIN changes \in SUBSET all
  BY <1>1 DEF IsChoice
<1>4. IsFiniteSet(all)
  <2> HIDE DEF all, f, n
  <2> QED
    BY <1>1, <1>2, FS_NatSurjection DEF ExistsSurjection
<1> HIDE DEF all
<1> QED
  BY <1>3, <1>4, FS_Subset

\* An alternative costs what the resource costs after the change.
LEMMA AlternativeFacts ==
    ASSUME CatalogFits, NEW r, IsResource(r), NEW attrs, IsAttributes(attrs),
           NEW region, NEW list \in Lists
    PROVE  Subtotal(Changed(r, attrs), region, list) = Subtotal(WithAttrs(r, attrs), region, list)
<1> DEFINE s == WithAttrs(r, attrs)
<1>1. IsResource(s)
  BY WithAttrsFacts
<1>2. Changed(r, attrs) = [s EXCEPT !.action = "none"]
  BY DEF Changed
<1> HIDE DEF s
<1> QED
  BY <1>1, <1>2 DEF CatalogFits, s

\* The resources after the changes.
Followed(rs, changes, ts) ==
    /\ Laid(rs, ts)
    /\ \A i \in DOMAIN rs : ts[i] = IF rs[i].ref \in DOMAIN changes
                                    THEN WithAttrs(rs[i], changes[rs[i].ref]) ELSE rs[i]

LEMMA ScorePays ==
    ASSUME CatalogFits, NEW rs, NEW region, NEW list, CanBePriced(rs, region, list),
           \A i, k \in DOMAIN rs : rs[i].ref = rs[k].ref => i = k,
           NEW changes, \A ref \in DOMAIN changes : IsAttributes(changes[ref]),
           NEW source, IsChoice(rs, changes, source),
           \A i \in DOMAIN rs : rs[i].action = "delete" => rs[i].ref \notin DOMAIN changes,
           Score(rs, changes, source, region, list) > 0,
           NEW ts, Followed(rs, changes, ts), CanBePriced(ts, region, list)
    PROVE  Total(Counted(ts, region, list)) =
              Total(Counted(rs, region, list)) - Score(rs, changes, source, region, list)
<1> DEFINE n == Len(rs)
           refs == SetToSeq(DOMAIN changes)
           m == Cardinality(DOMAIN changes)
           after(ref) == Subtotal(Changed(source[ref], changes[ref]), region, list)
           before(ref) == Subtotal(ResourceOf(rs, ref), region, list)
           places == [i \in 1 .. m |-> CHOOSE j \in 1 .. n : rs[j].ref = refs[i]]
           s == Counted(rs, region, list)
           t == Counted(ts, region, list)
           d == [i \in 1 .. m |-> before(refs[i]) - after(refs[i])]
<1>1. /\ n \in Nat /\ DOMAIN rs = 1 .. n /\ \A i \in 1 .. n : IsResource(rs[i])
      /\ list \in Lists /\ IsProject(rs)
      /\ Len(ts) = n /\ DOMAIN ts = 1 .. n
  BY ProjectFacts DEF CanBePriced, Followed, Laid
<1>2. /\ m \in Nat /\ refs \in [1 .. m -> DOMAIN changes]
      /\ \A i, k \in 1 .. m : refs[i] = refs[k] => i = k
      /\ \A x \in DOMAIN changes : \E i \in 1 .. m : refs[i] = x
  BY <1>1, ChoiceIsFinite, SetToSeqFacts
<1> HIDE DEF refs, m, n
<1>3. ASSUME NEW i \in 1 .. m
      PROVE  places[i] \in 1 .. n /\ rs[places[i]].ref = refs[i] /\ refs[i] \in DOMAIN changes
  <2>1. \E j \in 1 .. n : rs[j].ref = refs[i]
    BY <1>1, <1>2 DEF IsChoice
  <2> QED
    BY <1>2, <2>1
<1> HIDE DEF places
<1>4. /\ s \in Seq(Int) /\ Len(s) = n /\ t \in Seq(Int) /\ Len(t) = n
      /\ Total(s) \in Multiples(CentGrain) /\ Total(t) \in Multiples(CentGrain)
      /\ Total(s) \in Int /\ Total(t) \in Int
  BY <1>1, CountedFacts
<1>5. /\ DOMAIN s = 1 .. n /\ DOMAIN t = 1 .. n
      /\ \A i \in 1 .. n :
            /\ s[i] = IF rs[i].action = "delete" THEN 0 ELSE Subtotal(rs[i], region, list)
            /\ t[i] = IF rs[i].action = "delete" THEN 0 ELSE Subtotal(ts[i], region, list)
  BY <1>1 DEF Counted, Followed, Laid
<1> HIDE DEF s, t
<1>6. ASSUME NEW i \in 1 .. m
      PROVE  before(refs[i]) = s[places[i]] /\ after(refs[i]) = t[places[i]]
  <2> DEFINE j == places[i]
             ref == refs[i]
  <2>1. j \in 1 .. n /\ rs[j].ref = ref /\ ref \in DOMAIN changes /\ rs[j].action # "delete"
    BY <1>1, <1>3
  <2> HIDE DEF j, ref
  <2>2. ResourceOf(rs, ref) = rs[j]
    <3>1. ref \in {r.ref : r \in Range(rs)}
      BY <1>1, <2>1 DEF Range
    <3> QED
      BY <1>1, <2>1, <3>1, ResourceOfFacts
  <2>3. source[ref] = rs[j]
    BY <1>1, <2>1 DEF IsChoice
  <2>4. ts[j] = WithAttrs(rs[j], changes[ref])
    BY <1>1, <2>1 DEF Followed
  <2>5. Subtotal(Changed(rs[j], changes[ref]), region, list) = Subtotal(ts[j], region, list)
    BY <1>1, <2>1, <2>4, AlternativeFacts
  <2> QED
    BY <1>5, <2>1, <2>2, <2>3, <2>5 DEF j, ref
<1>7. \A k \in 1 .. n : (\A i \in 1 .. m : places[i] # k) => s[k] = t[k]
  <2> SUFFICES ASSUME NEW k \in 1 .. n, \A i \in 1 .. m : places[i] # k PROVE s[k] = t[k]
    OBVIOUS
  <2>1. rs[k].ref \notin DOMAIN changes
    <3> SUFFICES ASSUME rs[k].ref \in DOMAIN changes PROVE FALSE
      OBVIOUS
    <3>1. PICK i \in 1 .. m : refs[i] = rs[k].ref
      BY <1>2
    <3>2. places[i] = k
      BY <1>1, <1>3, <3>1
    <3> QED
      BY <3>2
  <2>2. ts[k] = rs[k]
    BY <1>1, <2>1 DEF Followed
  <2> QED
    BY <1>5, <2>2
<1>8. \A i \in 1 .. n : s[i] \in Int /\ t[i] \in Int
  BY <1>4
<1>9. d \in Seq(Int) /\ Len(d) = m /\ \A i \in 1 .. m : d[i] = s[places[i]] - t[places[i]]
  <2>1. \A i \in 1 .. m : d[i] = s[places[i]] - t[places[i]] /\ d[i] \in Int
    <3> HIDE DEF before, after
    <3> QED
      BY <1>3, <1>6, <1>8
  <2>2. d \in [1 .. m -> Int]
    BY <2>1
  <2> HIDE DEF d
  <2> QED
    BY <1>2, <2>1, <2>2, SequenceOf
<1>10. places \in [1 .. m -> 1 .. n]
  <2>1. places = [i \in 1 .. m |-> places[i]]
    BY DEF places
  <2> QED
    BY <1>3, <2>1
<1>11. \A i, k \in 1 .. m : places[i] = places[k] => i = k
  BY <1>2, <1>3
<1>12. Score(rs, changes, source, region, list) = Rounded(Total(d), CentGrain)
  <2>1. DOMAIN refs = 1 .. m
    BY <1>2
  <2>2. Score(rs, changes, source, region, list) =
          IF \E ref \in DOMAIN changes : after(ref) = Failed THEN 0
          ELSE Rounded(Total([i \in DOMAIN refs |-> before(refs[i]) - after(refs[i])]), CentGrain)
    BY DEF Score, refs
  <2>3. d = [i \in DOMAIN refs |-> before(refs[i]) - after(refs[i])]
    BY <2>1
  <2> HIDE DEF before, after, d
  <2> QED
    BY <2>2, <2>3
<1> HIDE DEF d
<1>13. Total(s) = Total(t) + Total(d)
  <2>1. DifferAt(s, t, m, places, d)
    BY <1>2, <1>4, <1>7, <1>9, <1>10, <1>11 DEF DifferAt
  <2> QED
    BY <2>1, TotalDiffers
<1>14. Total(d) = Total(s) - Total(t) /\ Total(d) \in Multiples(CentGrain)
  <2>1. Total(d) \in Int
    BY <1>9, TotalIsInt
  <2>2. Total(s) - Total(t) \in Multiples(CentGrain)
    BY <1>4, MultiplesAdd, CentAssumption
  <2>3. Total(d) = Total(s) - Total(t)
    BY <1>4, <1>13, <2>1
  <2> QED
    BY <2>2, <2>3
<1>15. Rounded(Total(d), CentGrain) = Total(d)
  BY <1>14, MultipleIsRounded, CentAssumption
<1> QED
  BY <1>4, <1>12, <1>14, <1>15 DEF s, t

\* The same usage, and the what-if on top of the others.
LEMMA TrialFollows ==
    ASSUME NEW c, IsSource(c), NEW t, IsSource(t), c.usage # Broken, t.usage = c.usage,
           NEW changes, \A ref \in DOMAIN changes : IsAttributes(changes[ref]),
           t.whatIf = Append(c.whatIf, changes), NEW fs, IsProject(fs)
    PROVE  Followed(Overlaid(c, fs), changes, Overlaid(t, fs))
<1> DEFINE us == UsageApplied(c, fs)
           w == c.whatIf
           rs == ApplyWhatIf(us, w)
           ts == ApplyWhatIf(us, Append(w, changes))
<1>1. Laid(fs, us) /\ WhatIfs(w)
  BY UsageAppliedFacts DEF IsSource
<1>2. Overlaid(c, fs) = rs /\ Overlaid(t, fs) = ts
  BY DEF Overlaid, UsageApplied
<1> HIDE DEF us, w
<1>3. WhatIfs(Append(w, changes)) /\ IsProject(us)
  BY <1>1, WhatIfsAppend DEF Laid
<1>4. Laid(us, rs) /\ Laid(us, ts)
  BY <1>1, <1>3, ApplyWhatIfFacts
<1>5. \A i \in DOMAIN us : ts[i] = IF rs[i].ref \in DOMAIN changes
                                   THEN WithAttrs(rs[i], changes[rs[i].ref]) ELSE rs[i]
  BY <1>1, <1>3, WhatIfAdded
<1> HIDE DEF rs, ts
<1> QED
  BY <1>2, <1>4, <1>5 DEF Laid, Followed

\* A recommendation that is tried out.
LEMMA TrialPays ==
    ASSUME CatalogFits, OrderIndependent, IsAdvised(advised),
           NEW advice \in advised.report, NEW ts, NEW e,
           EstimatedFrom(Trial(advice), advised.resolved, ts, advised.prices, e),
           ParsedAlike(advised.resolved),
           UniqueRefs(advised.estimate), Keeps(advised.estimate, advice.changes)
    PROVE  e.total = advised.estimate.total - advice.savings
<1> DEFINE c == advised.cmd
           t == Trial(advice)
           s == advised.resolved
           region == Region(s)
           list == advised.prices
           changes == advice.changes
<1>1. PICK rs : /\ EstimatedFrom(c, s, rs, list, advised.estimate)
                /\ c.command = "recommend"
                /\ advised.report = Recommend(rs, region, list)
  BY DEF IsAdvised
<1>2. /\ IsSource(c) /\ IsSource(t) /\ t.command = "estimate" /\ Alike(c, t, s)
      /\ t.usage = c.usage /\ t.whatIf = Append(c.whatIf, changes)
      /\ \A ref \in DOMAIN changes : IsAttributes(changes[ref])
  BY TrialFacts DEF Alike
<1>3. /\ GainedFrom(c, s, rs) /\ CanBePriced(rs, region, list)
      /\ advised.estimate = EstimateOf(rs, region, list)
      /\ GainedFrom(t, s, ts) /\ CanBePriced(ts, region, list)
      /\ e = EstimateOf(ts, region, list)
  BY <1>1 DEF EstimatedFrom
<1> HIDE DEF c, t, s, region, list, changes
<1>4. Overlays(c) /\ Overlays(t)
  BY <1>1, <1>2 DEF Overlays
<1>5. PICK o \in Orders :
         Found(c, s, o) # Failed /\ c.usage # Broken /\ rs = Overlaid(c, Found(c, s, o))
  BY <1>3, <1>4 DEF GainedFrom
<1>6. PICK p \in Orders : Found(t, s, p) # Failed /\ ts = Overlaid(t, Found(t, s, p))
  BY <1>3, <1>4 DEF GainedFrom
<1> DEFINE fs == Found(c, s, o)
           gs == Found(c, s, p)
           us == Overlaid(t, fs)
<1>7. /\ gs = Found(t, s, p) /\ IsProject(fs) /\ IsProject(gs) /\ SameResources(fs, gs)
  BY <1>2, <1>5, <1>6, FoundAlike, FoundFacts, FoundInAnyOrder
<1> HIDE DEF fs, gs
<1>8. Followed(rs, changes, us) /\ IsProject(us)
  <2>1. rs = Overlaid(c, fs)
    BY <1>5 DEF fs
  <2>2. Followed(rs, changes, us)
    BY <1>2, <1>5, <1>7, <2>1, TrialFollows
  <2> QED
    BY <2>2 DEF Followed, Laid
<1>9. SameResources(us, ts)
  <2>1. ts = Overlaid(t, gs)
    BY <1>6, <1>7
  <2> QED
    BY <1>2, <1>5, <1>7, <2>1, SameOverlaid
<1> HIDE DEF us
<1>10. CanBePriced(us, region, list)
  <2>1. PICK f \in Injection(DOMAIN us, DOMAIN ts) : \A k \in DOMAIN us : ts[f[k]] = us[k]
    BY <1>9 DEF SameResources
  <2>2. \A k \in DOMAIN us : f[k] \in DOMAIN ts
    BY <2>1 DEF Injection
  <2>3. \A k \in DOMAIN us : Subtotal(us[k], region, list) # Failed
    BY <1>3, <2>1, <2>2 DEF CanBePriced
  <2> QED
    BY <1>3, <1>8, <2>3 DEF CanBePriced
<1>11. /\ e.total = EstimateOf(us, region, list).total
       /\ EstimateOf(us, region, list).total = Total(Counted(us, region, list))
       /\ advised.estimate.total = Total(Counted(rs, region, list))
  BY <1>3, <1>9, <1>10, EstimatePermutes, EstimateOfFacts
<1>12. /\ \A i, k \in DOMAIN rs : rs[i].ref = rs[k].ref => i = k
       /\ \A i \in DOMAIN rs : rs[i].action = "delete" => rs[i].ref \notin DOMAIN changes
  <2>1. /\ DOMAIN advised.estimate.costs = DOMAIN rs
        /\ \A i \in DOMAIN rs : /\ advised.estimate.costs[i].ref = rs[i].ref
                                /\ advised.estimate.costs[i].action = rs[i].action
    BY <1>3 DEF EstimateOf, NewEstimate
  <2> QED
    BY <2>1 DEF UniqueRefs, Keeps, changes
<1>13. PICK source : /\ advice.savings > 0
                     /\ IsChoice(rs, changes, source)
                     /\ advice.savings = Score(rs, changes, source, region, list)
  <2>1. IsProject(rs) /\ advice \in Recommend(rs, region, list)
    BY <1>1, <1>3 DEF CanBePriced, region, list
  <2>2. /\ advice.savings > 0
        /\ \E source : /\ IsChoice(rs, advice.changes, source)
                       /\ advice.savings = Score(rs, advice.changes, source, region, list)
    BY <2>1, RecommendFacts
  <2> QED
    BY <2>2 DEF changes
<1>14. Total(Counted(us, region, list)) = Total(Counted(rs, region, list)) - advice.savings
  BY <1>2, <1>3, <1>8, <1>10, <1>12, <1>13, ScorePays
<1> QED
  BY <1>11, <1>14

\* With such subtotals and such parsers, who tries out a recommendation at the same
\* settings and prices sees the total fall by the savings it promised.
THEOREM FollowedCorrect ==
    ASSUME CatalogFits, OrderIndependent
    PROVE  Spec => []FollowedPays
<1>1. IInv /\ Derived => FollowedPays
  <2> SUFFICES ASSUME Derived, Ended({"ok", "exceeded"}), Is({"estimate"}), advised # None,
                      NEW advice \in advised.report, cmd = Trial(advice),
                      resolved = advised.resolved, prices = advised.prices,
                      ParsedAlike(resolved), UniqueRefs(advised.estimate),
                      Keeps(advised.estimate, advice.changes)
               PROVE  estimate.total = advised.estimate.total - advice.savings
    BY DEF FollowedPays
  <2>1. Priced
    <3>1. Rendering /\ ~Is({"configure"}) /\ ~Is({"policy"})
      BY DEF Rendering, Is
    <3> QED
      BY <3>1 DEF Derived, Pricing
  <2>2. EstimatedFrom(Trial(advice), advised.resolved, resources, advised.prices, estimate)
    BY <2>1 DEF Priced
  <2>3. IsAdvised(advised)
    BY DEF Derived, Remembered
  <2> QED
    BY <2>2, <2>3, TrialPays
<1> QED
  BY <1>1, DerivedCorrect, PTL
=============================================================================
