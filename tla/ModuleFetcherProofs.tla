------------------------ MODULE ModuleFetcherProofs -------------------------
(***************************************************************************)
(* Theorems about ModuleFetcher: what a directory of the cache holds, and  *)
(* what a fetch returns, for any number of processes, projects, versions   *)
(* and sources, whatever fails and whoever is stopped.                     *)
(***************************************************************************)
EXTENDS ModuleFetcher, WellFoundedInduction, TLAPS

-----------------------------------------------------------------------------
(* The newest of a set of versions.                                        *)

\* A set of versions has a newest one: the least distance from MaxVersion.
LEMMA NewestExists ==
    ASSUME NEW S \in SUBSET Versions, S # {}
    PROVE  \E v \in S : \A w \in S : v >= w
<1> DEFINE T == {MaxVersion - v : v \in S}
<1>1. T \subseteq Nat /\ T # {}
  <2>1. \A v \in S : v \in Int /\ MaxVersion - v \in Nat
    BY MaxVersionAssumption DEF Versions
  <2>2. PICK v \in S : TRUE
    OBVIOUS
  <2>3. MaxVersion - v \in T
    OBVIOUS
  <2> QED
    BY <2>1, <2>3
<1>2. PICK d \in T : \A e \in T : ~(<<e, d>> \in OpToRel(<, Nat))
  BY <1>1, NatLessThanWellFounded, WFMin
<1>3. PICK v \in S : d = MaxVersion - v
  BY <1>2
<1>4. \A w \in S : ~(MaxVersion - w < MaxVersion - v)
  BY <1>1, <1>2, <1>3 DEF OpToRel
<1>5. \A w \in S : v >= w
  BY <1>4, MaxVersionAssumption DEF Versions
<1> QED
  BY <1>5

LEMMA MaxIsNewest ==
    ASSUME NEW S \in SUBSET Versions, S # {}
    PROVE  Max(S) \in S /\ \A w \in S : Max(S) >= w
BY NewestExists DEF Max

-----------------------------------------------------------------------------
(* The inductive invariant.                                                *)

Trees == [of : Upstream, ref : Versions \cup {Main}, at : 0 .. MaxHead]

\* The ref whose files are fetched when ref is asked for.
Effective(ref) == IF ref = None THEN Main ELSE ref

\* tree may be the files of name at ref.
Holds(tree, name, ref) ==
    /\ tree = Empty => name \in EmptyArchives
    /\ tree # Empty => tree \in Trees /\ tree.of = name /\ tree.ref = ref

UpstreamInv ==
    /\ published \in [Upstream -> SUBSET Versions]
    /\ \A u \in Upstream : published[u] # {}
    /\ head \in [Upstream -> 0 .. MaxHead]

\* The variables are functions of the processes.
Shaped ==
    /\ DOMAIN pc = Procs /\ DOMAIN request = Procs /\ DOMAIN version = Procs
    /\ DOMAIN target = Procs /\ DOMAIN dest = Procs /\ DOMAIN tmp = Procs
    /\ DOMAIN result = Procs /\ DOMAIN since = Procs /\ DOMAIN trouble = Procs

\* A directory is filled from what its name says.  At an address with ".git" in
\* it that is no repository there is none.
SlotOK(key) ==
    \/ \E n \in Upstream, v \in Versions \cup {Latest} :
          /\ key = <<"registry", n, v>>
          /\ \E ref \in published[n] : /\ v \in Versions => ref = v
                                       /\ Holds(slots[key], n, ref)
    \/ \E r \in Requests :
          /\ key = SourceKey(r) /\ ~r.dotgit
          /\ Holds(slots[key], r.name, Effective(r.ref))

SlotsInv == \A key \in DOMAIN slots : SlotOK(key)

\* v is a version that r asks for, and if it asks for the newest of several,
\* none of those there were in the beginning is newer.
Chosen(r, v, begun) ==
    /\ v \in Versions \cup {Latest}
    /\ r.constraint = {} => v = r.version
    /\ r.constraint # {} => /\ v \in r.constraint
                            /\ \A w \in begun \cap r.constraint : w <= v

Busy(p) == pc[p] \notin {"idle", "done", "failed"}

\* A registry's module on its way: first the version, then where it is.
RegistryInv(p) ==
    LET r == request[p]
    IN  /\ target[p].sub = r.sub
        /\ pc[p] = "versions" => r.constraint # {}
        /\ pc[p] # "versions" =>
             /\ dest[p] = RegistryKey(r, version[p])
             /\ Chosen(r, version[p], since[p])
             /\ r.constraint # {} => version[p] \in published[r.name]
        /\ pc[p] \notin {"versions", "lookup", "download"} =>
             /\ target[p].ref \in published[r.name]
             /\ version[p] \in Versions => target[p].ref = version[p]
        /\ pc[p] = "checkout" => target[p].ref \in tmp[p].tags

\* A repository or an archive.
SourceInv(p) ==
    LET r == request[p]
    IN  /\ pc[p] \notin {"versions", "lookup", "download"}
        /\ dest[p] = SourceKey(r)
        /\ target[p].ref = r.ref
        /\ r.dotgit => target[p].git /\ pc[p] \in {"check", "clone"}

\* What has been downloaded so far.
TmpInv(p) ==
    LET name == request[p].name
        ref == target[p].ref
    IN  /\ pc[p] \in {"checkout", "unpack"} =>
                tmp[p] = [tree |-> tmp[p].tree, tags |-> tmp[p].tags]
        /\ pc[p] = "checkout" =>
             /\ ref # None
             /\ tmp[p].tree.at \in 0 .. MaxHead
             /\ since[p] \cup {Main} \subseteq tmp[p].tags
             /\ tmp[p].tags \subseteq Versions \cup {Main}
        /\ pc[p] = "rename" => Holds(tmp[p].tree, name, Effective(ref))

FetchInv(p) ==
    /\ request[p] \in Requests
    /\ target[p] = [git |-> target[p].git, name |-> request[p].name,
                    ref |-> target[p].ref, sub |-> target[p].sub]
    /\ target[p].sub \in Subs
    /\ since[p] \subseteq published[request[p].name]
    /\ IF DetectSourceType(request[p]) = "registry" THEN RegistryInv(p) ELSE SourceInv(p)
    /\ TmpInv(p)

\* What was returned is there, under the name that the request leads to.
DoneInv(p) ==
    LET r == request[p]
        key == result[p].slot
    IN  /\ r \in Requests
        /\ key = "in place"
           \/ /\ key \in DOMAIN slots
              /\ IF DetectSourceType(r) = "registry"
                 THEN /\ \E v \in Versions \cup {Latest} :
                           key = RegistryKey(r, v) /\ Chosen(r, v, since[p])
                      /\ result[p].sub = r.sub
                 ELSE key = SourceKey(r)

\* The conjunct of OnlyRequestsFail about one process.
FailedInv(p) ==
    LET r == request[p]
        exists == IF r.form = "registry"
                  THEN (IF r.constraint = {} THEN {r.version} ELSE r.constraint)
                         \cap (since[p] \cup {Latest}) # {}
                  ELSE r.form \in {"git", "url"} /\ r.ref \in since[p] \cup {Main, None}
    IN  exists /\ ~r.offline /\ ~r.dotgit /\ r.name \notin EmptyArchives => trouble[p]

ProcInv(p) ==
    /\ Busy(p) => FetchInv(p)
    /\ pc[p] = "done" => DoneInv(p)
    /\ pc[p] = "failed" => FailedInv(p)

IInv == UpstreamInv /\ Shaped /\ SlotsInv /\ \A p \in Procs : ProcInv(p)

LEMMA InitHolds == Init => IInv
<1> SUFFICES ASSUME Init PROVE IInv
  OBVIOUS
<1>1. UpstreamInv
  BY MaxVersionAssumption, MaxHeadAssumption DEF Init, UpstreamInv, Versions
<1>2. Shaped
  BY DEF Init, Shaped
<1>3. SlotsInv
  BY DEF Init, SlotsInv
<1>4. \A p \in Procs : ProcInv(p)
  BY DEF Init, ProcInv, Busy
<1> QED
  BY <1>1, <1>2, <1>3, <1>4 DEF IInv

-----------------------------------------------------------------------------
(* What a step leaves alone.                                               *)

Same(q) ==
    /\ pc'[q] = pc[q] /\ request'[q] = request[q] /\ version'[q] = version[q]
    /\ target'[q] = target[q] /\ dest'[q] = dest[q] /\ tmp'[q] = tmp[q]
    /\ result'[q] = result[q] /\ since'[q] = since[q] /\ trouble'[q] = trouble[q]

\* What is published stays so, and directories are not removed.
Grows ==
    /\ \A u \in Upstream : published[u] \subseteq published'[u]
    /\ DOMAIN slots \subseteq DOMAIN slots'

\* A process that does not step keeps its invariant while upstream and the cache
\* grow.
LEMMA ProcFrame ==
    ASSUME NEW q \in Procs, ProcInv(q), Same(q), Grows
    PROVE  ProcInv(q)'
<1> USE DEF Same, Grows
<1>1. CASE Busy(q)
  <2>1. FetchInv(q) /\ request[q] \in Requests /\ request[q].name \in Upstream
    BY <1>1, RequestAssumption DEF ProcInv, FetchInv
  <2>2. TmpInv(q)'
    BY <2>1 DEF FetchInv, TmpInv, Holds
  <2>3. DetectSourceType(request[q]) = "registry" => RegistryInv(q)'
    BY <2>1 DEF FetchInv, RegistryInv
  <2>4. DetectSourceType(request[q]) # "registry" => SourceInv(q)'
    BY <2>1 DEF FetchInv, SourceInv
  <2>5. FetchInv(q)'
    BY <2>1, <2>2, <2>3, <2>4 DEF FetchInv
  <2> QED
    BY <1>1, <2>5 DEF ProcInv, Busy
<1>2. CASE pc[q] = "done"
  BY <1>2 DEF ProcInv, Busy, DoneInv
<1>3. CASE pc[q] = "failed"
  BY <1>3 DEF ProcInv, Busy, FailedInv
<1>4. CASE pc[q] = "idle"
  BY <1>4 DEF ProcInv, Busy
<1> QED
  BY <1>1, <1>2, <1>3, <1>4 DEF Busy

LEMMA SlotsFrame ==
    ASSUME SlotsInv, slots' = slots,
           \A u \in Upstream : published[u] \subseteq published'[u]
    PROVE  SlotsInv'
BY DEF SlotsInv, SlotOK, Holds

\* A step of p outside the cache has only p's invariant to keep.
LEMMA LocalStep ==
    ASSUME IInv, NEW p \in Procs, UNCHANGED <<upstream, slots>>, Shaped',
           \A q \in Procs \ {p} : Same(q), ProcInv(p)'
    PROVE  IInv'
<1>1. Grows /\ UpstreamInv'
  BY DEF Grows, UpstreamInv, IInv, upstream
<1>2. SlotsInv'
  BY <1>1, SlotsFrame DEF IInv, Grows
<1>3. \A q \in Procs \ {p} : ProcInv(q)'
  BY <1>1, ProcFrame DEF IInv
<1> QED
  BY <1>1, <1>2, <1>3 DEF IInv

-----------------------------------------------------------------------------
(* One lemma per action.                                                   *)

\* What Return leaves: the other processes, and a process that is not fetching.
LEMMA ReturnShape ==
    ASSUME IInv, NEW p \in Procs, NEW dir, Return(p, dir),
           UNCHANGED request, UNCHANGED since, DOMAIN trouble' = Procs,
           \A q \in Procs \ {p} : trouble'[q] = trouble[q]
    PROVE  /\ Shaped' /\ \A q \in Procs \ {p} : Same(q)
           /\ pc'[p] = (IF dir = None THEN "failed" ELSE "done")
           /\ result'[p] = dir
BY DEF IInv, Shaped, Return, Enter, Forget, Same

\* Resolve: a fetch begins with what the source says, or ends at once.
LEMMA ResolveKeeps == ASSUME IInv, NEW p \in Procs, Resolve(p) PROVE IInv'
<1>0. PICK r \in Requests :
      LET type == DetectSourceType(r)
          inPlace == type = "local" \/ r.manifest
          skipped == ~inPlace /\ (r.offline \/ type = "unknown")
      IN  /\ request' = [request EXCEPT ![p] = r]
          /\ since' = [since EXCEPT ![p] = published[r.name]]
          /\ \/ inPlace /\ Return(p, Dir("in place", ""))
             \/ skipped /\ Return(p, None)
             \/ /\ ~inPlace /\ ~skipped
                /\ version' = [version EXCEPT ![p] = r.version]
                /\ target' = [target EXCEPT ![p] =
                     [git |-> type = "git", name |-> r.name, ref |-> r.ref,
                      sub |-> IF type = "registry" THEN r.sub ELSE ""]]
                /\ dest' = [dest EXCEPT ![p] = IF type = "registry"
                                               THEN RegistryKey(r, r.version)
                                               ELSE SourceKey(r)]
                /\ result' = [result EXCEPT ![p] = None]
                /\ Enter(p, IF type # "registry" THEN "check"
                            ELSE IF r.constraint # {} THEN "versions" ELSE "lookup")
                /\ UNCHANGED tmp
  BY DEF Resolve
<1> DEFINE type == DetectSourceType(r)
<1>1. /\ UNCHANGED <<upstream, slots>> /\ trouble' = [trouble EXCEPT ![p] = FALSE]
      /\ Shaped /\ UpstreamInv
  BY <1>0 DEF Resolve, IInv
<1>2. Shaped' /\ \A q \in Procs \ {p} : Same(q)
  BY <1>0, <1>1 DEF Shaped, Same, Return, Enter, Forget
<1>3. /\ request'[p] = r /\ since'[p] = published[r.name] /\ published' = published
  BY <1>0, <1>1 DEF Shaped, upstream
<1>4. ProcInv(p)'
  <2>1. CASE (type = "local" \/ r.manifest) /\ Return(p, Dir("in place", ""))
    <3>1. Dir("in place", "") # None
      BY DirAssumption DEF Subs
    <3>2. pc'[p] = "done" /\ result'[p].slot = "in place"
      BY <1>1, <2>1, <3>1 DEF Shaped, Return, Enter, Dir
    <3> QED
      BY <1>3, <3>2 DEF ProcInv, Busy, DoneInv
  <2>2. CASE (r.offline \/ type = "unknown") /\ Return(p, None)
    <3>1. pc'[p] = "failed"
      BY <1>1, <2>2 DEF Shaped, Return, Enter
    <3>2. type = "unknown" => r.form \notin {"registry", "git", "url"}
      BY DEF DetectSourceType
    <3>3. FailedInv(p)'
      BY <1>3, <2>2, <3>2 DEF FailedInv
    <3> QED
      BY <3>1, <3>3 DEF ProcInv, Busy
  <2>3. ASSUME type \notin {"local", "unknown"},
               version' = [version EXCEPT ![p] = r.version],
               target' = [target EXCEPT ![p] =
                    [git |-> type = "git", name |-> r.name, ref |-> r.ref,
                     sub |-> IF type = "registry" THEN r.sub ELSE ""]],
               dest' = [dest EXCEPT ![p] = IF type = "registry"
                                           THEN RegistryKey(r, r.version)
                                           ELSE SourceKey(r)],
               Enter(p, IF type # "registry" THEN "check"
                        ELSE IF r.constraint # {} THEN "versions" ELSE "lookup")
        PROVE  ProcInv(p)'
    <3>1. /\ version'[p] = r.version
          /\ target'[p] = [git |-> type = "git", name |-> r.name, ref |-> r.ref,
                           sub |-> IF type = "registry" THEN r.sub ELSE ""]
          /\ dest'[p] = IF type = "registry" THEN RegistryKey(r, r.version) ELSE SourceKey(r)
          /\ pc'[p] = IF type # "registry" THEN "check"
                      ELSE IF r.constraint # {} THEN "versions" ELSE "lookup"
      BY <1>1, <2>3 DEF Shaped, Enter
    <3>2. type = "registry" => r.form = "registry"
      BY DEF DetectSourceType
    <3>3. r.dotgit => type = "git"
      BY <2>3 DEF DetectSourceType
    <3> HIDE DEF type
    <3>4. PICK git \in BOOLEAN :
             /\ type = "git" => git
             /\ target'[p] = [git |-> git, name |-> r.name, ref |-> r.ref,
                              sub |-> IF type = "registry" THEN r.sub ELSE ""]
      BY <3>1, Zenon
    <3>5. /\ target'[p].name = r.name /\ target'[p].ref = r.ref
          /\ target'[p].sub = IF type = "registry" THEN r.sub ELSE ""
          /\ target'[p] = [git |-> target'[p].git, name |-> r.name, ref |-> target'[p].ref,
                           sub |-> target'[p].sub]
          /\ r.dotgit => target'[p].git
      <4> DEFINE sub == IF type = "registry" THEN r.sub ELSE ""
      <4>1. target'[p] = [git |-> git, name |-> r.name, ref |-> r.ref, sub |-> sub]
        BY <3>4
      <4>2. r.dotgit => git
        BY <3>3, <3>4
      <4> HIDE DEF sub
      <4>3. /\ target'[p].name = r.name /\ target'[p].ref = r.ref
            /\ target'[p].sub = sub /\ target'[p].git = git
        BY <4>1
      <4>4. target'[p] = [git |-> target'[p].git, name |-> r.name, ref |-> target'[p].ref,
                           sub |-> target'[p].sub]
        BY <4>1, <4>3, Zenon
      <4>5. r.dotgit => target'[p].git
        BY <4>2, <4>3, Zenon
      <4> QED
        BY <4>3, <4>4, <4>5, Zenon DEF sub
    <3>6. type = "registry" => RegistryInv(p)'
      BY <1>3, <3>1, <3>2, <3>5, RequestAssumption
         DEF RegistryInv, Chosen, RegistryKey, Versions
    <3>7. type # "registry" => SourceInv(p)'
      <4> SUFFICES ASSUME type # "registry" PROVE SourceInv(p)'
        OBVIOUS
      <4>1. pc'[p] = "check" /\ dest'[p] = SourceKey(r)
        BY <3>1
      <4> QED
        BY <1>3, <3>5, <4>1 DEF SourceInv, SourceKey
    <3>8. TmpInv(p)'
      BY <3>1 DEF TmpInv
    <3>9. FetchInv(p)'
      <4>1. type = DetectSourceType(request'[p])
        BY <1>3 DEF type
      <4>2. target'[p].sub \in Subs
        BY <3>5 DEF Subs
      <4>3. since'[p] \subseteq published'[r.name]
        BY <1>3
      <4>4. IF type = "registry" THEN RegistryInv(p)' ELSE SourceInv(p)'
        BY <3>6, <3>7
      <4> QED
        BY <1>3, <3>5, <3>8, <4>1, <4>2, <4>3, <4>4 DEF FetchInv
    <3> QED
      BY <3>1, <3>9 DEF ProcInv, Busy
  <2> QED
    BY <1>0, <2>1, <2>2, <2>3
<1> QED
  BY <1>1, <1>2, <1>4, LocalStep

\* What is known of a process that is fetching.
LEMMA Fetching ==
    ASSUME IInv, NEW p \in Procs, Busy(p)
    PROVE  /\ UpstreamInv /\ SlotsInv /\ Shaped /\ FetchInv(p)
           /\ request[p] \in Requests /\ request[p].name \in Upstream
           /\ target[p].name = request[p].name
           /\ published[request[p].name] \subseteq Versions
           /\ published[request[p].name] # {}
           /\ head[request[p].name] \in 0 .. MaxHead
<1>1. UpstreamInv /\ SlotsInv /\ Shaped /\ FetchInv(p)
  BY DEF IInv, ProcInv
<1>2. request[p] \in Requests /\ request[p].name \in Upstream
  BY <1>1, RequestAssumption DEF FetchInv
<1>3. target[p].name = request[p].name
  BY <1>1 DEF FetchInv
<1> QED
  BY <1>1, <1>2, <1>3 DEF UpstreamInv

\* A registry's module is one by its form, and has no ".git" in its address.
LEMMA RegistryForm ==
    \A r \in Requests :
        /\ DetectSourceType(r) = "registry" <=> r.form = "registry" /\ ~r.dotgit
        /\ r.constraint \subseteq Versions
        /\ r.constraint # {} => r.form = "registry"
        /\ r.ref \in Versions \cup {Main, None}
BY RequestAssumption DEF DetectSourceType

\* Once the version is known, what there can be directories for.
LEMMA DestIsKey ==
    ASSUME IInv, NEW p \in Procs, Busy(p), pc[p] # "versions"
    PROVE  dest[p] \in Keys /\ target[p].sub \in Subs
<1>1. FetchInv(p) /\ request[p] \in Requests
  BY Fetching
<1>2. CASE DetectSourceType(request[p]) = "registry"
  <2>1. RegistryInv(p)
    BY <1>1, <1>2 DEF FetchInv
  <2>2. dest[p] = RegistryKey(request[p], version[p]) /\ version[p] \in Versions \cup {Latest}
    BY <2>1 DEF RegistryInv, Chosen
  <2> QED
    BY <1>1, <2>2 DEF FetchInv, Keys
<1>3. CASE DetectSourceType(request[p]) # "registry"
  BY <1>1, <1>3 DEF FetchInv, SourceInv, Keys
<1> QED
  BY <1>2, <1>3

\* A directory returned is one that is there, for what was asked.
LEMMA ReturnedThere ==
    ASSUME IInv, NEW p \in Procs, Busy(p), pc[p] # "versions",
           Return(p, Dir(dest[p], target[p].sub)), request' = request, since' = since,
           dest[p] \in DOMAIN slots'
    PROVE  ProcInv(p)'
<1>1. FetchInv(p) /\ Shaped /\ request[p] \in Requests
  BY Fetching
<1>2. Dir(dest[p], target[p].sub) # None
  BY DestIsKey, DirAssumption
<1>3. pc'[p] = "done" /\ result'[p] = Dir(dest[p], target[p].sub)
  BY <1>1, <1>2 DEF Return, Enter, Shaped
<1>4. result'[p].slot = dest[p] /\ result'[p].sub = target[p].sub
  BY <1>3 DEF Dir
<1>5. CASE DetectSourceType(request[p]) = "registry"
  <2>1. RegistryInv(p)
    BY <1>1, <1>5 DEF FetchInv
  <2> QED
    BY <1>1, <1>3, <1>4, <1>5, <2>1 DEF RegistryInv, Chosen, DoneInv, ProcInv, Busy
<1>6. CASE DetectSourceType(request[p]) # "registry"
  <2>1. SourceInv(p)
    BY <1>1, <1>6 DEF FetchInv
  <2> QED
    BY <1>1, <1>3, <1>4, <1>6, <2>1 DEF SourceInv, DoneInv, ProcInv, Busy
<1> QED
  BY <1>5, <1>6

\* A hit in the cache.
LEMMA FoundKeeps ==
    ASSUME IInv, NEW p \in Procs, Busy(p), pc[p] # "versions", Found(p),
           UNCHANGED <<upstream, slots, request, history>>
    PROVE  IInv'
<1>1. Return(p, Dir(dest[p], target[p].sub)) /\ dest[p] \in DOMAIN slots
  BY DEF Found, HasFiles
<1>2. ProcInv(p)'
  BY <1>1, ReturnedThere DEF history
<1>3. Shaped' /\ \A q \in Procs \ {p} : Same(q)
  BY <1>1, ReturnShape DEF history, IInv, Shaped
<1> QED
  BY <1>2, <1>3, LocalStep

\* A fetch that fails.
LEMMA FailKeeps ==
    ASSUME IInv, NEW p \in Procs, Return(p, None), FailedInv(p)',
           UNCHANGED <<upstream, slots, request, since>>, DOMAIN trouble' = Procs,
           \A q \in Procs \ {p} : trouble'[q] = trouble[q]
    PROVE  IInv'
<1>1. Shaped' /\ (\A q \in Procs \ {p} : Same(q)) /\ pc'[p] = "failed"
  BY ReturnShape
<1>2. ProcInv(p)'
  BY <1>1 DEF ProcInv, Busy
<1> QED
  BY <1>1, <1>2, LocalStep

\* A process that goes on fetching, alone.
LEMMA FetchKeeps ==
    ASSUME IInv, NEW p \in Procs, NEW label, Enter(p, label),
           label \notin {"idle", "done", "failed"},
           UNCHANGED <<upstream, slots, request, result, history>>, FetchInv(p)',
           DOMAIN version' = Procs, DOMAIN target' = Procs, DOMAIN dest' = Procs,
           DOMAIN tmp' = Procs,
           \A q \in Procs \ {p} : /\ version'[q] = version[q] /\ target'[q] = target[q]
                                  /\ dest'[q] = dest[q] /\ tmp'[q] = tmp[q]
    PROVE  IInv'
<1>1. Shaped
  BY DEF IInv
<1>2. Shaped' /\ (\A q \in Procs \ {p} : Same(q)) /\ pc'[p] = label
  BY <1>1 DEF Shaped, Same, Enter, history
<1>3. ProcInv(p)'
  BY <1>2 DEF ProcInv, Busy
<1> QED
  BY <1>2, <1>3, LocalStep

\* ListVersions: the newest version that meets the constraint, if there is one.
LEMMA ListVersionsKeeps == ASSUME IInv, NEW p \in Procs, ListVersions(p) PROVE IInv'
<1> DEFINE r == request[p]
           list == published[r.name]
           v == Max(r.constraint \cap list)
<1>0. pc[p] = "versions" /\ UNCHANGED <<upstream, slots, request, history>>
  BY DEF ListVersions
<1>1. /\ Shaped /\ FetchInv(p) /\ r \in Requests /\ list \subseteq Versions
      /\ RegistryInv(p) /\ r.form = "registry" /\ r.constraint # {}
      /\ r.constraint \subseteq Versions
      /\ since[p] \subseteq list
  <2>1. Shaped /\ FetchInv(p) /\ r \in Requests /\ list \subseteq Versions
    BY <1>0, Fetching DEF Busy
  <2>2. DetectSourceType(r) = "registry"
    BY <1>0, <2>1 DEF FetchInv, SourceInv
  <2> QED
    BY <1>0, <2>1, <2>2, RegistryForm DEF FetchInv, RegistryInv
<1>2. CASE /\ r.constraint \cap list # {}
           /\ version' = [version EXCEPT ![p] = v]
           /\ dest' = [dest EXCEPT ![p] = RegistryKey(r, v)]
           /\ Enter(p, "lookup") /\ UNCHANGED <<target, tmp, result>>
  <2>1. v \in r.constraint \cap list /\ \A w \in r.constraint \cap list : v >= w
    BY <1>1, <1>2, MaxIsNewest
  <2> HIDE DEF v
  <2>2. /\ version'[p] = v /\ dest'[p] = RegistryKey(r, v) /\ pc'[p] = "lookup"
        /\ request'[p] = r /\ since' = since /\ published' = published
    BY <1>0, <1>1, <1>2 DEF Shaped, Enter, upstream, history
  <2>3. \A w \in since[p] \cap r.constraint : w <= v
    BY <1>1, <2>1 DEF Versions
  <2>4. Chosen(r, v, since[p])
    BY <1>1, <2>1, <2>3 DEF Chosen
  <2>5. RegistryInv(p)'
    BY <1>1, <1>2, <2>1, <2>2, <2>4 DEF RegistryInv, Chosen
  <2>6. TmpInv(p)'
    BY <2>2 DEF TmpInv
  <2>7. DetectSourceType(r) = "registry"
    BY <1>0, <1>1 DEF FetchInv, SourceInv
  <2>8. FetchInv(p)'
    BY <1>1, <1>2, <2>2, <2>5, <2>6, <2>7 DEF FetchInv
  <2> QED
    BY <1>0, <1>1, <1>2, <2>8, FetchKeeps DEF Shaped
<1>3. CASE r.constraint \cap list = {} /\ Return(p, None)
  <2>1. FailedInv(p)'
    BY <1>0, <1>1, <1>3, NameAssumption DEF FailedInv, history
  <2> QED
    BY <1>0, <1>1, <1>3, <2>1, FailKeeps DEF history, Shaped
<1> QED
  BY <1>2, <1>3 DEF ListVersions, Pick

\* Lookup: nothing is found out.
LEMMA LookupKeeps == ASSUME IInv, NEW p \in Procs, Lookup(p) PROVE IInv'
<1>0. pc[p] = "lookup" /\ UNCHANGED <<upstream, slots, request, history>>
  BY DEF Lookup
<1>1. Shaped /\ FetchInv(p)
  BY <1>0, Fetching DEF Busy
<1>2. CASE Found(p)
  BY <1>0, <1>2, FoundKeeps DEF Busy
<1>3. CASE Enter(p, "download") /\ UNCHANGED <<version, target, dest, tmp, result>>
  <2>1. pc'[p] = "download" /\ since' = since /\ published' = published /\ request' = request
    BY <1>0, <1>1, <1>3 DEF Enter, Shaped, upstream, history
  <2>2. DetectSourceType(request[p]) = "registry"
    BY <1>0, <1>1 DEF FetchInv, SourceInv
  <2>3. RegistryInv(p)' /\ TmpInv(p)'
    BY <1>0, <1>1, <1>3, <2>1, <2>2 DEF FetchInv, RegistryInv, TmpInv
  <2>4. FetchInv(p)'
    BY <1>1, <1>3, <2>1, <2>2, <2>3 DEF FetchInv
  <2> QED
    BY <1>0, <1>1, <1>3, <2>4, FetchKeeps DEF Shaped
<1> QED
  BY <1>2, <1>3 DEF Lookup

\* Download: where a version is downloaded from; one that was published is found.
LEMMA DownloadKeeps == ASSUME IInv, NEW p \in Procs, Download(p) PROVE IInv'
<1> DEFINE r == request[p]
           v == IF version[p] = Latest THEN Max(published[r.name]) ELSE version[p]
<1>0. pc[p] = "download" /\ UNCHANGED <<upstream, slots, request, history>>
  BY DEF Download
<1>1. /\ Shaped /\ FetchInv(p) /\ r \in Requests /\ target[p].name = r.name
      /\ published[r.name] \subseteq Versions /\ published[r.name] # {}
  BY <1>0, Fetching DEF Busy
<1>2. DetectSourceType(r) = "registry" /\ r.form = "registry" /\ RegistryInv(p)
  <2>1. DetectSourceType(r) = "registry"
    BY <1>0, <1>1 DEF FetchInv, SourceInv
  <2> QED
    BY <1>1, <2>1, RegistryForm DEF FetchInv
<1>3. CASE /\ v \in published[r.name]
           /\ target' = [target EXCEPT ![p].git = r.name \in ByGit, ![p].ref = v]
           /\ Enter(p, "check") /\ UNCHANGED <<version, dest, tmp, result>>
  <2>1. version[p] \in Versions => v = version[p]
    BY NameAssumption
  <2>2. version[p] \in Versions \cup {Latest}
    BY <1>0, <1>2 DEF RegistryInv, Chosen
  <2> HIDE DEF v
  <2>3. /\ pc'[p] = "check" /\ request' = request /\ version' = version /\ dest' = dest
        /\ since' = since /\ published' = published
    BY <1>0, <1>1, <1>3 DEF Shaped, Enter, upstream, history
  <2> DEFINE git == r.name \in ByGit
  <2>4. target' = [target EXCEPT ![p].git = git, ![p].ref = v]
    BY <1>3, Zenon
  <2> HIDE DEF git
  <2>5. target'[p] = [git |-> target'[p].git, name |-> r.name, ref |-> v, sub |-> target[p].sub]
    <3>1. /\ p \in DOMAIN target
          /\ target[p] = [git |-> target[p].git, name |-> r.name, ref |-> target[p].ref,
                          sub |-> target[p].sub]
      BY <1>1 DEF Shaped, FetchInv
    <3> DEFINE redirected == [target[p] EXCEPT !.git = git]
    <3>2. redirected = [git |-> git, name |-> r.name,
                         ref |-> target[p].ref, sub |-> target[p].sub]
      BY <3>1
    <3>3. target'[p] = [redirected EXCEPT !.ref = v]
      BY <2>4, <3>1
    <3> HIDE DEF redirected
    <3>4. target'[p] = [git |-> git, name |-> r.name, ref |-> v, sub |-> target[p].sub]
      BY <3>2, <3>3
    <3>5. target'[p].git = git
      BY <3>4
    <3> QED
      BY <3>4, <3>5
  <2>6. RegistryInv(p)'
    BY <1>0, <1>2, <1>3, <2>1, <2>3, <2>5 DEF RegistryInv
  <2>7. TmpInv(p)'
    BY <2>3 DEF TmpInv
  <2>8. FetchInv(p)'
    BY <1>1, <1>2, <2>3, <2>5, <2>6, <2>7 DEF FetchInv
  <2> QED
    BY <1>0, <1>1, <1>3, <2>4, <2>8, FetchKeeps DEF Shaped
<1>4. CASE v \notin published[r.name] /\ Return(p, None)
  <2>1. version[p] # Latest
    BY <1>1, <1>4, MaxIsNewest
  <2>2. version[p] \notin published[r.name] /\ Chosen(r, version[p], since[p])
    BY <1>0, <1>2, <1>4, <2>1 DEF RegistryInv
  <2>3. r.constraint = {} /\ version[p] = r.version
    BY <1>0, <1>2, <2>2 DEF RegistryInv, Chosen
  <2>4. since[p] \subseteq published[r.name]
    BY <1>1 DEF FetchInv
  <2>5. FailedInv(p)'
    BY <1>0, <1>2, <2>1, <2>2, <2>3, <2>4 DEF FailedInv, history
  <2> QED
    BY <1>0, <1>1, <1>4, <2>5, FailKeeps DEF history, Shaped
<1> QED
  BY <1>1, <1>3, <1>4 DEF Download

\* Check: what there is no directory for is cloned or unpacked; the source's own
\* //sub is split off.
LEMMA CheckKeeps == ASSUME IInv, NEW p \in Procs, Check(p) PROVE IInv'
<1>0. pc[p] = "check" /\ UNCHANGED <<upstream, slots, request, history>>
  BY DEF Check
<1>1. Shaped /\ FetchInv(p) /\ request[p] \in Requests
  BY <1>0, Fetching DEF Busy
<1>2. CASE Found(p)
  BY <1>0, <1>2, FoundKeeps DEF Busy
<1>3. CASE /\ Enter(p, IF target[p].git THEN "clone" ELSE "get")
           /\ target' = [target EXCEPT ![p].sub =
                 IF request[p].form = "git" THEN request[p].sub ELSE @]
           /\ UNCHANGED <<version, dest, tmp, result>>
  <2> DEFINE r == request[p]
             sub == IF r.form = "git" THEN r.sub ELSE target[p].sub
             label == IF target[p].git THEN "clone" ELSE "get"
  <2>1. /\ pc'[p] = label /\ request' = request /\ version' = version /\ dest' = dest
        /\ since' = since /\ published' = published
    BY <1>0, <1>1, <1>3 DEF Shaped, Enter, upstream, history
  <2>2. sub \in Subs /\ (DetectSourceType(r) = "registry" => sub = target[p].sub)
    BY <1>1, RegistryForm DEF FetchInv, Subs
  <2>3. target'[p] = [git |-> target[p].git, name |-> r.name,
                        ref |-> target[p].ref, sub |-> sub]
    <3>1. /\ p \in DOMAIN target
          /\ target[p] = [git |-> target[p].git, name |-> r.name, ref |-> target[p].ref,
                          sub |-> target[p].sub]
      BY <1>1 DEF Shaped, FetchInv
    <3>2. target'[p] = [target[p] EXCEPT !.sub = sub]
      BY <1>3, <3>1
    <3> QED
      BY <3>1, <3>2
  <2>4. label \in {"clone", "get"} /\ (target[p].git => label = "clone")
    OBVIOUS
  <2> HIDE DEF sub, label
  <2>5. /\ target'[p].git = target[p].git /\ target'[p].name = r.name
        /\ target'[p].ref = target[p].ref /\ target'[p].sub = sub
    BY <2>3
  <2>6. DetectSourceType(r) = "registry" => RegistryInv(p)'
    BY <1>0, <1>1, <2>1, <2>2, <2>4, <2>5 DEF FetchInv, RegistryInv
  <2>7. DetectSourceType(r) # "registry" => SourceInv(p)'
    BY <1>0, <1>1, <2>1, <2>4, <2>5 DEF FetchInv, SourceInv
  <2>8. TmpInv(p)'
    BY <2>1, <2>4 DEF TmpInv
  <2>9. FetchInv(p)'
    <3>1. target'[p] = [git |-> target'[p].git, name |-> r.name,
                        ref |-> target'[p].ref, sub |-> target'[p].sub]
      BY <2>3, <2>5
    <3> QED
      BY <1>1, <2>1, <2>2, <2>5, <2>6, <2>7, <2>8, <3>1 DEF FetchInv
  <2>10. Enter(p, label) /\ label \notin {"idle", "done", "failed"}
    BY <1>3, <2>4 DEF label
  <2> QED
    BY <1>0, <1>1, <1>3, <2>9, <2>10, FetchKeeps DEF Shaped
<1> QED
  BY <1>2, <1>3 DEF Check

\* What is downloaded is a tree.
LEMMA TreeIsOne ==
    ASSUME NEW name \in Upstream, NEW ref \in Versions \cup {Main}, NEW at \in 0 .. MaxHead
    PROVE  /\ TreeAt(name, ref, at) \in Trees /\ TreeAt(name, ref, at) # Empty
           /\ TreeAt(name, ref, at).of = name /\ TreeAt(name, ref, at).ref = ref
           /\ TreeAt(name, Main, at).at = at
<1>1. TreeAt(name, ref, at) \in Trees
  BY MaxHeadAssumption DEF TreeAt, Trees
<1>2. TreeAt(name, ref, at) # Empty
  BY <1>1, NameAssumption DEF Trees
<1> QED
  BY <1>1, <1>2 DEF TreeAt

\* Clone: the branch's files, and what is there to be checked out.
LEMMA CloneKeeps == ASSUME IInv, NEW p \in Procs, Clone(p) PROVE IInv'
<1> DEFINE r == request[p]
           new == [tree |-> TreeAt(r.name, Main, head[r.name]),
                   tags |-> published[r.name] \cup {Main}]
           label == IF target[p].ref = None THEN "rename" ELSE "checkout"
<1>0. pc[p] = "clone" /\ UNCHANGED <<upstream, slots, request, history>>
  BY DEF Clone
<1>1. /\ Shaped /\ FetchInv(p) /\ r \in Requests /\ target[p].name = r.name
      /\ published[r.name] \subseteq Versions /\ head[r.name] \in 0 .. MaxHead
      /\ r.name \in Upstream
  BY <1>0, Fetching DEF Busy
<1>2. /\ pc'[p] = label /\ request' = request /\ version' = version /\ dest' = dest
      /\ since' = since /\ published' = published /\ target' = target
      /\ tmp' = [tmp EXCEPT ![p] = new] /\ tmp'[p] = new /\ ~r.dotgit
  BY <1>0, <1>1 DEF Clone, Shaped, Enter, upstream, history
<1>3. /\ new.tree \in Trees /\ new.tree # Empty /\ new.tree.of = r.name /\ new.tree.ref = Main
      /\ new.tree.at \in 0 .. MaxHead /\ new.tags = published[r.name] \cup {Main}
      /\ new = [tree |-> new.tree, tags |-> new.tags]
  BY <1>1, TreeIsOne
<1>4. /\ label \in {"rename", "checkout"} /\ (label = "rename" <=> target[p].ref = None)
      /\ label \notin {"idle", "done", "failed"}
  OBVIOUS
<1> HIDE DEF new, label
<1>5. TmpInv(p)'
  BY <1>1, <1>2, <1>3, <1>4 DEF TmpInv, FetchInv, Holds, Effective
<1>6. DetectSourceType(r) = "registry" => RegistryInv(p)'
  BY <1>0, <1>1, <1>2, <1>3, <1>4 DEF FetchInv, RegistryInv
<1>7. DetectSourceType(r) # "registry" => SourceInv(p)'
  BY <1>0, <1>1, <1>2, <1>4 DEF FetchInv, SourceInv
<1>8. FetchInv(p)'
  BY <1>1, <1>2, <1>5, <1>6, <1>7 DEF FetchInv
<1>9. Enter(p, label) /\ UNCHANGED result
  BY DEF Clone, label
<1> QED
  BY <1>0, <1>1, <1>2, <1>4, <1>8, <1>9, FetchKeeps DEF Shaped

\* Checkout: of a ref that the clone has; one that was there is.
LEMMA CheckoutKeeps == ASSUME IInv, NEW p \in Procs, Checkout(p) PROVE IInv'
<1> DEFINE r == request[p]
           ref == target[p].ref
           tree == TreeAt(r.name, ref, tmp[p].tree.at)
<1>0. pc[p] = "checkout" /\ UNCHANGED <<upstream, slots, request, history>>
  BY DEF Checkout
<1>1. /\ Shaped /\ FetchInv(p) /\ r \in Requests /\ target[p].name = r.name
      /\ r.name \in Upstream
  BY <1>0, Fetching DEF Busy
<1>2. /\ ref # None /\ tmp[p].tree.at \in 0 .. MaxHead
      /\ since[p] \cup {Main} \subseteq tmp[p].tags
      /\ tmp[p].tags \subseteq Versions \cup {Main}
      /\ tmp[p] = [tree |-> tmp[p].tree, tags |-> tmp[p].tags]
  BY <1>0, <1>1 DEF FetchInv, TmpInv
<1>3. CASE /\ ref \in tmp[p].tags /\ tmp' = [tmp EXCEPT ![p].tree = tree]
           /\ Enter(p, "rename") /\ UNCHANGED <<version, target, dest, result>>
  <2>1. /\ pc'[p] = "rename" /\ request' = request /\ version' = version /\ dest' = dest
        /\ since' = since /\ published' = published /\ target' = target
    BY <1>0, <1>1, <1>3 DEF Shaped, Enter, upstream, history
  <2>2. tree \in Trees /\ tree # Empty /\ tree.of = r.name /\ tree.ref = ref
    BY <1>1, <1>2, <1>3, TreeIsOne
  <2> HIDE DEF tree
  <2>3. tmp'[p].tree = tree
    BY <1>1, <1>2, <1>3 DEF Shaped
  <2>4. TmpInv(p)'
    BY <1>1, <1>2, <2>1, <2>2, <2>3 DEF TmpInv, Holds, Effective
  <2>5. DetectSourceType(r) = "registry" => RegistryInv(p)'
    BY <1>0, <1>1, <2>1 DEF FetchInv, RegistryInv
  <2>6. DetectSourceType(r) # "registry" => SourceInv(p)'
    BY <1>0, <1>1, <2>1 DEF FetchInv, SourceInv
  <2>7. FetchInv(p)'
    BY <1>1, <2>1, <2>4, <2>5, <2>6 DEF FetchInv
  <2> QED
    BY <1>0, <1>1, <1>3, <2>7, FetchKeeps DEF Shaped
<1>4. CASE ref \notin tmp[p].tags /\ Return(p, None)
  <2>1. DetectSourceType(r) # "registry"
    BY <1>0, <1>1, <1>4 DEF FetchInv, RegistryInv
  <2>2. ref = r.ref
    BY <1>1, <2>1 DEF FetchInv, SourceInv
  <2>3. FailedInv(p)'
    BY <1>0, <1>1, <1>2, <1>4, <2>1, <2>2, RegistryForm DEF FailedInv, history
  <2> QED
    BY <1>0, <1>1, <1>4, <2>3, FailKeeps DEF history, Shaped
<1> QED
  BY <1>1, <1>3, <1>4 DEF Checkout

\* Get: an empty directory to unpack into.
LEMMA GetKeeps == ASSUME IInv, NEW p \in Procs, Get(p) PROVE IInv'
<1> DEFINE r == request[p]
<1>0. pc[p] = "get" /\ UNCHANGED <<upstream, slots, request, version,
                                   target, dest, result, history>>
  BY DEF Get
<1>1. Shaped /\ FetchInv(p) /\ r \in Requests
  BY <1>0, Fetching DEF Busy
<1>2. /\ pc'[p] = "unpack" /\ tmp'[p] = [tree |-> Empty, tags |-> {}]
      /\ since' = since /\ published' = published
  BY <1>0, <1>1 DEF Get, Shaped, Enter, upstream, history
<1>3. TmpInv(p)'
  BY <1>2 DEF TmpInv
<1>4. DetectSourceType(r) = "registry" => RegistryInv(p)'
  BY <1>0, <1>1, <1>2 DEF FetchInv, RegistryInv
<1>5. DetectSourceType(r) # "registry" => SourceInv(p)'
  BY <1>0, <1>1, <1>2 DEF FetchInv, SourceInv
<1>6. FetchInv(p)'
  BY <1>0, <1>1, <1>2, <1>3, <1>4, <1>5 DEF FetchInv
<1> QED
  BY <1>0, <1>1, <1>6, FetchKeeps DEF Get, Shaped

\* Unpack: the archive of the ref, whole.
LEMMA UnpackKeeps == ASSUME IInv, NEW p \in Procs, Unpack(p) PROVE IInv'
<1> DEFINE r == request[p]
           ref == Effective(target[p].ref)
           tree == IF r.name \in EmptyArchives THEN Empty
                   ELSE TreeAt(r.name, ref, head[r.name])
<1>0. /\ pc[p] = "unpack"
      /\ UNCHANGED <<upstream, slots, request, version, target, dest, result, history>>
  BY DEF Unpack
<1>1. /\ Shaped /\ FetchInv(p) /\ r \in Requests /\ target[p].name = r.name
      /\ r.name \in Upstream /\ published[r.name] \subseteq Versions
      /\ head[r.name] \in 0 .. MaxHead
  BY <1>0, Fetching DEF Busy
<1>2. target[p].ref \in Versions \cup {Main, None}
  BY <1>0, <1>1, RegistryForm DEF FetchInv, RegistryInv, SourceInv
<1>3. Holds(tree, r.name, ref)
  BY <1>1, <1>2, TreeIsOne DEF Holds, Effective
<1>4. /\ pc'[p] = "rename" /\ tmp' = [tmp EXCEPT ![p].tree = tree]
      /\ since' = since /\ published' = published
  BY <1>0, <1>1 DEF Unpack, Shaped, Enter, upstream, history, Effective
<1> HIDE DEF tree, ref
<1>5. tmp'[p].tree = tree
  <2>1. tmp[p] = [tree |-> tmp[p].tree, tags |-> tmp[p].tags]
    BY <1>0, <1>1 DEF FetchInv, TmpInv
  <2> QED
    BY <1>1, <1>4, <2>1 DEF Shaped
<1>6. TmpInv(p)'
  BY <1>0, <1>3, <1>4, <1>5 DEF TmpInv, ref
<1>7. DetectSourceType(r) = "registry" => RegistryInv(p)'
  BY <1>0, <1>1, <1>4 DEF FetchInv, RegistryInv
<1>8. DetectSourceType(r) # "registry" => SourceInv(p)'
  BY <1>0, <1>1, <1>4 DEF FetchInv, SourceInv
<1>9. FetchInv(p)'
  BY <1>0, <1>1, <1>4, <1>6, <1>7, <1>8 DEF FetchInv
<1>10. Enter(p, "rename")
  BY DEF Unpack
<1> QED
  BY <1>0, <1>1, <1>4, <1>9, <1>10, FetchKeeps DEF Shaped

\* RequestFails: the one failure that is nobody else's.
LEMMA RequestFailsKeeps == ASSUME IInv, NEW p \in Procs, RequestFails(p) PROVE IInv'
<1>1. /\ trouble' = [trouble EXCEPT ![p] = TRUE] /\ Return(p, None)
      /\ UNCHANGED <<upstream, slots, request, since>> /\ Shaped
  BY DEF RequestFails, IInv
<1>2. FailedInv(p)'
  BY <1>1 DEF FailedInv, Shaped
<1> QED
  BY <1>1, <1>2, FailKeeps DEF Shaped

\* Fill: a new directory holds what its name says, and the others what they did.
LEMMA FillKeeps ==
    ASSUME IInv, NEW p \in Procs, pc[p] = "rename", dest[p] \notin DOMAIN slots, Fill(p),
           UNCHANGED upstream
    PROVE  SlotsInv' /\ DOMAIN slots' = DOMAIN slots \cup {dest[p]}
<1> DEFINE r == request[p]
<1>1. /\ SlotsInv /\ FetchInv(p) /\ r \in Requests /\ r.name \in Upstream
      /\ published[r.name] \subseteq Versions /\ published' = published
  BY Fetching DEF Busy, upstream
<1>0. PICK own : own = dest[p]
  OBVIOUS
<1>2. /\ DOMAIN slots' = DOMAIN slots \cup {own} /\ slots'[own] = tmp[p].tree
      /\ \A key \in DOMAIN slots : slots'[key] = slots[key]
  BY <1>0 DEF Fill
<1>3. Holds(tmp[p].tree, r.name, Effective(target[p].ref))
  BY <1>1 DEF FetchInv, TmpInv
<1>4. SlotOK(own)'
  <2>1. CASE DetectSourceType(r) = "registry"
    <3>1. /\ own = <<"registry", r.name, version[p]>>
          /\ version[p] \in Versions \cup {Latest} /\ target[p].ref \in published[r.name]
          /\ version[p] \in Versions => target[p].ref = version[p]
      BY <1>0, <1>1, <2>1 DEF FetchInv, RegistryInv, RegistryKey, Chosen
    <3>2. Effective(target[p].ref) = target[p].ref
      BY <1>1, <3>1, NameAssumption DEF Effective
    <3> QED
      BY <1>1, <1>2, <1>3, <3>1, <3>2 DEF SlotOK, Holds
  <2>2. CASE DetectSourceType(r) # "registry"
    <3>1. own = SourceKey(r) /\ target[p].ref = r.ref /\ ~r.dotgit
      BY <1>0, <1>1, <2>2 DEF FetchInv, SourceInv
    <3> QED
      BY <1>1, <1>2, <1>3, <3>1 DEF SlotOK, Holds, SourceKey
  <2> QED
    BY <2>1, <2>2
<1>5. ASSUME NEW key \in DOMAIN slots PROVE SlotOK(key)'
  BY <1>1, <1>2 DEF SlotsInv, SlotOK, Holds
<1> QED
  BY <1>0, <1>2, <1>4, <1>5 DEF SlotsInv

\* A directory that is there and has no files is one of an empty archive.
LEMMA EmptyIsOfEmpty ==
    ASSUME IInv, NEW p \in Procs, Busy(p), pc[p] # "versions", dest[p] \in DOMAIN slots,
           slots[dest[p]] = Empty
    PROVE  request[p].name \in EmptyArchives
<1> DEFINE r == request[p]
<1>1. SlotOK(dest[p]) /\ FetchInv(p)
  BY Fetching DEF SlotsInv
<1>2. \/ dest[p] = <<"registry", r.name, version[p]>>
      \/ dest[p] = <<"source", r.name, r.ref, r.sub, r.dotgit>>
  BY <1>1 DEF FetchInv, RegistryInv, SourceInv, RegistryKey, SourceKey
<1> QED
  BY <1>1, <1>2 DEF SlotOK, Holds, SourceKey

\* Rename: the directory is put in its place, or somebody else's is as good.
LEMMA RenameKeeps == ASSUME IInv, NEW p \in Procs, Rename(p) PROVE IInv'
<1>0. pc[p] = "rename" /\ UNCHANGED <<upstream, request, history>>
  BY DEF Rename
<1>1. Shaped /\ UpstreamInv
  BY DEF IInv
<1>2. CASE /\ dest[p] \notin DOMAIN slots /\ Fill(p)
           /\ Return(p, Dir(dest[p], target[p].sub))
  <2>1. SlotsInv' /\ DOMAIN slots' = DOMAIN slots \cup {dest[p]}
    BY <1>0, <1>2, FillKeeps
  <2>2. ProcInv(p)'
    BY <1>0, <1>2, <2>1, ReturnedThere DEF Busy, history
  <2>3. Shaped' /\ \A q \in Procs \ {p} : Same(q)
    BY <1>0, <1>1, <1>2, ReturnShape DEF history, Shaped
  <2>4. Grows /\ UpstreamInv'
    BY <1>0, <1>1, <2>1 DEF Grows, UpstreamInv, upstream
  <2>5. \A q \in Procs \ {p} : ProcInv(q)'
    BY <2>3, <2>4, ProcFrame DEF IInv
  <2> QED
    BY <2>1, <2>2, <2>3, <2>4, <2>5 DEF IInv
<1>3. CASE Found(p) /\ UNCHANGED slots
  BY <1>0, <1>3, FoundKeeps DEF Busy
<1>4. CASE dest[p] \in DOMAIN slots /\ ~HasFiles(dest[p]) /\ Return(p, None) /\ UNCHANGED slots
  <2>1. request[p].name \in EmptyArchives
    BY <1>0, <1>4, EmptyIsOfEmpty DEF HasFiles, Busy
  <2>2. FailedInv(p)'
    BY <1>0, <2>1 DEF FailedInv
  <2> QED
    BY <1>0, <1>1, <1>4, <2>2, FailKeeps DEF history, Shaped
<1> QED
  BY <1>2, <1>3, <1>4 DEF Rename

\* Stop: what has been renamed stays.
LEMMA StopKeeps == ASSUME IInv, NEW p \in Procs, Stop(p) PROVE IInv'
<1>1. Shaped /\ UNCHANGED <<upstream, slots, result, history>>
  BY DEF Stop, IInv
<1>2. Shaped' /\ (\A q \in Procs \ {p} : Same(q)) /\ pc'[p] = "idle"
  BY <1>1 DEF Stop, Shaped, Same, Enter, Forget, history
<1>3. ProcInv(p)'
  BY <1>2 DEF ProcInv, Busy
<1> QED
  BY <1>1, <1>2, <1>3, LocalStep

\* Publish and Push: upstream only grows.
LEMMA UpstreamKeeps == ASSUME IInv, Publish \/ Push PROVE IInv'
<1>1. UNCHANGED <<slots, pc, local>> /\ Shaped /\ UpstreamInv /\ SlotsInv
  BY DEF Publish, Push, IInv
<1>2. UpstreamInv' /\ \A u \in Upstream : published[u] \subseteq published'[u]
  <2>1. CASE Publish
    BY <1>1, <2>1, UpstreamAssumption DEF Publish, UpstreamInv
  <2>2. CASE Push
    BY <1>1, <2>2, UpstreamAssumption, MaxHeadAssumption DEF Push, UpstreamInv
  <2> QED
    BY <2>1, <2>2
<1>3. SlotsInv' /\ Grows
  BY <1>1, <1>2, SlotsFrame DEF Grows
<1>4. Shaped' /\ \A q \in Procs : Same(q)
  BY <1>1 DEF Shaped, Same, local, history
<1>5. \A q \in Procs : ProcInv(q)'
  BY <1>3, <1>4, ProcFrame DEF IInv
<1> QED
  BY <1>2, <1>3, <1>4, <1>5 DEF IInv

LEMMA StepKeeps == IInv /\ [Next]_vars => IInv'
<1> SUFFICES ASSUME IInv, [Next]_vars PROVE IInv'
  OBVIOUS
<1>1. CASE UNCHANGED vars
  <2>1. /\ Grows /\ UNCHANGED slots /\ \A q \in Procs : Same(q)
        /\ \A u \in Upstream : published[u] \subseteq published'[u]
    BY <1>1 DEF vars, upstream, local, history, Grows, Same
  <2>2. UpstreamInv' /\ Shaped' /\ SlotsInv'
    BY <1>1, <2>1, SlotsFrame DEF IInv, UpstreamInv, Shaped, vars, upstream, local, history
  <2> QED
    BY <2>1, <2>2, ProcFrame DEF IInv
<1>2. CASE Publish \/ Push
  BY <1>2, UpstreamKeeps
<1>3. ASSUME NEW p \in Procs,
             \/ Resolve(p) \/ ListVersions(p) \/ Lookup(p) \/ Download(p) \/ Check(p)
             \/ Clone(p) \/ Checkout(p) \/ Get(p) \/ Unpack(p) \/ RequestFails(p)
             \/ Rename(p) \/ Stop(p)
      PROVE  IInv'
  BY <1>3, ResolveKeeps, ListVersionsKeeps, LookupKeeps, DownloadKeeps, CheckKeeps,
     CloneKeeps, CheckoutKeeps, GetKeeps, UnpackKeeps, RequestFailsKeeps, RenameKeeps,
     StopKeeps
<1> QED
  BY <1>1, <1>2, <1>3 DEF Next

LEMMA Invariant == Spec => []IInv
BY InitHolds, StepKeeps, PTL DEF Spec

-----------------------------------------------------------------------------
(* The properties.                                                         *)

\* A directory returned by a registry's name or by a source's: what it holds.
LEMMA ReturnedHolds ==
    ASSUME IInv, NEW p \in Procs, Returned(p)
    PROVE  LET r == request[p]
               key == result[p].slot
           IN  /\ r \in Requests /\ key \in DOMAIN slots
               /\ r.form = "registry" =>
                    /\ result[p].sub = r.sub
                    /\ \E v \in Versions \cup {Latest}, ref \in published[r.name] :
                          /\ Chosen(r, v, since[p])
                          /\ v \in Versions => ref = v
                          /\ Holds(slots[key], r.name, ref)
               /\ r.form # "registry" => Holds(slots[key], r.name, Effective(r.ref))
<1> DEFINE r == request[p]
           key == result[p].slot
<1>1. DoneInv(p) /\ key \in DOMAIN slots /\ SlotOK(key) /\ r \in Requests
  BY DEF IInv, ProcInv, Returned, DoneInv, SlotsInv
<1>2. CASE DetectSourceType(r) = "registry"
  <2>1. PICK v \in Versions \cup {Latest} :
              key = <<"registry", r.name, v>> /\ Chosen(r, v, since[p])
    BY <1>1, <1>2 DEF DoneInv, Returned, RegistryKey
  <2>2. PICK ref \in published[r.name] :
              (v \in Versions => ref = v) /\ Holds(slots[key], r.name, ref)
    BY <1>1, <2>1 DEF SlotOK, SourceKey
  <2> QED
    BY <1>1, <1>2, <2>1, <2>2, RegistryForm DEF DoneInv, Returned
<1>3. CASE DetectSourceType(r) # "registry"
  <2>1. key = SourceKey(r)
    BY <1>1, <1>3 DEF DoneInv, Returned
  <2>2. PICK s \in Requests : /\ key = SourceKey(s) /\ ~s.dotgit
                              /\ Holds(slots[key], s.name, Effective(s.ref))
    BY <1>1, <2>1 DEF SlotOK, SourceKey
  <2>3. s.name = r.name /\ s.ref = r.ref /\ s.dotgit = r.dotgit
    BY <2>1, <2>2 DEF SourceKey
  <2>4. r.form # "registry"
    BY <1>1, <1>3, <2>2, <2>3, RegistryForm
  <2> QED
    BY <1>1, <2>2, <2>3, <2>4
<1> QED
  BY <1>2, <1>3

\* What a fetch returns is complete, of the project, and at the ref or version
\* asked for.
THEOREM ResultCorrect == Spec => []ResultIsWhatWasAsked
<1>1. IInv => ResultIsWhatWasAsked
  <2> SUFFICES ASSUME IInv, NEW p \in Procs, Returned(p)
               PROVE  LET r == request[p]
                          tree == slots[result[p].slot]
                      IN  /\ result[p].slot \in DOMAIN slots
                          /\ tree = Empty => r.name \in EmptyArchives
                          /\ tree # Empty =>
                               /\ tree.of = r.name
                               /\ r.form = "registry" =>
                                    /\ tree.ref \in published[r.name]
                                    /\ r.version \in Versions /\ r.constraint = {}
                                         => tree.ref = r.version
                                    /\ result[p].sub = r.sub
                               /\ r.form # "registry" =>
                                    tree.ref = IF r.ref = None THEN Main ELSE r.ref
    BY DEF ResultIsWhatWasAsked
  <2>1. CASE request[p].form = "registry"
    BY <2>1, ReturnedHolds DEF Holds, Chosen
  <2>2. CASE request[p].form # "registry"
    BY <2>2, ReturnedHolds DEF Holds, Effective
  <2> QED
    BY <2>1, <2>2
<1> QED
  BY <1>1, Invariant, PTL

\* A constraint is met by the newest version that meets it.
THEOREM NewestCorrect == Spec => []NewestSatisfies
<1>1. IInv => NewestSatisfies
  <2> SUFFICES ASSUME IInv, NEW p \in Procs, Returned(p), request[p].constraint # {},
                      slots[result[p].slot] # Empty
               PROVE  /\ slots[result[p].slot].ref \in request[p].constraint
                      /\ \A v \in since[p] \cap request[p].constraint :
                            v <= slots[result[p].slot].ref
    BY DEF NewestSatisfies
  <2>1. request[p].form = "registry" /\ request[p].constraint \subseteq Versions
    BY ReturnedHolds, RegistryForm
  <2>2. PICK v \in Versions \cup {Latest}, ref \in published[request[p].name] :
              /\ Chosen(request[p], v, since[p])
              /\ v \in Versions => ref = v
              /\ Holds(slots[result[p].slot], request[p].name, ref)
    BY <2>1, ReturnedHolds
  <2> QED
    BY <2>1, <2>2 DEF Chosen, Holds
<1> QED
  BY <1>1, Invariant, PTL

\* A fetch of something that exists fails only when a request of its own does.
THEOREM FailuresCorrect == Spec => []OnlyRequestsFail
<1>1. IInv => OnlyRequestsFail
  BY DEF IInv, ProcInv, FailedInv, OnlyRequestsFail
<1> QED
  BY <1>1, Invariant, PTL

\* A directory that is there stays as it is.
THEOREM SlotsCorrect == Spec => SlotsNeverChange
<1> DEFINE Kept == \A key \in DOMAIN slots : key \in DOMAIN slots' /\ slots'[key] = slots[key]
<1>1. [Next]_vars => [Kept]_vars
  <2> SUFFICES ASSUME Next PROVE Kept
    OBVIOUS
  <2>1. CASE UNCHANGED slots
    BY <2>1
  <2>2. ASSUME NEW p \in Procs, dest[p] \notin DOMAIN slots, Fill(p) PROVE Kept
    BY <2>2 DEF Fill
  <2>3. ASSUME NEW p \in Procs, Rename(p) PROVE Kept
    BY <2>1, <2>2, <2>3 DEF Rename
  <2>4. ASSUME ~ \E p \in Procs : Rename(p) PROVE UNCHANGED slots
    BY <2>4 DEF Next, Publish, Push, Resolve, ListVersions, Lookup, Download, Check, Clone,
       Checkout, Get, Unpack, RequestFails, Stop
  <2> QED
    BY <2>1, <2>3, <2>4
<1> QED
  BY <1>1, PTL DEF Spec, SlotsNeverChange
=============================================================================
