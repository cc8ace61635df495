--------------------------- MODULE ModuleFetcher ---------------------------
(***************************************************************************)
(* ModuleFetcher of internal/parser/terraform: processes that resolve the  *)
(* sources of module blocks through one directory of downloads, while the  *)
(* registry, the repositories and the archives they come from change, any  *)
(* request may fail and any process may be stopped.                        *)
(*                                                                         *)
(* What is upstream is a set of projects, each with a branch that moves    *)
(* and with published versions that do not: the tags of a repository, the  *)
(* versions of a registry's module.  A directory is what it was filled     *)
(* from: [of, ref, at], or Empty.                                          *)
(***************************************************************************)
EXTENDS Integers, FiniteSetsExt, Functions, TLC

CONSTANTS
    Procs,
    Upstream,       \* the projects
    EmptyArchives,  \* those whose archive has no files
    ByGit,          \* those the registry redirects to a repository
    Requests,       \* sources of module blocks: [form, name, ref, sub, dotgit,
                    \* version, constraint, manifest, offline]
    Changing,       \* the projects that change
    MaxVersion,     \* bound: versions published
    MaxHead,        \* bound: moves of a branch
    Main, Latest, Empty, None

ASSUME MaxVersionAssumption == MaxVersion \in Nat \ {0}
ASSUME MaxHeadAssumption == MaxHead \in Nat
ASSUME UpstreamAssumption == ByGit \cup EmptyArchives \cup Changing \subseteq Upstream

Versions == 1 .. MaxVersion

\* Only a registry has versions to choose from; Latest is what no version means.
ASSUME RequestAssumption ==
    \A r \in Requests :
        /\ r.name \in Upstream
        /\ r.ref \in Versions \cup {Main, None}
        /\ {r.dotgit, r.manifest, r.offline} \subseteq BOOLEAN
        /\ r.constraint \subseteq Versions
        /\ r.constraint # {} => r.form = "registry"
        /\ r.form = "registry" /\ r.constraint = {} => r.version \in Versions \cup {Latest}
ASSUME NameAssumption ==
    /\ {Main, Latest, None} \cap Versions = {} /\ None # Main
    /\ Empty \notin [of : Upstream, ref : Versions \cup {Main}, at : 0 .. MaxHead]

VARIABLES
    published, head,    \* upstream
    slots,              \* the directories of the cache that exist
    pc,
    request,            \* of each process, and what it has found out:
    version,            \* the registry's version
    target,             \* what is downloaded: [git, name, ref, sub]
    dest,               \* where to
    tmp,                \* its temporary directory
    result,             \* the directory returned
    since,              \* history: the versions there were when it began
    trouble             \* history: a request of its own has failed

upstream == <<published, head>>
history == <<since, trouble>>
local == <<request, version, target, dest, tmp, result, history>>
vars == <<upstream, slots, pc, local>>

TreeAt(name, ref, at) == [of |-> name, ref |-> ref, at |-> IF ref = Main THEN at ELSE 0]

Init ==
    /\ published = [u \in Upstream |-> {1}] /\ head = [u \in Upstream |-> 0]
    /\ slots = <<>>
    /\ pc = [p \in Procs |-> "idle"]
    /\ request = [p \in Procs |-> None] /\ version = [p \in Procs |-> None]
    /\ target = [p \in Procs |-> None] /\ dest = [p \in Procs |-> None]
    /\ tmp = [p \in Procs |-> None] /\ result = [p \in Procs |-> None]
    /\ since = [p \in Procs |-> {}] /\ trouble = [p \in Procs |-> FALSE]

Publish ==
    /\ \E u \in Changing, v \in Versions :
          /\ v \notin published[u]
          /\ published' = [published EXCEPT ![u] = @ \cup {v}]
    /\ UNCHANGED <<head, slots, pc, local>>

Push ==
    /\ \E u \in Changing :
          /\ head[u] < MaxHead
          /\ head' = [head EXCEPT ![u] = @ + 1]
    /\ UNCHANGED <<published, slots, pc, local>>

-----------------------------------------------------------------------------

\* dirHasFiles
HasFiles(key) == key \in DOMAIN slots /\ slots[key] # Empty

\* The text ".git" anywhere makes a repository of an archive's address.
DetectSourceType(r) ==
    CASE r.form = "path" -> "local"
      [] r.form # "path" /\ (r.form = "git" \/ r.dotgit) -> "git"
      [] r.form = "url" /\ ~r.dotgit -> "http"
      [] r.form = "registry" /\ ~r.dotgit -> "registry"
      [] OTHER -> "unknown"

RegistryKey(r, v) == <<"registry", r.name, v>>

\* The whole source, its ref and its //sub included, is hashed; a git:: before it
\* is not.
SourceKey(r) == <<"source", r.name, r.ref, r.sub, r.dotgit>>

Dir(key, sub) == [slot |-> key, sub |-> sub]

\* What there can be directories for.
Keys ==
    {RegistryKey(r, v) : r \in Requests, v \in Versions \cup {Latest}}
      \cup {SourceKey(r) : r \in Requests}
Subs == {""} \cup {r.sub : r \in Requests}

ASSUME DirAssumption ==
    \A sub \in Subs : /\ Dir("in place", sub) # None
                      /\ \A key \in Keys : Dir(key, sub) # None

Enter(p, label) == pc' = [pc EXCEPT ![p] = label]

Forget(p) ==
    /\ version' = [version EXCEPT ![p] = None] /\ target' = [target EXCEPT ![p] = None]
    /\ dest' = [dest EXCEPT ![p] = None] /\ tmp' = [tmp EXCEPT ![p] = None]

Return(p, dir) ==
    /\ result' = [result EXCEPT ![p] = dir]
    /\ Enter(p, IF dir = None THEN "failed" ELSE "done")
    /\ Forget(p)

\* resolveModuleSource and Fetch: local modules, and those terraform init has
\* laid out, are used in place; offline, the others are left out.
Resolve(p) ==
    /\ pc[p] \in {"idle", "done", "failed"}
    /\ \E r \in Requests :
        LET type == DetectSourceType(r)
            inPlace == type = "local" \/ r.manifest
            skipped == ~inPlace /\ (r.offline \/ type = "unknown")
        IN  /\ request' = [request EXCEPT ![p] = r]
            /\ since' = [since EXCEPT ![p] = published[r.name]]
            /\ \/ inPlace /\ Return(p, Dir("in place", ""))
               \/ skipped /\ Return(p, None)
               \/ /\ ~inPlace /\ ~skipped
                  /\ version' = [version EXCEPT ![p] = r.version]
                  /\ target' = [target EXCEPT ![p] =
                       [git |-> type = "git", name |-> r.name, ref |-> r.ref,
                        sub |-> IF type = "registry" THEN r.sub ELSE ""]]
                  /\ dest' = [dest EXCEPT ![p] = IF type = "registry"
                                                 THEN RegistryKey(r, r.version)
                                                 ELSE SourceKey(r)]
                  /\ result' = [result EXCEPT ![p] = None]
                  /\ Enter(p, IF type # "registry" THEN "check"
                              ELSE IF r.constraint # {} THEN "versions" ELSE "lookup")
                  /\ UNCHANGED tmp
    /\ trouble' = [trouble EXCEPT ![p] = FALSE]
    /\ UNCHANGED <<upstream, slots>>

\* Faulty Pick: the first match of the list.
PickAny(constraint, list) == Min(constraint \cap list)

Pick(constraint, list) == Max(constraint \cap list)

\* resolveRegistryVersion
ListVersions(p) ==
    /\ pc[p] = "versions"
    /\ LET r == request[p]  list == published[r.name]
       IN  \/ /\ r.constraint \cap list # {}
              /\ version' = [version EXCEPT ![p] = Pick(r.constraint, list)]
              /\ dest' = [dest EXCEPT ![p] = RegistryKey(r, Pick(r.constraint, list))]
              /\ Enter(p, "lookup")
              /\ UNCHANGED <<target, tmp, result>>
           \/ r.constraint \cap list = {} /\ Return(p, None)
    /\ UNCHANGED <<upstream, slots, request, history>>

Found(p) == HasFiles(dest[p]) /\ Return(p, Dir(dest[p], target[p].sub))

\* fetchRegistry, before it asks where to download from.
Lookup(p) ==
    /\ pc[p] = "lookup"
    /\ \/ Found(p)
       \/ /\ ~HasFiles(dest[p]) /\ Enter(p, "download")
          /\ UNCHANGED <<version, target, dest, tmp, result>>
    /\ UNCHANGED <<upstream, slots, request, history>>

\* X-Terraform-Get; a version that does not exist has none.
Download(p) ==
    /\ pc[p] = "download"
    /\ LET name == target[p].name
           v == IF version[p] = Latest THEN Max(published[name]) ELSE version[p]
       IN  \/ /\ v \in published[name]
              /\ target' = [target EXCEPT ![p].git = name \in ByGit, ![p].ref = v]
              /\ Enter(p, "check")
              /\ UNCHANGED <<version, dest, tmp, result>>
           \/ v \notin published[name] /\ Return(p, None)
    /\ UNCHANGED <<upstream, slots, request, history>>

\* fetchGitInto, fetchArchiveInto: a hit comes before the source's own //sub is
\* split off.
Check(p) ==
    /\ pc[p] = "check"
    /\ \/ Found(p)
       \/ /\ ~HasFiles(dest[p])
          /\ Enter(p, IF target[p].git THEN "clone" ELSE "get")
          /\ target' = [target EXCEPT ![p].sub =
                IF request[p].form = "git" THEN request[p].sub ELSE @]
          /\ UNCHANGED <<version, dest, tmp, result>>
    /\ UNCHANGED <<upstream, slots, request, history>>

\* Faulty Clone: what has been cloned is put in its place to be checked out.
CloneInPlace(p) ==
    /\ pc[p] = "clone" /\ ~request[p].dotgit
    /\ LET name == target[p].name
       IN  /\ tmp' = [tmp EXCEPT ![p] =
                [tree |-> TreeAt(name, Main, head[name]), tags |-> published[name] \cup {Main}]]
           /\ slots' = slots @@ (dest[p] :> TreeAt(name, Main, head[name]))
    /\ Enter(p, IF target[p].ref = None THEN "rename" ELSE "checkout")
    /\ UNCHANGED <<upstream, request, version, target, dest, result, history>>

\* The clone has every ref of that moment, and the branch's files.
Clone(p) ==
    /\ pc[p] = "clone" /\ ~request[p].dotgit
    /\ LET name == target[p].name
       IN  tmp' = [tmp EXCEPT ![p] =
              [tree |-> TreeAt(name, Main, head[name]), tags |-> published[name] \cup {Main}]]
    /\ Enter(p, IF target[p].ref = None THEN "rename" ELSE "checkout")
    /\ UNCHANGED <<upstream, slots, request, version, target, dest, result, history>>

Checkout(p) ==
    /\ pc[p] = "checkout"
    /\ LET ref == target[p].ref
       IN  \/ /\ ref \in tmp[p].tags
              /\ tmp' = [tmp EXCEPT ![p].tree = TreeAt(target[p].name, ref, tmp[p].tree.at)]
              /\ Enter(p, "rename")
              /\ UNCHANGED <<version, target, dest, result>>
           \/ ref \notin tmp[p].tags /\ Return(p, None)
    /\ UNCHANGED <<upstream, slots, request, history>>

\* An archive is unpacked into the temporary directory, file by file.
Get(p) ==
    /\ pc[p] = "get"
    /\ tmp' = [tmp EXCEPT ![p] = [tree |-> Empty, tags |-> {}]]
    /\ Enter(p, "unpack")
    /\ UNCHANGED <<upstream, slots, request, version, target, dest, result, history>>

Unpack(p) ==
    /\ pc[p] = "unpack"
    /\ LET name == target[p].name
           ref == IF target[p].ref = None THEN Main ELSE target[p].ref
       IN  tmp' = [tmp EXCEPT ![p].tree =
              IF name \in EmptyArchives THEN Empty ELSE TreeAt(name, ref, head[name])]
    /\ Enter(p, "rename")
    /\ UNCHANGED <<upstream, slots, request, version, target, dest, result, history>>

\* Any request, and unpacking, may fail; the temporary directory is removed.
RequestFails(p) ==
    /\ pc[p] \in {"versions", "download", "clone", "checkout", "get", "unpack"}
    /\ trouble' = [trouble EXCEPT ![p] = TRUE]
    /\ Return(p, None)
    /\ UNCHANGED <<upstream, slots, request, since>>

Fill(p) ==
    slots' = [key \in DOMAIN slots \cup {dest[p]} |->
                IF key = dest[p] THEN tmp[p].tree ELSE slots[key]]

\* Faulty Rename: whatever is in the way is removed first.
RenameOver(p) ==
    /\ pc[p] = "rename"
    /\ Fill(p)
    /\ Return(p, Dir(dest[p], target[p].sub))
    /\ UNCHANGED <<upstream, request, history>>

\* Faulty Rename: an error is an error.
RenameStrict(p) ==
    /\ pc[p] = "rename"
    /\ \/ dest[p] \notin DOMAIN slots /\ Fill(p) /\ Return(p, Dir(dest[p], target[p].sub))
       \/ dest[p] \in DOMAIN slots /\ Return(p, None) /\ UNCHANGED slots
    /\ UNCHANGED <<upstream, request, history>>

\* os.Rename replaces no directory, not even an empty one; that somebody else
\* has filled it is as good.
Rename(p) ==
    /\ pc[p] = "rename"
    /\ \/ dest[p] \notin DOMAIN slots /\ Fill(p) /\ Return(p, Dir(dest[p], target[p].sub))
       \/ dest[p] \in DOMAIN slots /\ Found(p) /\ UNCHANGED slots
       \/ dest[p] \in DOMAIN slots /\ ~HasFiles(dest[p]) /\ Return(p, None) /\ UNCHANGED slots
    /\ UNCHANGED <<upstream, request, history>>

\* The process is stopped; its temporary directory stays, under a name that is
\* nobody's key.
Stop(p) ==
    /\ pc[p] \notin {"idle", "done", "failed"}
    /\ Enter(p, "idle")
    /\ Forget(p)
    /\ request' = [request EXCEPT ![p] = None]
    /\ UNCHANGED <<upstream, slots, result, history>>

Next ==
    \/ Publish \/ Push
    \/ \E p \in Procs :
          \/ Resolve(p) \/ ListVersions(p) \/ Lookup(p) \/ Download(p) \/ Check(p)
          \/ Clone(p) \/ Checkout(p) \/ Get(p) \/ Unpack(p) \/ RequestFails(p)
          \/ Rename(p) \/ Stop(p)

Spec == Init /\ [][Next]_vars

-----------------------------------------------------------------------------
(* Properties.                                                             *)

Returned(p) == pc[p] = "done" /\ result[p].slot # "in place"

\* A directory returned is complete, of the project asked for, and at the ref
\* or version asked for, whoever filled it and however long ago: never the
\* branch a clone begins with, a part of an archive, another version's files.
\* A registry module's //submodule is kept.
ResultIsWhatWasAsked ==
    \A p \in Procs : Returned(p) =>
        LET r == request[p]
            tree == slots[result[p].slot]
        IN  /\ result[p].slot \in DOMAIN slots
            /\ tree = Empty => r.name \in EmptyArchives
            /\ tree # Empty =>
                 /\ tree.of = r.name
                 /\ r.form = "registry" =>
                      /\ tree.ref \in published[r.name]
                      /\ r.version \in Versions /\ r.constraint = {} => tree.ref = r.version
                      /\ result[p].sub = r.sub
                 /\ r.form # "registry" =>
                      tree.ref = IF r.ref = None THEN Main ELSE r.ref

\* A constraint is met by the newest version that meets it, of those published
\* when the fetch began or since.
NewestSatisfies ==
    \A p \in Procs :
        Returned(p) /\ request[p].constraint # {} =>
            LET tree == slots[result[p].slot]
            IN  tree # Empty =>
                  /\ tree.ref \in request[p].constraint
                  /\ \A v \in since[p] \cap request[p].constraint : v <= tree.ref

\* Two that fetch the same thing at once both get it: a fetch of something that
\* exists fails only when a request of its own does.
OnlyRequestsFail ==
    \A p \in Procs :
        LET r == request[p]
            exists == IF r.form = "registry"
                      THEN (IF r.constraint = {} THEN {r.version} ELSE r.constraint)
                             \cap (since[p] \cup {Latest}) # {}
                      ELSE r.form \in {"git", "url"} /\ r.ref \in since[p] \cup {Main, None}
        IN  /\ pc[p] = "failed" /\ exists
            /\ ~r.offline /\ ~r.dotgit /\ r.name \notin EmptyArchives
            => trouble[p]

\* A directory, once it is there, is never replaced or removed: whoever was
\* given it can go on reading.
SlotsNeverChange ==
    [][\A key \in DOMAIN slots : key \in DOMAIN slots' /\ slots'[key] = slots[key]]_vars

\* What is found in the cache is what was first returned: one source, one
\* directory.
SameSourceSameDirectory ==
    \A p, q \in Procs :
        /\ Returned(p) /\ Returned(q)
        /\ request[p] = request[q] /\ result[p].slot = result[q].slot
        => result[p] = result[q]
=============================================================================
