-------------------------- MODULE MCModuleFetcher --------------------------
(* Module blocks for TLC.                                                   *)
EXTENDS ModuleFetcher

Source(form, name) ==
    [form |-> form, name |-> name, ref |-> None, sub |-> "", dotgit |-> FALSE,
     version |-> None, constraint |-> {}, manifest |-> FALSE, offline |-> FALSE]

Registry(name, v) == [Source("registry", name) EXCEPT !.version = v]

\* A module of the registry by version, by constraint, and unpinned, with a
\* submodule; one whose download is an archive, with no files; a repository; an
\* archive; an archive at an address with ".git" in it; and what is never
\* fetched.
MCRequests ==
    {Registry("vpc", 2), [Registry("vpc", Latest) EXCEPT !.sub = "endpoints"],
     [Registry("vpc", None) EXCEPT !.constraint = {1, 2}],
     Registry("hollow", 1),
     Source("git", "vpc"), [Source("git", "vpc") EXCEPT !.ref = Main],
     Source("url", "bundle"),
     [Source("url", "bundle") EXCEPT !.dotgit = TRUE],
     [Registry("vpc", 1) EXCEPT !.manifest = TRUE],
     [Source("url", "bundle") EXCEPT !.offline = TRUE],
     Source("other", "vpc"), Source("path", "vpc")}

\* One source with a directory of its own in the repository.
MCSubdir == {[Source("git", "vpc") EXCEPT !.sub = "endpoints"], Source("url", "bundle")}
MCSymmetry == Permutations(Procs)
=============================================================================
