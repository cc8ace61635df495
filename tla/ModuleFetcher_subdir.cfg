CONSTANTS
    Procs = {p1, p2}
    Upstream = {"vpc", "bundle", "hollow"}
    EmptyArchives = {"hollow"}
    Changing = {"vpc"}
    ByGit = {"vpc"}
    Requests <- MCSubdir
    MaxVersion = 2
    MaxHead = 1
    Main = Main
    Latest = Latest
    Empty = Empty
    None = None
SPECIFICATION Spec
SYMMETRY MCSymmetry
INVARIANTS SameSourceSameDirectory
