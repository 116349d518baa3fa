\* A file and a zip are uploaded into a tree of up to seven entries; two extractions.
CONSTANTS
    plain = plain
    archived = archived
    core = core
    core2 = core2
    conf = conf
    pack = pack
    sub = sub
    all = all
    Names = {core, core2, conf, pack, sub, all}
    Numbered <- MCNumbered
    Archives = {all}
    Asked = {core, conf}
    Uploads = {plain, archived}
    NameOf <- MCNameOf
    RootOf <- MCRootOf
    FilesOf <- MCFilesOf
    DirsOf <- MCDirsOf
    StartTree <- MCStartTree
    Threads = {t1, t2}
    MaxEntries = 7
    MaxDepth = 2
    MaxRequests = 3
SPECIFICATION Spec
SYMMETRY Symmetry
INVARIANT TypeOK
PROPERTIES FilesStay UploadLands
CHECK_DEADLOCK FALSE
