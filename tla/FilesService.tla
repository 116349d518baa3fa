----------------------------- MODULE FilesService -----------------------------
(***************************************************************************)
(* The files of one miniverse: the tree below its directory data, which    *)
(* moderators change through /api/files, and the uploads that tusd keeps   *)
(* aside until the hook of their end moves them there.                     *)
(*                                                                         *)
(* A request reads the role, awaits the row of its miniverse (waiting) and *)
(* changes the tree in one go of the event loop.  Extractions run in       *)
(* threads, beside that too: between the moment a handler sees that a name *)
(* is free and the moment it uses the name (handler) they may take it.     *)
(* A list of paths in one request is a request for each path.              *)
(***************************************************************************)
EXTENDS Naturals, FiniteSets, Sequences, SequencesExt

CONSTANTS
    Names,          \* names of files and directories
    Numbered,       \* [name -> the same with a number: "name (2)", ...]
    Archives,       \* names with .zip behind, and Archive.zip
    Asked,          \* names clients ask for
    Uploads,        \* ids of uploads; an upload is also what it contains
    NameOf,         \* [upload -> the name in its metadata]
    RootOf,         \* [zip -> the name its members are extracted to]
    FilesOf,        \* [zip -> the names of its files]
    DirsOf,         \* [zip -> the names of its directories]
    StartTree,      \* what the server has put there
    Threads,        \* slots for extractions
    MaxEntries, MaxDepth,   \* bounds on the tree
    MaxRequests             \* and on requests, uploads aside

VARIABLES
    tree,       \* what there is: each path with its content
    upload,     \* what tusd and the hooks have made of each upload
    thread,     \* what each extraction is doing
    handler,    \* what the event loop is about to do with a name it found free
    waiting,    \* requests that have read the role and await their miniverse
    moderator,  \* the client has the role that the files ask for
    requests,
    granted     \* observer: uploads whose client had the role since they were whole

vars == <<tree, upload, thread, handler, waiting, moderator, requests, granted>>

Paths == Seq(Names)
Zips == DOMAIN RootOf
Dir == <<"dir">>
Contents == {<<"server">>, <<"edited">>, <<"archive">>} \union ({"upload"} \X Uploads)
            \union UNION {{"member"} \X {z} \X FilesOf[z] : z \in Zips}

\* What is above a path is there, and is a directory.
IsTree(t) ==
    /\ DOMAIN t \subseteq Paths
    /\ \A p \in DOMAIN t :
        /\ t[p] \in Contents \union {Dir}
        /\ \A i \in 0 .. Len(p) - 1 :
            SubSeq(p, 1, i) \in DOMAIN t /\ t[SubSeq(p, 1, i)] = Dir

ASSUME BoundsAssumption == MaxRequests \in Nat
ASSUME NamesAssumption ==
    /\ Archives \subseteq Names /\ Asked \subseteq Names
    /\ Numbered \in [Names -> SUBSET Names] /\ NameOf \in [Uploads -> Names]
ASSUME ZipsAssumption ==
    Zips \subseteq Uploads /\ \A z \in Zips :
        RootOf[z] \in Names /\ FilesOf[z] \subseteq Names /\ DirsOf[z] \subseteq Names
ASSUME TreeAssumption == IsTree(StartTree)

Existing == DOMAIN tree
IsDir(p) == p \in Existing /\ tree[p] = Dir
IsFile(p) == p \in Existing /\ tree[p] # Dir
Parent(p) == Front(p)
Under(t, p) == {q \in DOMAIN t : IsPrefix(p, q)}
Below(p) == Under(tree, p)
\* What is left of q below p.
Rest(p, q) == SubSeq(q, Len(p) + 1, Len(q))

Idle == [pc |-> "idle"]

\* had: observer, what there was below the place when it was chosen.
Extraction == [pc : {"open"}, path : Paths]
    \union [pc : {"mkdir", "write"}, zip : Zips, in : Paths, left : SUBSET Names,
            had : SUBSET Paths]
Handler == [pc : {"copy", "compress", "rename"}, from : Paths, to : Paths, had : SUBSET Paths]
    \union [pc : {"upload"}, from : Uploads, to : Paths, had : SUBSET Paths]

TypeOK ==
    /\ DOMAIN tree \subseteq Paths
    /\ \A p \in DOMAIN tree : tree[p] \in Contents \union {Dir}
    /\ upload \in [Uploads -> {"none", "sending", "whole", "admitted", "bare", "gone"}]
    /\ thread \in [Threads -> Extraction \union {Idle}]
    /\ handler \in Handler \union {Idle}
    /\ waiting \in 0 .. MaxRequests /\ requests \in 0 .. MaxRequests
    /\ moderator \in BOOLEAN
    /\ granted \subseteq Uploads

Init ==
    /\ tree = StartTree
    /\ upload = [u \in Uploads |-> "none"]
    /\ thread = [t \in Threads |-> Idle]
    /\ handler = Idle
    /\ waiting = 0
    /\ moderator = TRUE
    /\ requests = 0
    /\ granted = {}

-----------------------------------------------------------------------------
(* The file system.                                                        *)

\* Path.mkdir(parents=True) works unless a file is in the way.
CanMake(d) == \A i \in 0 .. Len(d) : ~IsFile(SubSeq(d, 1, i))
Made(d) == [p \in Existing \union {SubSeq(d, 1, i) : i \in 0 .. Len(d)} |->
               IF p \in Existing THEN tree[p] ELSE Dir]

\* open(p, "wb") and the rename of an upload take the place of a file that is there.
CanWrite(p) == p # <<>> /\ IsDir(Parent(p)) /\ ~IsDir(p)
With(t, p, c) == [q \in DOMAIN t \union {p} |-> IF q = p THEN c ELSE t[q]]

\* base, and what t has from src down put at to.
Placed(base, t, src, to) ==
    LET placed == {to \o Rest(src, q) : q \in Under(t, src)}
    IN [q \in DOMAIN base \union placed |->
           IF q \in placed THEN t[src \o Rest(to, q)] ELSE base[q]]

\* rename(2) replaces a file by a file and a directory by an empty one.
CanMove(src, to) ==
    /\ src \in Existing
    /\ \/ to \notin Existing
       \/ IsFile(src) /\ IsFile(to)
       \/ IsDir(src) /\ IsDir(to) /\ Below(to) = {to}

\* Bounds of the model.
Room(t) == Cardinality(DOMAIN t) <= MaxEntries /\ \A p \in DOMAIN t : Len(p) <= MaxDepth

\* Mutant: the name is taken as it is
FreeAsIs(t, d, name) == {name}

\* change_path_name_if_exists, with any number that is free for the first one.
Free(t, d, name) ==
    LET free == {n \in {name} \union Numbered[name] : Append(d, n) \notin DOMAIN t}
    IN IF name \in free THEN {name} ELSE free

-----------------------------------------------------------------------------
(* Requests of a moderator.                                                *)

\* The role is read; the handler then awaits get_miniverse.
Admit ==
    /\ handler = Idle
    /\ moderator
    /\ requests < MaxRequests
    /\ requests' = requests + 1
    /\ waiting' = waiting + 1
    /\ UNCHANGED <<tree, upload, thread, handler, moderator, granted>>

\* get_miniverse has answered, and the event loop runs the handler.
Run ==
    /\ handler = Idle
    /\ waiting > 0
    /\ waiting' = waiting - 1
    /\ UNCHANGED <<upload, moderator, requests, granted>>

\* What is asked for is not there, or not of the kind: nothing has changed.
Refuse == Run /\ UNCHANGED <<tree, thread, handler>>

\* delete_miniverse_files; the path "/" is the directory data itself. An
\* extraction that writes below p at that time makes rmtree stop half-way.
Delete(p) ==
    /\ Run
    /\ p \in Existing
    /\ \E gone \in SUBSET Below(p) :
        /\ \A q \in gone : Below(q) \subseteq gone
        /\ gone # Below(p) => IsDir(p) /\ \E t \in Threads : thread[t] # Idle
        /\ tree' = Restrict(tree, Existing \ gone)
    /\ UNCHANGED <<thread, handler>>

SetContent(p) ==
    /\ Run
    /\ IsFile(p)
    /\ tree' = [tree EXCEPT ![p] = <<"edited">>]
    /\ UNCHANGED <<thread, handler>>

\* A handler that is going to use the name n in d, for what it has found free.
Take(pc, from, d, n) ==
    /\ Run
    /\ handler' = [pc |-> pc, from |-> from, to |-> Append(d, n), had |-> Below(Append(d, n))]
    /\ UNCHANGED <<tree, thread>>

LookCopy(src, d) ==
    /\ src \in Existing /\ src # <<>>
    /\ \E n \in Free(tree, d, Last(src)) : Take("copy", src, d, n)

\* Paths of one parent d, that need not be there.
LookCompress(d, name) ==
    /\ IsDir(d)
    /\ \E n \in Free(tree, d, name) : Take("compress", d, d, n)

LookRename(p, name) ==
    /\ p \in Existing /\ p # <<>>
    /\ Append(Parent(p), name) \notin Existing
    /\ Take("rename", p, Parent(p), name)

\* shutil.copytree, which makes the directories above too. It reads a directory
\* before it makes the new one, so it does not end if that is below another of src.
CopyDir ==
    LET src == handler.from
        to == handler.to
        d == Parent(to)
        endless == /\ IsPrefix(src, d) /\ d # src
                   /\ SubSeq(d, 1, Len(src) + 1) \in Existing
    IN
    /\ handler.pc = "copy"
    /\ IsDir(src) /\ to \notin Existing /\ CanMake(d) /\ ~endless
    /\ tree' = Placed(Made(d), tree, src, to)
    /\ Room(tree')
    /\ handler' = Idle
    /\ UNCHANGED <<upload, thread, waiting, moderator, requests, granted>>

\* shutil.copy2 puts the file into a directory that has come at the place.
CopyPlace == IF IsDir(handler.to) THEN Append(handler.to, Last(handler.from)) ELSE handler.to

CopyFile ==
    /\ handler.pc = "copy"
    /\ IsFile(handler.from) /\ CanWrite(CopyPlace)
    /\ tree' = With(tree, CopyPlace, tree[handler.from])
    /\ Room(tree')
    /\ handler' = Idle
    /\ UNCHANGED <<upload, thread, waiting, moderator, requests, granted>>

\* The archive of the paths as they came, which are no paths of the process,
\* so nothing is in it.
Compress ==
    /\ handler.pc = "compress"
    /\ CanWrite(handler.to)
    /\ tree' = With(tree, handler.to, <<"archive">>)
    /\ Room(tree')
    /\ handler' = Idle
    /\ UNCHANGED <<upload, thread, waiting, moderator, requests, granted>>

Rename ==
    LET src == handler.from
        to == handler.to
    IN
    /\ handler.pc = "rename"
    /\ CanMove(src, to)
    /\ tree' = Placed(Restrict(tree, Existing \ (Below(src) \union {to})), tree, src, to)
    /\ Room(tree')
    /\ handler' = Idle
    /\ UNCHANGED <<upload, thread, waiting, moderator, requests, granted>>

\* What has come at the place meanwhile is in the way.
Raise ==
    LET src == handler.from
        to == handler.to
    IN
    /\ \/ /\ handler.pc = "copy"
          /\ IF IsDir(src) THEN to \in Existing \/ ~CanMake(Parent(to)) ELSE ~CanWrite(CopyPlace)
       \/ handler.pc = "compress" /\ ~CanWrite(to)
       \/ handler.pc = "rename" /\ ~CanMove(src, to)
    /\ handler' = Idle
    /\ UNCHANGED <<tree, upload, thread, waiting, moderator, requests, granted>>

-----------------------------------------------------------------------------
(* Uploads.                                                                *)

\* pre-create: tusd makes the file and its .info when the hook allows it.
PreCreate(u) ==
    /\ handler = Idle
    /\ upload[u] = "none"
    /\ moderator
    /\ upload' = [upload EXCEPT ![u] = "sending"]
    /\ UNCHANGED <<tree, thread, handler, waiting, moderator, requests, granted>>

Sent(u) ==
    /\ upload[u] = "sending"
    /\ upload' = [upload EXCEPT ![u] = "whole"]
    /\ granted' = IF moderator THEN granted \union {u} ELSE granted
    /\ UNCHANGED <<tree, thread, handler, waiting, moderator, requests>>

\* Mutant: post-finish trusts the check made before the upload
CheckTrusted(u) ==
    /\ handler = Idle
    /\ upload[u] = "whole"
    /\ upload' = [upload EXCEPT ![u] = "admitted"]
    /\ UNCHANGED <<tree, thread, handler, waiting, moderator, requests, granted>>

\* post-finish: the role is read again, and without it both files are removed;
\* with it, the hook awaits get_miniverse.
Check(u) ==
    /\ handler = Idle
    /\ upload[u] = "whole"
    /\ upload' = [upload EXCEPT ![u] = IF moderator THEN "admitted" ELSE "gone"]
    /\ UNCHANGED <<tree, thread, handler, waiting, moderator, requests, granted>>

\* upload_miniverse_file up to the choice of the name.
LookUpload(u, d) ==
    /\ handler = Idle
    /\ upload[u] = "admitted"
    /\ CanMake(d)
    /\ Room(Made(d))
    /\ tree' = Made(d)
    /\ \E n \in Free(Made(d), d, NameOf[u]) :
        handler' = [pc |-> "upload", from |-> u, to |-> Append(d, n),
                    had |-> Under(Made(d), Append(d, n))]
    /\ UNCHANGED <<upload, thread, waiting, moderator, requests, granted>>

\* A file is in the way: the hook raises, and tusd keeps both files.
RefuseUpload(u, d) ==
    /\ handler = Idle
    /\ upload[u] = "admitted"
    /\ ~CanMake(d)
    /\ upload' = [upload EXCEPT ![u] = "whole"]
    /\ UNCHANGED <<tree, thread, handler, waiting, moderator, requests, granted>>

\* The .info is removed and the file renamed.
PlaceUpload ==
    /\ handler.pc = "upload"
    /\ CanWrite(handler.to)
    /\ tree' = With(tree, handler.to, <<"upload", handler.from>>)
    /\ Room(tree')
    /\ upload' = [upload EXCEPT ![handler.from] = "gone"]
    /\ handler' = Idle
    /\ UNCHANGED <<thread, waiting, moderator, requests, granted>>

\* A directory has come at the place: the rename raises, the .info is gone.
LoseInfo ==
    /\ handler.pc = "upload"
    /\ ~CanWrite(handler.to)
    /\ upload' = [upload EXCEPT ![handler.from] = "bare"]
    /\ handler' = Idle
    /\ UNCHANGED <<tree, thread, waiting, moderator, requests, granted>>

-----------------------------------------------------------------------------
(* An extraction, in a thread of its own.                                  *)

Open(t, p) ==
    /\ Run
    /\ thread[t] = Idle
    /\ IsFile(p)
    /\ thread' = [thread EXCEPT ![t] = [pc |-> "open", path |-> p]]
    /\ UNCHANGED <<tree, handler>>

\* The archive is read and its directory gets a name found free; names tried
\* before may have become free again.
Choose(t) ==
    /\ thread[t].pc = "open"
    /\ \E z \in Zips :
        LET p == thread[t].path
            root == RootOf[z]
        IN
        /\ p \in Existing /\ tree[p] = <<"upload", z>>
        /\ \E n \in {root} \union Numbered[root] :
            LET container == Append(Parent(p), n) IN
            /\ container \notin Existing
            /\ thread' = [thread EXCEPT ![t] =
                  [pc |-> "mkdir", zip |-> z, in |-> container,
                   left |-> FilesOf[z] \union DirsOf[z], had |-> Below(container)]]
    /\ UNCHANGED <<tree, upload, handler, waiting, moderator, requests, granted>>

\* It is no archive, or has gone: ZipFile raises.
NoArchive(t) ==
    /\ thread[t].pc = "open"
    /\ ~ \E z \in Zips : thread[t].path \in Existing /\ tree[thread[t].path] = <<"upload", z>>
    /\ thread' = [thread EXCEPT ![t] = Idle]
    /\ UNCHANGED <<tree, upload, handler, waiting, moderator, requests, granted>>

Mkdir(t) ==
    /\ thread[t].pc = "mkdir"
    /\ CanMake(thread[t].in)
    /\ Room(Made(thread[t].in))
    /\ tree' = Made(thread[t].in)
    /\ thread' = [thread EXCEPT ![t].pc = "write"]
    /\ UNCHANGED <<upload, handler, waiting, moderator, requests, granted>>

\* The extraction after the member m.
Without(e, m) == IF e.left = {m} THEN Idle ELSE [e EXCEPT !.left = @ \ {m}]

\* Mutant: the directories of the archive are written as if they were files
WriteAnyMember(t, m) ==
    LET e == thread[t] IN
    /\ e.pc = "write" /\ m \in e.left
    /\ CanMake(e.in) /\ ~IsDir(Append(e.in, m))
    /\ tree' = With(Made(e.in), Append(e.in, m), <<"member", e.zip, m>>)
    /\ Room(tree')
    /\ thread' = [thread EXCEPT ![t] = Without(e, m)]
    /\ UNCHANGED <<upload, handler, waiting, moderator, requests, granted>>

\* The directory is made again when it was deleted in the meantime.
WriteMember(t, m) ==
    LET e == thread[t] IN
    /\ e.pc = "write" /\ m \in e.left \intersect FilesOf[e.zip]
    /\ CanMake(e.in) /\ ~IsDir(Append(e.in, m))
    /\ tree' = With(Made(e.in), Append(e.in, m), <<"member", e.zip, m>>)
    /\ Room(tree')
    /\ thread' = [thread EXCEPT ![t] = Without(e, m)]
    /\ UNCHANGED <<upload, handler, waiting, moderator, requests, granted>>

SkipMember(t, m) ==
    LET e == thread[t] IN
    /\ e.pc = "write" /\ m \in e.left \ FilesOf[e.zip]
    /\ thread' = [thread EXCEPT ![t] = Without(e, m)]
    /\ UNCHANGED <<tree, upload, handler, waiting, moderator, requests, granted>>

\* What cannot be made or written ends the extraction where it is.
EndEarly(t) ==
    LET e == thread[t] IN
    /\ \/ e.pc = "mkdir" /\ ~CanMake(e.in)
       \/ /\ e.pc = "write"
          /\ \E m \in e.left \intersect FilesOf[e.zip] : CanMake(e.in) => IsDir(Append(e.in, m))
    /\ thread' = [thread EXCEPT ![t] = Idle]
    /\ UNCHANGED <<tree, upload, handler, waiting, moderator, requests, granted>>

-----------------------------------------------------------------------------
\* An administrator gives the role or takes it away.
SetRole ==
    /\ handler = Idle
    /\ requests < MaxRequests
    /\ requests' = requests + 1
    /\ moderator' = ~moderator
    /\ granted' = IF moderator THEN granted
                  ELSE granted \union {u \in Uploads : upload[u] = "whole"}
    /\ UNCHANGED <<tree, upload, thread, handler, waiting>>

\* The API is killed. tusd calls the hook again for an upload that was not
\* moved; one killed after it has removed the .info finds none then.
Crash ==
    LET again == [u \in Uploads |-> IF upload[u] = "admitted" THEN "whole" ELSE upload[u]] IN
    /\ \/ upload' = again
       \/ handler.pc = "upload" /\ upload' = [again EXCEPT ![handler.from] = "bare"]
    /\ thread' = [t \in Threads |-> Idle]
    /\ handler' = Idle
    /\ waiting' = 0
    /\ UNCHANGED <<tree, moderator, requests, granted>>

\* The directories a client can name as a destination.
Destinations == {d \in Existing : IsDir(d)} \union {<<n>> : n \in Asked}

Next ==
    \/ Admit \/ Refuse
    \/ \E p \in Existing : \/ Delete(p) \/ SetContent(p)
                           \/ \E d \in Destinations : LookCopy(p, d)
                           \/ \E n \in Archives : LookCompress(p, n)
                           \/ \E n \in Asked : LookRename(p, n)
                           \/ \E t \in Threads : Open(t, p)
    \/ CopyDir \/ CopyFile \/ Compress \/ Rename \/ Raise
    \/ \E u \in Uploads : \/ PreCreate(u) \/ Sent(u) \/ Check(u)
                          \/ \E d \in Destinations : LookUpload(u, d)
                          \/ \E n \in Asked : RefuseUpload(u, <<n>>)
    \/ PlaceUpload \/ LoseInfo
    \/ \E t \in Threads : \/ Choose(t) \/ NoArchive(t) \/ Mkdir(t) \/ EndEarly(t)
                          \/ \E m \in Names : WriteMember(t, m) \/ SkipMember(t, m)
    \/ SetRole \/ Crash

Spec == Init /\ [][Next]_vars

-----------------------------------------------------------------------------
(* Properties.                                                             *)

\* Whatever runs beside whatever, a file stays as it is until it is deleted,
\* edited or renamed. What a copy, an archive, an upload or a new name takes the
\* place of, because it looks before it writes, is never more than a member that
\* an extraction has put there since; and an extraction overwrites no file that
\* was there when it chose its directory.
FilesStay ==
    [][\A p \in {q \in Existing : IsFile(q)} :
        \/ p \in DOMAIN tree' /\ tree'[p] = tree[p]
        \/ \E q \in Existing : IsPrefix(q, p) /\ Delete(q)
        \/ SetContent(p)
        \/ /\ Rename /\ IsPrefix(handler.from, p)
           /\ LET new == handler.to \o Rest(handler.from, p)
              IN new \in DOMAIN tree' /\ tree'[new] = tree[p]
        \/ /\ handler # Idle /\ handler' = Idle
           /\ IsPrefix(handler.to, p) /\ p \notin handler.had
           /\ \E z \in Zips, m \in Names : tree[p] = <<"member", z, m>>
        \/ \E t \in Threads, m \in Names :
            /\ WriteMember(t, m) /\ p = Append(thread[t].in, m)
            /\ p \notin thread[t].had]_vars

\* An upload is removed, and the tree left alone, if its client has no role when
\* the hook looks. One that lands is of a client who had the role at some moment
\* after all of it had come, perhaps no more when the file is moved, and it takes
\* the place of nothing but a member extracted since the name was found free.
UploadLands ==
    [][\A u \in Uploads : upload[u] # "gone" /\ upload'[u] = "gone" =>
        \/ ~moderator /\ tree' = tree
        \/ /\ u \in granted
           /\ \E p \in DOMAIN tree' :
                /\ tree'[p] = <<"upload", u>>
                /\ p \in Existing => \E z \in Zips, m \in Names : tree[p] = <<"member", z, m>>]_vars
=============================================================================
