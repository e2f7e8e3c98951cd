------------------------------ MODULE InputTree ------------------------------
(***************************************************************************)
(* Packing a directory into the CAS and materialising it from there        *)
(* (src/crates/brokkr-cas/src/tree.rs).                                    *)
(*                                                                         *)
(* The digest of an encoded Directory is that message itself.  A directory *)
(* on disk is a function from names to files, links and directories.       *)
(***************************************************************************)
EXTENDS Integers, FiniteSets, SequencesExt

CONSTANTS Names,      \* numbers, in the order of the names
          FileBytes   \* contents of files, numbers: their sizes

VARIABLES tree,       \* the directory that is packed
          listing     \* the order in which read_dir yields its names

tvars == <<tree, listing>>

File(b, x) == [kind |-> "file", bytes |-> b, exec |-> x]
Link(t) == [kind |-> "link", target |-> t]
Folder(d) == [kind |-> "dir", entries |-> d]

Leaves == {File(b, x) : b \in FileBytes, x \in BOOLEAN} \cup {Link("target")}
Folders(nodes) == UNION {[S -> nodes] : S \in SUBSET Names}
Trees == Folders(Leaves \cup {Folder(d) : d \in Folders(Leaves)})

RECURSIVE Pack(_, _), Materialize(_, _), CountAll(_)

\* entries.sort_by_key(file_name).
Sorted(dir, order) == SetToSortSeq(ToSet(order) \cap DOMAIN dir, LAMBDA a, b : a < b)

FileNode(n, node) == [name |-> n, digest |-> [file |-> node.bytes], exec |-> node.exec]

\* pack_directory: the root and what is uploaded.
Pack(dir, order) ==
    LET names == Sorted(dir, order)
        of(kind) == SelectSeq(names, LAMBDA n : dir[n].kind = kind)
        packed == [n \in {m \in DOMAIN dir : dir[m].kind = "dir"} |-> Pack(dir[n].entries, order)]
        message == [dir |->
            [files |-> [i \in DOMAIN of("file") |-> FileNode(of("file")[i], dir[of("file")[i]])],
             symlinks |-> [i \in DOMAIN of("link") |->
                             [name |-> of("link")[i], target |-> dir[of("link")[i]].target]],
             directories |-> [i \in DOMAIN of("dir") |->
                             [name |-> of("dir")[i], digest |-> packed[of("dir")[i]].root]]]]
    IN  [root |-> message,
         blobs |-> {message} \cup {[file |-> dir[n].bytes] : n \in ToSet(of("file"))}
                     \cup UNION {packed[n].blobs : n \in DOMAIN packed}]

Empty == [n \in {} |-> 0]
Failed == [ok |-> FALSE, tree |-> Empty]
Stats(f, d, l, b) == [files |-> f, dirs |-> d, links |-> l, bytes |-> b]
AddStats(a, b) == [k \in DOMAIN a |-> a[k] + b[k]]

\* Mutant: a directory that cannot be fetched is taken for an empty one.
FetchOrEmpty(digest, blobs) ==
    IF digest \in blobs THEN [ok |-> TRUE, dir |-> digest.dir]
    ELSE [ok |-> TRUE, dir |-> [files |-> <<>>, symlinks |-> <<>>, directories |-> <<>>]]

FetchDirectory(digest, blobs) ==
    IF digest \in blobs THEN [ok |-> TRUE, dir |-> digest.dir] ELSE [ok |-> FALSE]

\* materialize_directory: files, links, then directories; the first thing that
\* is missing ends it.
Materialize(digest, blobs) ==
    LET got == FetchDirectory(digest, blobs)
        d == got.dir
        below == [i \in DOMAIN d.directories |-> Materialize(d.directories[i].digest, blobs)]
        onDisk(n) ==
            CASE \E i \in DOMAIN d.files : d.files[i].name = n ->
                   LET f == d.files[CHOOSE i \in DOMAIN d.files : d.files[i].name = n]
                   IN  File(f.digest.file, f.exec)
              [] \E i \in DOMAIN d.symlinks : d.symlinks[i].name = n ->
                   Link(d.symlinks[CHOOSE i \in DOMAIN d.symlinks : d.symlinks[i].name = n].target)
              [] OTHER ->
                   Folder(below[CHOOSE i \in DOMAIN d.directories : d.directories[i].name = n].tree)
        names(s) == {s[i].name : i \in DOMAIN s}
        sum == FoldLeft(LAMBDA n, f : n + f.digest.file, 0, d.files)
    IN  IF ~got.ok THEN Failed
        ELSE IF \/ \E i \in DOMAIN d.files : d.files[i].digest \notin blobs
                \/ \E i \in DOMAIN below : ~below[i].ok
        THEN Failed
        ELSE [ok |-> TRUE,
              tree |-> [n \in names(d.files) \cup names(d.symlinks) \cup names(d.directories) |-> onDisk(n)],
              stats |-> FoldLeft(LAMBDA a, b : AddStats(a, b.stats),
                                 Stats(Len(d.files), Len(d.directories), Len(d.symlinks), sum), below)]

TreeInit ==
    /\ tree \in Trees
    /\ listing \in SetToSeqs(Names)

-----------------------------------------------------------------------------
\* What a tree contains, counted node by node.
CountAll(dir) ==
    LET nodes(kind) == {n \in DOMAIN dir : dir[n].kind = kind}
        own == Stats(Cardinality(nodes("file")), Cardinality(nodes("dir")), Cardinality(nodes("link")),
                     FoldLeft(LAMBDA s, n : s + dir[n].bytes, 0, SetToSeq(nodes("file"))))
    IN  FoldLeft(LAMBDA a, n : AddStats(a, CountAll(dir[n].entries)), own, SetToSeq(nodes("dir")))

\* What was packed comes back: names, bytes, permissions, links and folders,
\* with the statistics of the tree.  Its digest does not depend on the order
\* in which the system lists a directory.  And a tree of which any blob is
\* gone is never materialised in part and called complete (build_tree_into,
\* materialize_tree, fetch_directory, write_file).
TreesComeBack ==
    LET p == Pack(tree, listing)
        m == Materialize(p.root, p.blobs)
    IN  /\ m.ok /\ m.tree = tree /\ m.stats = CountAll(tree)
        /\ p.root = Pack(tree, SetToSortSeq(Names, LAMBDA a, b : a < b)).root
        /\ \A b \in p.blobs : ~Materialize(p.root, p.blobs \ {b}).ok
=============================================================================
