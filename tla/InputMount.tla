----------------------------- MODULE InputMount -----------------------------
(***************************************************************************)
(* The input tree of an action as a FUSE mount: the inode table built from *)
(* the Directory messages, the callbacks that serve it, file contents      *)
(* fetched at the first read, mapped from a cache file and kept, and the   *)
(* unmount when the handle is dropped.                                     *)
(*                                                                         *)
(* src/crates/brokkr-worker/src/fuse: inode.rs, mount.rs.  The session     *)
(* runs one event loop, as fuser does by default: a request is answered    *)
(* before the next is taken.                                               *)
(***************************************************************************)
EXTENDS Integers, Sequences, FiniteSets

CONSTANTS Trees,        \* what is in the store, the root, and what is asked of the mount
          Shapes,       \* mountpoints: "empty", "dirty" or "missing"
          Spans,        \* offsets and sizes asked for by read
          PerReply,     \* entries that fit in one readdir reply
          DiskFills,    \* whether a cache file may be left half written
          MaxRequests   \* requests answered, readdir apart

VARIABLES mtree,    \* the store: Directory messages and sizes of blobs
          mnt,      \* the mount and its handle
          table,    \* InodeTable: a sequence of inodes
          cells,    \* inodes whose OnceCell is set
          cached,   \* each cache file: "absent", "whole" or "cut"
          fetching, \* the read the loop is busy with
          listing,  \* a directory stream: [ino, offset, seen]
          mreply,   \* the last request and its answer
          requests    \* requests so far

mvars == <<mtree, mnt, table, cells, cached, fetching, listing, mreply, requests>>

ROOT_INO == 1

Dir(entries) == [kind |-> "dir", entries |-> entries]
File(f) == [kind |-> "file", hash |-> f.hash, size |-> f.size, exec |-> f.exec]
Link(l) == [kind |-> "link", target |-> l.target]

Broken == <<>>

-----------------------------------------------------------------------------
(* inode.rs *)

InvalidName(name) == name \in {"", ".", "..", "a/b"}

\* push and link_child.
Linked(inodes, parent, name, node) ==
    IF inodes = Broken \/ InvalidName(name) \/ name \in DOMAIN inodes[parent].entries THEN Broken
    ELSE LET ino == Len(inodes) + 1
             entries == inodes[parent].entries
         IN  [i \in 1 .. ino |->
                CASE i = ino -> node
                  [] i = parent -> Dir([n \in DOMAIN entries \cup {name} |-> IF n = name THEN ino ELSE entries[n]])
                  [] OTHER -> inodes[i]]

\* build_dir, one kind of node after the other; a digest of hash 0 is missing.
RECURSIVE BuildFiles(_, _, _), BuildLinks(_, _, _), BuildDirs(_, _, _, _), BuildDir(_, _, _, _)
BuildFiles(files, parent, inodes) ==
    IF files = <<>> \/ inodes = Broken THEN inodes
    ELSE IF Head(files).hash = 0 \/ Head(files).size < 0 THEN Broken
    ELSE BuildFiles(Tail(files), parent, Linked(inodes, parent, Head(files).name, File(Head(files))))
BuildLinks(links, parent, inodes) ==
    IF links = <<>> \/ inodes = Broken THEN inodes
    ELSE BuildLinks(Tail(links), parent, Linked(inodes, parent, Head(links).name, Link(Head(links))))
BuildDirs(store, dirs, parent, inodes) ==
    IF dirs = <<>> \/ inodes = Broken THEN inodes
    ELSE LET ino == Len(inodes) + 1
         IN  BuildDirs(store, Tail(dirs), parent,
                       BuildDir(store, Head(dirs).hash, ino, Linked(inodes, parent, Head(dirs).name, Dir(<<>>))))
BuildDir(store, hash, ino, inodes) ==
    IF inodes = Broken \/ hash \notin DOMAIN store.dirs THEN Broken
    ELSE LET d == store.dirs[hash]
         IN  BuildDirs(store, d.dirs, ino, BuildLinks(d.links, ino, BuildFiles(d.files, ino, inodes)))

\* InodeTable::build.
Build(store) == BuildDir(store, store.root, ROOT_INO, <<Dir(<<>>)>>)

Get(ino) == IF ino \in 1 .. Len(table) THEN {table[ino]} ELSE {}

LookUp(parent, name) ==
    {ino \in 1 .. Len(table) : \E d \in Get(parent) :
        d.kind = "dir" /\ name \in DOMAIN d.entries /\ d.entries[name] = ino}

-----------------------------------------------------------------------------
(* mount and its errors. *)

ValidateMountpoint(shape) == shape = "empty"

Mount(shape, spawned) ==
    /\ mnt.at = "new"
    /\ LET built == Build(mtree)
           state == CASE ~ValidateMountpoint(shape) -> "refused"
                      [] built = Broken \/ ~spawned -> "failed"
                      [] OTHER -> "live"
       IN  /\ mnt' = [mnt EXCEPT !.at = state, !.cache_dir = state # "refused"]
           /\ table' = IF state = "live" THEN built ELSE table
    /\ UNCHANGED <<mtree, cells, cached, fetching, listing, mreply, requests>>

-----------------------------------------------------------------------------
(* The callbacks. *)

Idle == mnt.kernel /\ mnt.at \in {"live", "unmounting"} /\ fetching = {} /\ requests < MaxRequests

Answer(request, answer) ==
    /\ mreply' = [request |-> request, answer |-> answer]
    /\ requests' = requests + 1

\* attr_for.
Attr(node) ==
    CASE node.kind = "dir" -> [kind |-> "dir", perm |-> 555, nlink |-> 2 + Cardinality(DOMAIN node.entries)]
      [] node.kind = "file" -> [kind |-> "file", perm |-> IF node.exec THEN 555 ELSE 444, size |-> node.size]
      [] node.kind = "link" -> [kind |-> "link", perm |-> 777]

Errno(e) == [errno |-> e]

\* readlink, opendir and open of an inode.
ReadLink(node) == IF node.kind = "link" THEN node ELSE Errno("EINVAL")
OpenDir(node) == IF node.kind = "dir" THEN [opened |-> "dir"] ELSE Errno("ENOTDIR")
Open(node) == CASE node.kind = "file" -> [opened |-> "file"]
                [] node.kind = "dir" -> Errno("EISDIR")
                [] node.kind = "link" -> Errno("EINVAL")

\* The callbacks that answer at once: lookup, getattr and these three.
Stat(op, ino, name) ==
    LET found == IF op = "lookup" THEN UNION {Get(c) : c \in LookUp(ino, name)} ELSE Get(ino)
        Serve(node) == CASE op \in {"lookup", "getattr"} -> Attr(node)
                         [] op = "readlink" -> ReadLink(node)
                         [] op = "opendir" -> OpenDir(node)
                         [] op = "open" -> Open(node)
    IN  /\ Idle
        /\ Answer([op |-> op, ino |-> ino, name |-> name],
                  IF found = {} THEN Errno("ENOENT") ELSE Serve(CHOOSE n \in found : TRUE))
        /\ UNCHANGED <<mtree, mnt, table, cells, cached, fetching, listing>>

\* The entries of a directory in a fixed order, that of their names.
Names(node) == CHOOSE s \in [1 .. Cardinality(DOMAIN node.entries) + 2 -> DOMAIN node.entries \cup {".", ".."}] :
                 /\ \A i, j \in DOMAIN s : i # j => s[i] # s[j]
                 /\ s[1] = "." /\ s[2] = ".."

\* Mutant: the last entry of a full reply goes out with its own offset.
NextOffsetHere(offset, sent) == IF sent < PerReply THEN offset + sent ELSE offset + sent - 1

\* Each entry goes out with the offset of the next.
NextOffset(offset, sent) == offset + sent

\* readdir from the offset the kernel was given last.
ReadDir ==
    \E node \in Get(listing.ino) :
        LET all == Names(node)
            sent == IF Len(all) - listing.offset < PerReply THEN Len(all) - listing.offset ELSE PerReply
        IN  /\ Idle /\ node.kind = "dir" /\ ~listing.done
            /\ listing' = [listing EXCEPT !.offset = NextOffset(@, sent), !.done = (sent = 0),
                                          !.seen = @ \o SubSeq(all, listing.offset + 1, listing.offset + sent)]
            /\ UNCHANGED <<mtree, mnt, table, cells, cached, fetching, mreply, requests>>

RewindDir(ino) ==
    /\ Idle /\ \E node \in Get(ino) : node.kind = "dir"
    /\ listing.done \/ (listing.offset = 0 /\ listing.ino # ino)
    /\ listing' = [ino |-> ino, offset |-> 0, seen |-> <<>>, done |-> FALSE]
    /\ UNCHANGED <<mtree, mnt, table, cells, cached, fetching, mreply, requests>>

\* read up to the fetch.
Read(ino, span) ==
    LET request == [op |-> "read", ino |-> ino, name |-> "-", span |-> span]
    IN  /\ Idle
        /\ IF Get(ino) = {} THEN Answer(request, Errno("ENOENT")) /\ UNCHANGED fetching
           ELSE IF table[ino].kind # "file" THEN Answer(request, Errno("EISDIR")) /\ UNCHANGED fetching
           ELSE fetching' = {request} /\ UNCHANGED <<mreply, requests>>
        /\ UNCHANGED <<mtree, mnt, table, cells, cached, listing>>

Lower(a, b) == IF a < b THEN a ELSE b

Slice(node, span) ==
    [hash |-> node.hash, from |-> Lower(span.offset, node.size), to |-> Lower(span.offset + span.size, node.size)]

\* The rest of read once the cell is set.  Touching a mapping whose file has
\* been cut short kills the worker.
ReadMapped ==
    \E request \in fetching :
        /\ request.ino \in cells
        /\ fetching' = {}
        /\ IF cached[table[request.ino].hash] = "cut"
           THEN mnt' = [mnt EXCEPT !.at = "crashed"] /\ UNCHANGED <<mreply, requests>>
           ELSE Answer(request, Slice(table[request.ino], request.span)) /\ UNCHANGED mnt
        /\ UNCHANGED <<mtree, table, cells, cached, listing>>

\* fetch_and_mmap: the blob or an error, its size, the cache file (which may be
\* left cut short: a full disk), the mapping.
FetchAndMmap(written) ==
    \E request \in fetching :
        LET node == table[request.ino]
            intact == /\ node.hash \in DOMAIN mtree.blobs /\ mtree.blobs[node.hash] = node.size
                      /\ mnt.cache_dir
        IN  /\ request.ino \notin cells
            /\ ~written => intact /\ DiskFills
            /\ IF intact /\ written
               THEN cells' = cells \cup {request.ino} /\ UNCHANGED <<fetching, mreply, requests>>
               ELSE fetching' = {} /\ Answer(request, Errno("EIO")) /\ UNCHANGED cells
            /\ cached' = IF intact THEN [cached EXCEPT ![node.hash] = IF written THEN "whole" ELSE "cut"] ELSE cached
            /\ UNCHANGED <<mtree, mnt, table, listing>>

-----------------------------------------------------------------------------
(* InputMount::drop: the helper thread unmounts and joins the loop; after  *)
(* five seconds, or on an error, fusermount -uz detaches the mount; then   *)
(* the cache directory is removed.                                         *)

Drop ==
    /\ mnt.at = "live"
    /\ mnt' = [mnt EXCEPT !.at = "unmounting"]
    /\ UNCHANGED <<mtree, table, cells, cached, fetching, listing, mreply, requests>>

UmountAndJoin ==
    /\ mnt.at = "unmounting" /\ mnt.kernel /\ fetching = {}
    /\ mnt' = [mnt EXCEPT !.kernel = FALSE, !.at = "unmounted"]
    /\ UNCHANGED <<mtree, table, cells, cached, fetching, listing, mreply, requests>>

LazyUnmount(works) ==
    /\ mnt.at = "unmounting"
    /\ mnt' = [mnt EXCEPT !.kernel = ~works, !.at = "unmounted", !.lazy = TRUE]
    /\ UNCHANGED <<mtree, table, cells, cached, fetching, listing, mreply, requests>>

RemoveCache ==
    /\ mnt.at = "unmounted"
    /\ mnt' = [mnt EXCEPT !.at = "dropped", !.cache_dir = FALSE]
    /\ cached' = [h \in DOMAIN cached |-> "absent"]
    /\ UNCHANGED <<mtree, table, cells, fetching, listing, mreply, requests>>

-----------------------------------------------------------------------------
MountInit ==
    /\ mtree \in Trees
    /\ mnt = [at |-> "new", kernel |-> TRUE, cache_dir |-> FALSE, lazy |-> FALSE]
    /\ table = <<>> /\ cells = {} /\ fetching = {} /\ requests = 0
    /\ cached = [h \in DOMAIN mtree.blobs |-> "absent"]
    /\ listing = [ino |-> ROOT_INO, offset |-> 0, seen |-> <<>>, done |-> FALSE]
    /\ mreply = [request |-> [op |-> "none"], answer |-> Errno("none")]

Serve ==
    \/ \E op \in mtree.asks \cap {"lookup", "getattr", "readlink", "opendir", "open"}, ino \in 0 .. Len(table) + 1 :
         \E name \in IF op = "lookup" THEN {"a", "b", "d"} ELSE {"-"} : Stat(op, ino, name)
    \/ "readdir" \in mtree.asks /\ (ReadDir \/ \E ino \in 1 .. Len(table) : RewindDir(ino))
    \/ "read" \in mtree.asks /\ \E ino \in 0 .. Len(table) + 1, span \in Spans : Read(ino, span)

MountNext ==
    \/ \E shape \in Shapes, spawned \in BOOLEAN : Mount(shape, spawned)
    \/ Serve \/ ReadMapped \/ \E written \in BOOLEAN : FetchAndMmap(written)
    \/ Drop \/ UmountAndJoin \/ RemoveCache
    \/ \E works \in BOOLEAN : LazyUnmount(works)

MountSpec == MountInit /\ [][MountNext]_mvars

-----------------------------------------------------------------------------
\* The tree as the Directory messages define it, without inodes: what is found
\* at the end of a path.
RECURSIVE NodesAt(_, _, _)
NodesAt(store, hash, path) ==
    LET d == store.dirs[hash]
        name == Head(path)
        Named(s) == {s[i] : i \in {k \in DOMAIN s : s[k].name = name}}
    IN  IF path = <<>> THEN {[kind |-> "dir", hash |-> hash]}
        ELSE IF Len(path) = 1
        THEN {File(f) : f \in Named(d.files)} \cup {Link(l) : l \in Named(d.links)}
             \cup {[kind |-> "dir", hash |-> c.hash] : c \in Named(d.dirs)}
        ELSE UNION {NodesAt(store, c.hash, Tail(path)) : c \in Named(d.dirs)}

RECURSIVE Resolve(_, _)
Resolve(path, ino) ==
    IF path = <<>> THEN {ino}
    ELSE UNION {Resolve(Tail(path), child) : child \in LookUp(ino, Head(path))}

Paths == UNION {[1 .. n -> {"a", "b", "d"}] : n \in 0 .. 2}

Same(ino, node) ==
    IF node.kind = "dir" THEN table[ino].kind = "dir" ELSE table[ino] = node

\* A live mount shows the tree of the Directory messages, no more and no less:
\* along every path, the same file, link or directory (build_dir).  A directory
\* stream that has ended has listed every entry once (readdir).  A read returns
\* the bytes asked for of that file's content, and never more than there are
\* (read, fetch_and_mmap).  Every mapping is of a file in the cache, unless the
\* mount was detached with the loop still at work (InputMount::drop).
MountIsFaithful ==
    /\ table # <<>> =>
         \A p \in Paths :
            LET inos == Resolve(p, ROOT_INO)
                nodes == NodesAt(mtree, mtree.root, p)
            IN  /\ Cardinality(inos) = Cardinality(nodes)
                /\ \A ino \in inos, n \in nodes : Same(ino, n)
    /\ listing.done =>
         LET entries == table[listing.ino].entries
         IN  /\ Len(listing.seen) = Cardinality(DOMAIN entries) + 2
             /\ {listing.seen[i] : i \in DOMAIN listing.seen} = DOMAIN entries \cup {".", ".."}
    /\ "from" \in DOMAIN mreply.answer =>
         LET ino == mreply.request.ino
             size == mtree.blobs[table[ino].hash]
         IN  /\ mreply.answer.hash = table[ino].hash
             /\ mreply.answer.from <= mreply.answer.to /\ mreply.answer.to <= size
             /\ mreply.request.span.offset + mreply.request.span.size <= size =>
                  mreply.answer.to - mreply.answer.from = mreply.request.span.size
    /\ mnt.at = "live" => \A ino \in cells : cached[table[ino].hash] # "absent"

\* "cache files are written-once and addressed by their content digest; nothing
\* else writes to cache_dir while the mount is live": no read touches a mapping
\* whose file has been cut (fetch_and_mmap, the comment on its unsafe block).
MappingsStayValid == mnt.at # "crashed"
=============================================================================
