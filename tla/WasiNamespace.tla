--------------------------- MODULE WasiNamespace ---------------------------
(***************************************************************************)
(* The in-memory WASI file system: its name space, its inodes and the      *)
(* descriptors a guest holds (crates/wasm-wasi/src/filesystem.rs, and the  *)
(* preopen table of preopen.rs).                                           *)
(*                                                                         *)
(* One guest thread calls one handler at a time, so each handler is one    *)
(* action.  Its errno is an operator that lists the code's early returns   *)
(* in their order, and the guard of the action is that it is "SUCCESS": a  *)
(* refused call leaves the file system as it is.                           *)
(*                                                                         *)
(* A path is the sequence of its components and its length is counted in   *)
(* components.  File bytes are a token; offsets and flags are left out.    *)
(***************************************************************************)
EXTENDS Integers, Sequences, FiniteSets, SequencesExt

CONSTANTS
    Names,        \* the component names a guest may use
    Unsafe,       \* "", "." and "..": components validate_guest_path refuses
    GuestPaths,   \* the paths handed to the handlers, bad ones included
    Preopens,     \* descriptors of the configured preopens
    WritablePre,  \* those made by with_writable_preopen
    Mounted,      \* configured files: records [pre, path, ino, wr]
    DirRights,    \* rights requested for directories
    FileRights,   \* rights requested for files
    Payloads,     \* bytes a guest writes
    Times,        \* time stamps a guest sets
    MaxPath,      \* MAX_RELATIVE_PATH_BYTES
    MaxEntries,   \* MAX_MOUNTED_FILES
    MaxOpen,      \* MAX_OPEN_FILES
    MaxInode,     \* u64::MAX
    Nil           \* no such entry

FirstFd == 3                                             \* FIRST_DYNAMIC_FD
Fds     == FirstFd .. (FirstFd + Cardinality(Preopens) + MaxOpen - 1)
Inodes  == 1..MaxInode
SafePaths == UNION {[1..n -> Names] : n \in 1..MaxPath}

AllowedDirRights ==
    {"READDIR", "OPEN", "STAT", "PATH_SET_TIMES", "CREATE_DIRECTORY", "CREATE_FILE",
     "LINK_SOURCE", "LINK_TARGET", "READLINK", "SYMLINK", "REMOVE_DIRECTORY", "UNLINK_FILE"}
MutationRights == {"WRITE", "ALLOCATE", "SET_FLAGS", "SET_SIZE", "SET_TIMES"}
AllowedFileRights == MutationRights \cup {"READ", "SEEK", "TELL", "FILESTAT_GET"}

ASSUME NamesAssumption == Names \cap Unsafe = {}
ASSUME LimitsAssumption == MaxPath \in Nat /\ MaxEntries \in Nat /\ MaxOpen \in Nat /\ MaxInode \in Nat
ASSUME PreopensAssumption ==
    /\ Preopens = FirstFd .. (FirstFd + Cardinality(Preopens) - 1)
    /\ IsFiniteSet(Preopens) /\ WritablePre \subseteq Preopens
\* mount_file: a safe path, mounted once, writable only in a writable preopen,
\* inodes handed out in order.
ASSUME MountedAssumption ==
    /\ Mounted \subseteq [pre : Preopens, path : SafePaths, ino : Inodes, wr : BOOLEAN]
    /\ \A f \in Mounted : f.wr => f.pre \in WritablePre
    /\ \A f, g \in Mounted : (f.pre = g.pre /\ f.path = g.path) \/ f.ino = g.ino => f = g
    /\ IsFiniteSet(Mounted) /\ {f.ino : f \in Mounted} = 1..Cardinality(Mounted)
    /\ Cardinality(Mounted) <= MaxEntries
ASSUME GuestPathsAssumption == GuestPaths \subseteq Seq(Names \cup Unsafe)
ASSUME NilAssumption == Nil \notin Inodes

VARIABLES
    files,      \* mounted_files: [pre, path, ino, wr]
    dirs,       \* mounted_directories
    links,      \* mounted_symlinks
    node,       \* the cells an inode's names share: link_count, bytes, times
    openFiles,  \* open_files: descriptor -> [ino, rights]
    openDirs,   \* open_directories: descriptor -> [pre, path, ino, parent, rights]
    reserved,   \* reserved_preopens
    writable,   \* writable_preopens
    live,       \* PreopenSet: the entries whose live flag is set
    nextInode   \* next_inode

tree == <<files, dirs, links>>
fds  == <<openFiles, openDirs, reserved, writable, live>>
vars == <<tree, node, fds, nextInode>>

File  == [pre : Preopens, path : SafePaths, ino : Inodes, wr : BOOLEAN]
Entry == [pre : Preopens, path : SafePaths, ino : Inodes]
Node  == [nl : Nat, bytes : {"mounted", "empty"} \cup Payloads, times : {0} \cup Times]
FreshNode == [nl |-> 0, bytes |-> "empty", times |-> 0]

-----------------------------------------------------------------------------
\* Lookup

Named(S, pre, path) == {e \in S : e.pre = pre /\ e.path = path}
\* The entry of that name: an iterator's find.
Find(S, pre, path) == CHOOSE e \in S : e.pre = pre /\ e.path = path

FileAt(pre, path) == Named(files, pre, path) # {}
DirAt(pre, path)  == Named(dirs, pre, path) # {}
LinkAt(pre, path) == Named(links, pre, path) # {}

namespace_entry_exists(pre, path) == FileAt(pre, path) \/ DirAt(pre, path) \/ LinkAt(pre, path)
namespace_entry_count == Cardinality(files) + Cardinality(dirs) + Cardinality(links)

parent_path(path) == Front(path)
parent_directory_exists(pre, path) == parent_path(path) = <<>> \/ DirAt(pre, parent_path(path))

\* The inode of a preopen's root is its descriptor with the top bit set.
RootInode(pre) == -pre
directory_inode(pre, path) ==
    IF path = <<>> THEN RootInode(pre)
    ELSE IF DirAt(pre, path) THEN Find(dirs, pre, path).ino ELSE Nil

ReadingRights == {"READDIR", "OPEN", "STAT", "READLINK"}
ChangingRights ==
    {"PATH_SET_TIMES", "CREATE_DIRECTORY", "CREATE_FILE", "LINK_SOURCE", "LINK_TARGET",
     "RENAME_SOURCE", "RENAME_TARGET", "SYMLINK", "REMOVE_DIRECTORY", "UNLINK_FILE"}
WritableRights == ReadingRights \cup ChangingRights
PreopenRights(w) == IF w THEN WritableRights ELSE ReadingRights
directory_rights(fd) ==
    IF fd \in reserved THEN PreopenRights(fd \in writable) ELSE openDirs[fd].rights

has_directory_descriptor(fd) == fd \in reserved \/ fd \in DOMAIN openDirs

\* directory_context and join_relative: the preopen and the path a
\* descriptor-relative path stands for.
PreOf(fd) == IF fd \in reserved THEN fd ELSE openDirs[fd].pre
Full(fd, path) == IF fd \in reserved THEN path ELSE openDirs[fd].path \o path

\* Mutant: components are not looked at.
validate_guest_path_AllowsDotDot(path) ==
    IF path = <<>> THEN "INVAL"
    ELSE IF Len(path) > MaxPath THEN "NAMETOOLONG"
    ELSE "SUCCESS"

validate_guest_path(path) ==
    IF path = <<>> THEN "INVAL"
    ELSE IF Len(path) > MaxPath THEN "NAMETOOLONG"
    ELSE IF \E i \in 1..Len(path) : path[i] \in Unsafe THEN "NOTCAPABLE"
    ELSE "SUCCESS"

resolve_directory_path(fd, path, right) ==
    IF ~has_directory_descriptor(fd) THEN "BADF"
    ELSE IF right \notin directory_rights(fd) THEN "NOTCAPABLE"
    ELSE IF Len(Full(fd, path)) > MaxPath THEN "NAMETOOLONG"
    ELSE "SUCCESS"

\* The prologue most path handlers share.
PathErrno(fd, path, right) ==
    IF validate_guest_path(path) # "SUCCESS" THEN validate_guest_path(path)
    ELSE resolve_directory_path(fd, path, right)

\* The lowest descriptor in none of the three tables.
allocate_dynamic_fd ==
    CHOOSE fd \in Fds : LET Free(d) == d \notin reserved \cup DOMAIN openFiles \cup DOMAIN openDirs
                        IN Free(fd) /\ \A d \in FirstFd..(fd - 1) : ~Free(d)
TooManyOpenFiles == Cardinality(DOMAIN openFiles) + Cardinality(DOMAIN openDirs) >= MaxOpen

Insert(table, fd, descriptor) ==
    [d \in DOMAIN table \cup {fd} |-> IF d = fd THEN descriptor ELSE table[d]]
Without(table, fd) == Restrict(table, DOMAIN table \ {fd})

-----------------------------------------------------------------------------
\* Descriptors

\* path_open of a regular file, up to the point where it may change something.
OpenErrno(fd, path, rights, flags) ==
    LET pre == PreOf(fd)  full == Full(fd, path) IN
    IF ~has_directory_descriptor(fd) THEN "BADF"
    ELSE IF ~(rights \subseteq AllowedFileRights) THEN "NOTCAPABLE"
    ELSE IF "TRUNC" \in flags /\ "WRITE" \notin rights THEN "NOTCAPABLE"
    ELSE IF PathErrno(fd, path, "OPEN") # "SUCCESS" THEN PathErrno(fd, path, "OPEN")
    ELSE IF "CREAT" \in flags /\ "CREATE_FILE" \notin directory_rights(fd) THEN "NOTCAPABLE"
    ELSE IF TooManyOpenFiles THEN "MFILE"
    ELSE IF DirAt(pre, full) THEN "NOTDIR"
    ELSE IF LinkAt(pre, full) THEN "NOTCAPABLE"
    ELSE IF FileAt(pre, full)
    THEN IF "EXCL" \in flags THEN "EXIST"
         ELSE IF rights \cap MutationRights # {}
                 /\ (~Find(files, pre, full).wr \/ pre \notin writable) THEN "NOTCAPABLE"
         ELSE "SUCCESS"
    ELSE IF "CREAT" \notin flags THEN "NOENT"
    ELSE IF pre \notin writable THEN "NOTCAPABLE"
    ELSE IF namespace_entry_count >= MaxEntries THEN "NOSPC"
    ELSE IF ~parent_directory_exists(pre, full) THEN "NOENT"
    ELSE IF nextInode = MaxInode THEN "NOSPC"
    ELSE "SUCCESS"

\* path_open without OFLAGS_DIRECTORY.  The descriptor's address was probed
\* before the call, so rollback_open is never reached.
OpenFile(fd, path, rights, flags) ==
    LET pre == PreOf(fd)  full == Full(fd, path)  created == ~FileAt(pre, full)
        ino == IF created THEN nextInode + 1 ELSE Find(files, pre, full).ino
    IN /\ OpenErrno(fd, path, rights, flags) = "SUCCESS"
       /\ openFiles' = Insert(openFiles, allocate_dynamic_fd, [ino |-> ino, rights |-> rights])
       /\ IF created
          THEN /\ files' = files \cup {[pre |-> pre, path |-> full, ino |-> ino, wr |-> TRUE]}
               /\ node' = [node EXCEPT ![ino] = [FreshNode EXCEPT !.nl = 1]]
               /\ nextInode' = ino
          ELSE /\ node' = IF "TRUNC" \in flags THEN [node EXCEPT ![ino].bytes = "empty"] ELSE node
               /\ UNCHANGED <<files, nextInode>>
       /\ UNCHANGED <<dirs, links, openDirs, reserved, writable, live>>

\* Mutant: the requested rights are not compared with the parent's.
OpenDirErrno_AnyRights(fd, path, rights) ==
    LET pre == PreOf(fd)  full == Full(fd, path) IN
    IF ~has_directory_descriptor(fd) THEN "BADF"
    ELSE IF ~(rights \subseteq AllowedDirRights) THEN "NOTCAPABLE"
    ELSE IF PathErrno(fd, path, "OPEN") # "SUCCESS" THEN PathErrno(fd, path, "OPEN")
    ELSE IF FileAt(pre, full) \/ LinkAt(pre, full) THEN "NOTDIR"
    ELSE IF ~DirAt(pre, full) THEN "NOENT"
    ELSE IF directory_inode(pre, parent_path(full)) = Nil THEN "NOENT"
    ELSE IF TooManyOpenFiles THEN "MFILE"
    ELSE "SUCCESS"

OpenDirErrno(fd, path, rights) ==
    LET pre == PreOf(fd)  full == Full(fd, path) IN
    IF ~has_directory_descriptor(fd) THEN "BADF"
    ELSE IF ~(rights \subseteq AllowedDirRights) THEN "NOTCAPABLE"
    ELSE IF PathErrno(fd, path, "OPEN") # "SUCCESS" THEN PathErrno(fd, path, "OPEN")
    ELSE IF ~(rights \subseteq directory_rights(fd)) THEN "NOTCAPABLE"
    ELSE IF FileAt(pre, full) \/ LinkAt(pre, full) THEN "NOTDIR"
    ELSE IF ~DirAt(pre, full) THEN "NOENT"
    ELSE IF directory_inode(pre, parent_path(full)) = Nil THEN "NOENT"
    ELSE IF TooManyOpenFiles THEN "MFILE"
    ELSE "SUCCESS"

\* path_open with OFLAGS_DIRECTORY: both inodes are read once, at the open.
OpenDirectory(fd, path, rights) ==
    LET pre == PreOf(fd)  full == Full(fd, path)
    IN /\ OpenDirErrno(fd, path, rights) = "SUCCESS"
       /\ openDirs' = Insert(openDirs, allocate_dynamic_fd,
                             [pre |-> pre, path |-> full, rights |-> rights,
                              ino |-> directory_inode(pre, full),
                              parent |-> directory_inode(pre, parent_path(full))])
       /\ UNCHANGED <<tree, node, openFiles, reserved, writable, live, nextInode>>

\* Mutant: the preopen table is not told.
Close_LeavesPrestat(fd) ==
    /\ fd \in DOMAIN openFiles \cup DOMAIN openDirs \cup reserved \cup live  \* else BADF
    /\ openFiles' = Without(openFiles, fd)
    /\ openDirs' = Without(openDirs, fd)
    /\ reserved' = reserved \ {fd}
    /\ writable' = writable \ {fd}
    /\ UNCHANGED <<tree, node, live, nextInode>>

\* fd_close: Filesystem::close and PreopenSet::close.
Close(fd) ==
    /\ fd \in DOMAIN openFiles \cup DOMAIN openDirs \cup reserved \cup live  \* else BADF
    /\ openFiles' = Without(openFiles, fd)
    /\ openDirs' = Without(openDirs, fd)
    /\ reserved' = reserved \ {fd}
    /\ writable' = writable \ {fd}
    /\ live' = live \ {fd}
    /\ UNCHANGED <<tree, node, nextInode>>

\* A handler that changes the bytes behind a descriptor.
Required(call) == CASE call = "fd_write"             -> {"WRITE"}
                    [] call = "fd_pwrite"            -> {"WRITE", "SEEK"}
                    [] call = "fd_allocate"          -> {"ALLOCATE"}
                    [] call = "fd_filestat_set_size" -> {"SET_SIZE"}
Writers == {"fd_write", "fd_pwrite", "fd_allocate", "fd_filestat_set_size"}

is_known_non_file(fd) == fd \in reserved \/ fd \in DOMAIN openDirs

WriteErrno(call, fd) ==
    IF call \in {"fd_allocate", "fd_filestat_set_size"} /\ is_known_non_file(fd) THEN "NOTCAPABLE"
    ELSE IF fd \notin DOMAIN openFiles THEN "BADF"
    ELSE IF ~(Required(call) \subseteq openFiles[fd].rights) THEN "NOTCAPABLE"
    ELSE "SUCCESS"

WriteFile(call, fd, bytes) ==
    /\ WriteErrno(call, fd) = "SUCCESS"
    /\ node' = [node EXCEPT ![openFiles[fd].ino].bytes = bytes]
    /\ UNCHANGED <<tree, fds, nextInode>>

SetTimesErrno(fd) ==
    IF is_known_non_file(fd) THEN "NOTCAPABLE"
    ELSE IF fd \notin DOMAIN openFiles THEN "BADF"
    ELSE IF "SET_TIMES" \notin openFiles[fd].rights THEN "NOTCAPABLE"
    ELSE "SUCCESS"

\* fd_filestat_set_times
FdSetTimes(fd, t) ==
    /\ SetTimesErrno(fd) = "SUCCESS"
    /\ node' = [node EXCEPT ![openFiles[fd].ino].times = t]
    /\ UNCHANGED <<tree, fds, nextInode>>

-----------------------------------------------------------------------------
\* The name space

\* A directory or a symbolic link is made with the next inode.
NewEntry(fd, path) == [pre |-> PreOf(fd), path |-> Full(fd, path), ino |-> nextInode + 1]

CreateDirectoryErrno(fd, path) ==
    LET pre == PreOf(fd)  full == Full(fd, path) IN
    IF PathErrno(fd, path, "CREATE_DIRECTORY") # "SUCCESS" THEN PathErrno(fd, path, "CREATE_DIRECTORY")
    ELSE IF namespace_entry_exists(pre, full) THEN "EXIST"
    ELSE IF namespace_entry_count >= MaxEntries THEN "NOSPC"
    ELSE IF ~parent_directory_exists(pre, full) THEN "NOENT"
    ELSE IF nextInode = MaxInode THEN "NOSPC"
    ELSE "SUCCESS"

\* path_create_directory
CreateDirectory(fd, path) ==
    /\ CreateDirectoryErrno(fd, path) = "SUCCESS"
    /\ dirs' = dirs \cup {NewEntry(fd, path)}
    /\ nextInode' = nextInode + 1
    /\ UNCHANGED <<files, links, node, fds>>

\* An entry whose path starts with the directory's path and a separator.
HasChild(S, pre, path) == \E e \in S : e.pre = pre /\ IsStrictPrefix(path, e.path)

\* Mutant: a directory with a symbolic link in it counts as empty.
RemoveDirectoryErrno_IgnoresSymlinks(fd, path) ==
    LET pre == PreOf(fd)  full == Full(fd, path) IN
    IF PathErrno(fd, path, "REMOVE_DIRECTORY") # "SUCCESS" THEN PathErrno(fd, path, "REMOVE_DIRECTORY")
    ELSE IF FileAt(pre, full) \/ LinkAt(pre, full) THEN "NOTDIR"
    ELSE IF ~DirAt(pre, full) THEN "NOENT"
    ELSE IF \E S \in {files, dirs} : HasChild(S, pre, full) THEN "NOTEMPTY"
    ELSE "SUCCESS"

RemoveDirectoryErrno(fd, path) ==
    LET pre == PreOf(fd)  full == Full(fd, path) IN
    IF PathErrno(fd, path, "REMOVE_DIRECTORY") # "SUCCESS" THEN PathErrno(fd, path, "REMOVE_DIRECTORY")
    ELSE IF FileAt(pre, full) \/ LinkAt(pre, full) THEN "NOTDIR"
    ELSE IF ~DirAt(pre, full) THEN "NOENT"
    ELSE IF \E S \in {files, dirs, links} : HasChild(S, pre, full) THEN "NOTEMPTY"
    ELSE "SUCCESS"

\* path_remove_directory: descriptors of the directory stay open.
RemoveDirectory(fd, path) ==
    /\ RemoveDirectoryErrno(fd, path) = "SUCCESS"
    /\ dirs' = dirs \ Named(dirs, PreOf(fd), Full(fd, path))
    /\ UNCHANGED <<files, links, node, fds, nextInode>>

SymlinkErrno(fd, path) ==
    LET pre == PreOf(fd)  full == Full(fd, path) IN
    IF PathErrno(fd, path, "SYMLINK") # "SUCCESS" THEN PathErrno(fd, path, "SYMLINK")
    ELSE IF namespace_entry_exists(pre, full) THEN "EXIST"
    ELSE IF ~parent_directory_exists(pre, full) THEN "NOENT"
    ELSE IF namespace_entry_count >= MaxEntries THEN "NOSPC"
    ELSE IF nextInode = MaxInode THEN "NOSPC"
    ELSE "SUCCESS"

\* path_symlink: the target is kept as bytes and never followed.
Symlink(fd, path) ==
    /\ SymlinkErrno(fd, path) = "SUCCESS"
    /\ links' = links \cup {NewEntry(fd, path)}
    /\ nextInode' = nextInode + 1
    /\ UNCHANGED <<files, dirs, node, fds>>

LinkErrno(ofd, opath, nfd, npath) ==
    LET pre == PreOf(nfd)  full == Full(nfd, npath) IN
    IF ~has_directory_descriptor(ofd) \/ ~has_directory_descriptor(nfd) THEN "BADF"
    ELSE IF validate_guest_path(opath) # "SUCCESS" THEN validate_guest_path(opath)
    ELSE IF validate_guest_path(npath) # "SUCCESS" THEN validate_guest_path(npath)
    ELSE IF PathErrno(ofd, opath, "LINK_SOURCE") # "SUCCESS" THEN PathErrno(ofd, opath, "LINK_SOURCE")
    ELSE IF PathErrno(nfd, npath, "LINK_TARGET") # "SUCCESS" THEN PathErrno(nfd, npath, "LINK_TARGET")
    ELSE IF namespace_entry_count >= MaxEntries THEN "NOSPC"
    ELSE IF namespace_entry_exists(pre, full) THEN "EXIST"
    ELSE IF ~parent_directory_exists(pre, full) THEN "NOENT"
    ELSE IF ~FileAt(PreOf(ofd), Full(ofd, opath)) THEN "NOENT"
    ELSE IF node[Find(files, PreOf(ofd), Full(ofd, opath)).ino].nl = 0 THEN "NOENT"
    ELSE "SUCCESS"

\* path_link: one more name, with the policy of the old one.
Link(ofd, opath, nfd, npath) ==
    LET f == Find(files, PreOf(ofd), Full(ofd, opath)) IN
    /\ LinkErrno(ofd, opath, nfd, npath) = "SUCCESS"
    /\ files' = files \cup {[f EXCEPT !.pre = PreOf(nfd), !.path = Full(nfd, npath)]}
    /\ node' = [node EXCEPT ![f.ino].nl = @ + 1]
    /\ UNCHANGED <<dirs, links, fds, nextInode>>

\* Mutant: the preopens need not be writable.
RenameErrno_AnyPreopen(ofd, opath, nfd, npath) ==
    IF ofd \notin reserved \/ nfd \notin reserved THEN "BADF"
    ELSE IF validate_guest_path(opath) # "SUCCESS" THEN validate_guest_path(opath)
    ELSE IF validate_guest_path(npath) # "SUCCESS" THEN validate_guest_path(npath)
    ELSE IF LinkAt(ofd, opath) \/ LinkAt(nfd, npath) THEN "NOTCAPABLE"
    ELSE IF ~FileAt(ofd, opath) THEN "NOENT"
    ELSE IF FileAt(nfd, npath)
            /\ Find(files, nfd, npath).ino # Find(files, ofd, opath).ino
            /\ node[Find(files, nfd, npath).ino].nl = 0 THEN "IO"
    ELSE "SUCCESS"

RenameErrno(ofd, opath, nfd, npath) ==
    IF ofd \notin reserved \/ nfd \notin reserved THEN "BADF"
    ELSE IF ofd \notin writable \/ nfd \notin writable THEN "NOTCAPABLE"
    ELSE IF validate_guest_path(opath) # "SUCCESS" THEN validate_guest_path(opath)
    ELSE IF validate_guest_path(npath) # "SUCCESS" THEN validate_guest_path(npath)
    ELSE IF LinkAt(ofd, opath) \/ LinkAt(nfd, npath) THEN "NOTCAPABLE"
    ELSE IF ~FileAt(ofd, opath) THEN "NOENT"
    ELSE IF FileAt(nfd, npath)
            /\ Find(files, nfd, npath).ino # Find(files, ofd, opath).ino
            /\ node[Find(files, nfd, npath).ino].nl = 0 THEN "IO"
    ELSE "SUCCESS"

\* Mutant: the displaced file keeps its link count.
Rename_KeepsDisplacedCount(ofd, opath, nfd, npath) ==
    LET src == Find(files, ofd, opath)
        displaced == Named(files, nfd, npath)
        moved == [src EXCEPT !.pre = nfd, !.path = npath]
    IN /\ RenameErrno(ofd, opath, nfd, npath) = "SUCCESS"
       /\ \A f \in displaced : f.ino # src.ino
       /\ files' = (files \ ({src} \cup displaced)) \cup {moved}
       /\ UNCHANGED <<dirs, links, node, fds, nextInode>>

\* path_rename, between preopens only.  Renaming to a name of the same inode
\* does nothing; another file of that name is displaced.
Rename(ofd, opath, nfd, npath) ==
    LET src == Find(files, ofd, opath)
        displaced == Named(files, nfd, npath)
        moved == [src EXCEPT !.pre = nfd, !.path = npath]
    IN /\ RenameErrno(ofd, opath, nfd, npath) = "SUCCESS"
       /\ \A f \in displaced : f.ino # src.ino
       /\ files' = (files \ ({src} \cup displaced)) \cup {moved}
       /\ node' = [i \in Inodes |-> IF \E f \in displaced : f.ino = i
                                    THEN [node[i] EXCEPT !.nl = @ - 1] ELSE node[i]]
       /\ UNCHANGED <<dirs, links, fds, nextInode>>

UnlinkErrno(fd, path) ==
    LET pre == PreOf(fd)  full == Full(fd, path) IN
    IF ~has_directory_descriptor(fd) THEN "BADF"
    ELSE IF PathErrno(fd, path, "UNLINK_FILE") # "SUCCESS" THEN PathErrno(fd, path, "UNLINK_FILE")
    ELSE IF FileAt(pre, full)
    THEN IF node[Find(files, pre, full).ino].nl = 0 THEN "IO" ELSE "SUCCESS"
    ELSE IF LinkAt(pre, full) THEN "SUCCESS" ELSE "NOENT"

\* Mutant: the newest inode is given back with its last name, as rollback_open
\* gives it back.
Unlink_GivesBackInode(fd, path) ==
    LET pre == PreOf(fd)  full == Full(fd, path)  f == Find(files, pre, full) IN
    /\ UnlinkErrno(fd, path) = "SUCCESS"
    /\ IF FileAt(pre, full)
       THEN /\ files' = files \ {f}
            /\ node' = [node EXCEPT ![f.ino].nl = @ - 1]
            /\ nextInode' = IF f.ino = nextInode /\ node[f.ino].nl = 1 THEN nextInode - 1 ELSE nextInode
            /\ UNCHANGED links
       ELSE links' = links \ Named(links, pre, full) /\ UNCHANGED <<files, node, nextInode>>
    /\ UNCHANGED <<dirs, fds>>

\* path_unlink_file: a file, or else a symbolic link, of that name.
Unlink(fd, path) ==
    LET pre == PreOf(fd)  full == Full(fd, path)  f == Find(files, pre, full) IN
    /\ UnlinkErrno(fd, path) = "SUCCESS"
    /\ IF FileAt(pre, full)
       THEN /\ files' = files \ {f}
            /\ node' = [node EXCEPT ![f.ino].nl = @ - 1]
            /\ UNCHANGED links
       ELSE links' = links \ Named(links, pre, full) /\ UNCHANGED <<files, node>>
    /\ UNCHANGED <<dirs, fds, nextInode>>

PathSetTimesErrno(fd, path) ==
    LET pre == PreOf(fd)  full == Full(fd, path) IN
    IF PathErrno(fd, path, "PATH_SET_TIMES") # "SUCCESS" THEN PathErrno(fd, path, "PATH_SET_TIMES")
    ELSE IF ~namespace_entry_exists(pre, full) THEN "NOENT"
    ELSE IF FileAt(pre, full) /\ ~Find(files, pre, full).wr THEN "NOTCAPABLE"
    ELSE "SUCCESS"

\* path_filestat_set_times: a file, or else a directory, or else a link.
PathSetTimes(fd, path, t) ==
    LET pre == PreOf(fd)  full == Full(fd, path)
        S == IF FileAt(pre, full) THEN files ELSE IF DirAt(pre, full) THEN dirs ELSE links
    IN /\ PathSetTimesErrno(fd, path) = "SUCCESS"
       /\ node' = [node EXCEPT ![Find(S, pre, full).ino].times = t]
       /\ UNCHANGED <<tree, fds, nextInode>>

-----------------------------------------------------------------------------
\* What the guest reads back

\* fd_fdstat_get: with_fdstat recorded every preopen when it was configured.
Fdstat(fd) ==
    IF fd \in Preopens THEN [type |-> "directory", rights |-> PreopenRights(fd \in WritablePre)]
    ELSE IF fd \in DOMAIN openFiles THEN [type |-> "file", rights |-> openFiles[fd].rights]
    ELSE [type |-> "directory", rights |-> openDirs[fd].rights]

\* readdir_snapshot, where it does not answer NOTSUP: the children are the
\* entries one component longer.
Children(pre, base) ==
    LET Listed(S, type) == {[name |-> Last(e.path), ino |-> e.ino, type |-> type] :
                            e \in {d \in S : d.pre = pre /\ d.path # <<>> /\ Front(d.path) = base}}
    IN Listed(dirs, "directory") \cup Listed(files, "file") \cup Listed(links, "link")

-----------------------------------------------------------------------------
Init ==
    /\ files = Mounted
    /\ dirs = {} /\ links = {}
    /\ node = [i \in Inodes |-> IF \E f \in Mounted : f.ino = i
                                THEN [nl |-> 1, bytes |-> "mounted", times |-> 0]
                                ELSE FreshNode]
    /\ openFiles = <<>> /\ openDirs = <<>>
    /\ reserved = Preopens /\ writable = WritablePre /\ live = Preopens
    /\ nextInode = Cardinality(Mounted)

OpenFlags == SUBSET {"CREAT", "EXCL", "TRUNC"}

\* Every path handler refuses a path that validate_guest_path refuses.
ValidPaths == {path \in GuestPaths : validate_guest_path(path) = "SUCCESS"}

Next ==
    \E fd \in Fds :
          \/ Close(fd)
          \/ \E call \in Writers, b \in Payloads : WriteFile(call, fd, b)
          \/ \E t \in Times : FdSetTimes(fd, t)
          \/ \E path \in ValidPaths :
                \/ \E r \in FileRights, flags \in OpenFlags : OpenFile(fd, path, r, flags)
                \/ \E r \in DirRights : OpenDirectory(fd, path, r)
                \/ CreateDirectory(fd, path)
                \/ RemoveDirectory(fd, path)
                \/ Symlink(fd, path)
                \/ Unlink(fd, path)
                \/ \E t \in Times : PathSetTimes(fd, path, t)
                \/ \E nfd \in Fds, npath \in ValidPaths :
                      \/ Link(fd, path, nfd, npath)
                      \/ Rename(fd, path, nfd, npath)

Spec == Init /\ [][Next]_vars

-----------------------------------------------------------------------------
(***************************************************************************)
(* Type correctness.  It includes traversal safety: every path in the      *)
(* name space is made of safe components and is short enough, whatever     *)
(* directory descriptor it was resolved against.                           *)
(***************************************************************************)
OpenFileRecord == [ino : Inodes, rights : SUBSET AllowedFileRights]
OpenDirRecord  == [pre : Preopens, path : SafePaths, rights : SUBSET AllowedDirRights,
                   ino : Inodes, parent : Inodes \cup {RootInode(p) : p \in Preopens}]

TypeOK ==
    /\ files \subseteq File
    /\ dirs \subseteq Entry /\ links \subseteq Entry
    /\ node \in [Inodes -> Node]
    /\ DOMAIN openFiles \subseteq Fds /\ \A fd \in DOMAIN openFiles : openFiles[fd] \in OpenFileRecord
    /\ DOMAIN openDirs \subseteq Fds /\ \A fd \in DOMAIN openDirs : openDirs[fd] \in OpenDirRecord
    /\ reserved \subseteq Preopens /\ writable \subseteq Preopens /\ live \subseteq Preopens
    /\ nextInode \in 0..MaxInode
    /\ namespace_entry_count <= MaxEntries
    /\ Cardinality(DOMAIN openFiles) + Cardinality(DOMAIN openDirs) <= MaxOpen

\* link_count, kept in a cell that path_link, path_unlink_file and path_rename
\* each adjust by hand, is the number of names the inode really has: filestat
\* shows it, and the checked_sub that would answer IO never fails.
LinkCountExact ==
    \A i \in Inodes : node[i].nl = Cardinality({f \in files : f.ino = i})

\* A descriptor means one thing: it is in at most one of the three tables, even
\* after closed slots were handed out again.  The preopen table of the prestat
\* calls agrees with the file system's, and only a preopen that is still open
\* makes its tree writable.
DescriptorsCoherent ==
    /\ DOMAIN openFiles \cap DOMAIN openDirs = {}
    /\ (DOMAIN openFiles \cup DOMAIN openDirs) \cap reserved = {}
    /\ live = reserved
    /\ writable \subseteq reserved

\* with_read_only_file and with_preopen: no sequence of links, renames,
\* truncating opens, writes and time updates changes a read-only file, and
\* nothing is added to, removed from or renamed in a read-only preopen.
ReadOnlyFrozen ==
    /\ \A m \in Mounted : ~m.wr => node[m.ino].bytes = "mounted" /\ node[m.ino].times = 0
    /\ \A p \in Preopens \ WritablePre :
          /\ {f \in files : f.pre = p} = {m \in Mounted : m.pre = p}
          /\ \A e \in dirs \cup links : e.pre # p

\* Rights attenuation through any chain of path_open and fd_close calls: a
\* right that no directory descriptor carries any more never comes back, and
\* once no writable preopen is open no further file becomes writable.
HeldRights == UNION {directory_rights(fd) : fd \in reserved \cup DOMAIN openDirs}
HeldWritable == {openFiles[fd].ino : fd \in {d \in DOMAIN openFiles : openFiles[d].rights \cap MutationRights # {}}}
CapabilitiesOnlyShrink ==
    [][/\ HeldRights' \subseteq HeldRights
       /\ (writable = {} => HeldWritable' \subseteq HeldWritable)]_vars

\* The directories an open descriptor remembers: the one it was opened on and
\* that one's parent, by the path and the inode they had at the open.
OpenedDirectories ==
    {[pre |-> d.pre, path |-> d.path, ino |-> d.ino] : d \in Range(openDirs)}
    \cup {[pre |-> d.pre, path |-> parent_path(d.path), ino |-> d.parent] : d \in Range(openDirs)}
KnownDirectories == dirs \cup OpenedDirectories

\* The inodes of files, the unlinked ones that are still open included, of
\* directories, the removed ones that are still open included, and of links.
FileInodes == {f.ino : f \in files} \cup {openFiles[fd].ino : fd \in DOMAIN openFiles}
DirectoryInodes == {d.ino : d \in KnownDirectories}
LinkInodes == {k.ino : k \in links}
InodesInUse == FileInodes \cup DirectoryInodes \cup LinkInodes

\* An inode stands for one thing, in the name space and behind every open
\* descriptor, whatever has been removed and made again since the open: for a
\* directory of one path, for a link, or for a file whose names all have its
\* write policy; next_inode is behind none of them.
InodesApart ==
    /\ \A d, e \in KnownDirectories : d.ino = e.ino => d = e
    /\ \A k, l \in links : k.ino = l.ino => k = l
    /\ \A f, g \in files : f.ino = g.ino => f.wr = g.wr
    /\ FileInodes \cap DirectoryInodes = {}
    /\ FileInodes \cap LinkInodes = {}
    /\ DirectoryInodes \cap LinkInodes = {}
    /\ \A i \in InodesInUse : i <= nextInode

\* After every handler an inode stands for one thing, and only hard links share
\* one: an entry that appears in the name space has an inode that no entry and
\* no open descriptor has, unless it is another name of a file of that inode,
\* whose link count goes up by one (path_link) or which loses the name it had
\* (path_rename).
InodeIdentity ==
    [][/\ InodesApart'
       /\ \A e \in (files' \cup dirs' \cup links') \ (files \cup dirs \cup links) :
             \/ e.ino \notin InodesInUse
             \/ /\ e \in files'
                /\ \E f \in files : /\ f.ino = e.ino
                                    /\ \/ node'[e.ino].nl = node[e.ino].nl + 1
                                       \/ f \notin files']_vars

\* The three vectors of paths form a tree: no directory and no symbolic link
\* outlives the directory it is in, no path is listed twice among the files or
\* among the directories, and a symbolic link shares its path with nothing.
TreeShape ==
    /\ \A e \in dirs \cup links : parent_directory_exists(e.pre, e.path)
    /\ \A f, g \in files : f.pre = g.pre /\ f.path = g.path => f = g
    /\ \A d, e \in dirs : d.pre = e.pre /\ d.path = e.path => d = e
    /\ \A k \in links, e \in files \cup dirs \cup links : k.pre = e.pre /\ k.path = e.path => k = e

\* What the documents say, and the code does not do.

\* "no stale preopen metadata after descriptor reuse": fd_fdstat_get describes
\* the file or directory a descriptor now refers to.
FdstatCurrent ==
    /\ \A fd \in DOMAIN openFiles : Fdstat(fd) = [type |-> "file", rights |-> openFiles[fd].rights]
    /\ \A fd \in DOMAIN openDirs : Fdstat(fd) = [type |-> "directory", rights |-> openDirs[fd].rights]

\* "atomic target replacement ... fail-closed path validation": a directory
\* never lists two entries of one name.
OneEntryPerName ==
    \A p \in Preopens : \A c, e \in Children(p, <<>>) : c.name = e.name => c = e
=============================================================================
