------------------------- MODULE WasiNamespaceProofs -------------------------
(***************************************************************************)
(* The shape of the WASI name space, its link counts, its inodes, its      *)
(* descriptors and its read-only parts, for any names, preopens, mounted   *)
(* files, limits and any sequence of calls.                                *)
(***************************************************************************)
EXTENDS WasiNamespace, FiniteSetTheorems, SequenceTheorems, WellFoundedInduction, TLAPS

\* The vectors of entries are finite, so that counting them makes sense.
Finite == IsFiniteSet(files) /\ IsFiniteSet(dirs) /\ IsFiniteSet(links)

\* next_inode is ahead of every inode in use, the ones only a descriptor still
\* holds included, and a mounted file's inode is never that of another entry.
Issued ==
    /\ Cardinality(Mounted) <= nextInode
    /\ \A fd \in DOMAIN openFiles : openFiles[fd].ino <= nextInode
    /\ \A d \in dirs \cup links : Cardinality(Mounted) < d.ino

\* The entries' inodes: a directory's and a link's is its own, also among the
\* open files, and a file's names agree on its write policy.
EntryInodes ==
    /\ \A d \in dirs \cup links :
          /\ \A f \in files : f.ino # d.ino
          /\ \A e \in dirs \cup links : e.ino = d.ino => e = d
          /\ \A fd \in DOMAIN openFiles : openFiles[fd].ino # d.ino
    /\ \A f, g \in files : f.ino = g.ino => f.wr = g.wr
    /\ \A e \in files \cup dirs \cup links : e.ino <= nextInode

\* A read-only inode stays one under every name and in every descriptor.
ReadOnlyIno == {m.ino : m \in {n \in Mounted : ~n.wr}}
Policy ==
    /\ \A f \in files : f.ino \in ReadOnlyIno => ~f.wr
    /\ \A fd \in DOMAIN openFiles :
          openFiles[fd].ino \in ReadOnlyIno => openFiles[fd].rights \cap MutationRights = {}
    /\ writable \subseteq WritablePre
    /\ \A fd \in DOMAIN openDirs : openDirs[fd].pre \in WritablePre

\* The inductive invariant.
IInv == /\ TypeOK
        /\ Finite
        /\ DescriptorsCoherent
        /\ TreeShape
        /\ EntryInodes
        /\ LinkCountExact
        /\ Issued
        /\ ReadOnlyFrozen
        /\ Policy

-----------------------------------------------------------------------------
\* Lookups, paths and descriptors.

\* The constants, as the proofs use them.
LEMMA Constants ==
    /\ MaxPath \in Nat /\ MaxEntries \in Nat /\ MaxOpen \in Nat /\ MaxInode \in Nat
    /\ Cardinality(Mounted) \in Nat /\ Cardinality(Preopens) \in Nat
    /\ Fds \subseteq Nat /\ IsFiniteSet(Fds) /\ Preopens \subseteq Fds
    /\ Inodes \subseteq Nat
    /\ Mounted \subseteq File
    /\ \A m \in Mounted : m.ino <= Cardinality(Mounted)
    /\ Cardinality(Mounted) <= MaxInode
  <1>1. MaxPath \in Nat /\ MaxEntries \in Nat /\ MaxOpen \in Nat /\ MaxInode \in Nat
    BY LimitsAssumption
  <1>2. Cardinality(Mounted) \in Nat /\ Cardinality(Preopens) \in Nat
    <2>1. IsFiniteSet(Mounted) /\ IsFiniteSet(Preopens) BY MountedAssumption, PreopensAssumption, Zenon
    <2> QED BY <2>1, FS_CardinalityType
  <1>3. Fds \subseteq Nat /\ IsFiniteSet(Fds)
    <2> DEFINE top == 3 + Cardinality(Preopens) + MaxOpen - 1
    <2>1. top \in Int BY <1>1, <1>2
    <2> HIDE DEF top
    <2>2. IsFiniteSet(3..top) /\ 3..top \subseteq Nat BY <2>1, FS_Interval
    <2> QED BY <2>2 DEF Fds, FirstFd, top
  <1>4. Preopens \subseteq Fds BY <1>1, <1>2, PreopensAssumption DEF Fds, FirstFd
  <1>5. Inodes \subseteq Nat BY <1>1 DEF Inodes
  <1>6. Mounted \subseteq File BY MountedAssumption DEF File
  <1>7. \A m \in Mounted : m.ino <= Cardinality(Mounted)
    <2> SUFFICES ASSUME NEW m \in Mounted PROVE m.ino <= Cardinality(Mounted) OBVIOUS
    <2>1. m.ino \in {f.ino : f \in Mounted} OBVIOUS
    <2>2. m.ino \in 1..Cardinality(Mounted) BY <2>1, MountedAssumption, Zenon
    <2> QED BY <1>2, <2>2
  <1>8. Cardinality(Mounted) <= MaxInode
    <2>1. CASE Cardinality(Mounted) = 0 BY <1>1, <2>1
    <2>2. CASE Cardinality(Mounted) # 0
      <3>1. Cardinality(Mounted) \in 1..Cardinality(Mounted) BY <1>2, <2>2
      <3>2. PICK m \in Mounted : m.ino = Cardinality(Mounted) BY <3>1, MountedAssumption, Zenon
      <3> QED BY <1>6, <3>2 DEF File, Inodes
    <2> QED BY <2>1, <2>2
  <1> QED BY <1>1, <1>2, <1>3, <1>4, <1>5, <1>6, <1>7, <1>8

\* An iterator's find answers an entry of the name it was asked for.
LEMMA FindNamed ==
    ASSUME NEW S, NEW pre, NEW path, Named(S, pre, path) # {}
    PROVE  /\ Find(S, pre, path) \in S
           /\ Find(S, pre, path).pre = pre /\ Find(S, pre, path).path = path
  <1>1. \E e \in S : e.pre = pre /\ e.path = path BY DEF Named
  <1> QED BY <1>1, Zenon DEF Find

\* What a path in the name space is.
LEMMA SafePath ==
    ASSUME NEW p
    PROVE  p \in SafePaths <=> p \in Seq(Names) /\ p # <<>> /\ Len(p) <= MaxPath
  <1>0. MaxPath \in Nat BY LimitsAssumption
  <1>1. ASSUME p \in SafePaths PROVE p \in Seq(Names) /\ p # <<>> /\ Len(p) <= MaxPath
    <2>1. PICK n \in 1..MaxPath : p \in [1..n -> Names] BY <1>1, Zenon DEF SafePaths
    <2> QED BY <1>0, <2>1
  <1>2. ASSUME p \in Seq(Names), p # <<>>, Len(p) <= MaxPath PROVE p \in SafePaths
    <2>1. p \in [1..Len(p) -> Names] /\ Len(p) \in 1..MaxPath
      BY <1>0, <1>2, LenProperties, EmptySeq
    <2> QED BY <2>1 DEF SafePaths
  <1> QED BY <1>1, <1>2

\* The parent of a path is a proper prefix of it.
LEMMA ParentOf ==
    ASSUME NEW p \in SafePaths
    PROVE  /\ parent_path(p) \in Seq(Names)
           /\ IsStrictPrefix(parent_path(p), p)
  <1>1. p \in Seq(Names) /\ p # <<>> /\ Len(p) \in Nat \ {0} BY SafePath, EmptySeq, LenProperties
  <1> DEFINE n == Len(p) - 1
             q == SubSeq(p, 1, n)
  <1>2. n \in Nat /\ n < Len(p) BY <1>1
  <1>3. /\ q \in Seq(Names) /\ Len(q) = n
        /\ \A i \in 1..n : q[i] = p[i]
    <2>1. \A i \in 1..n : p[i] \in Names BY <1>1, <1>2, ElementOfSeq
    <2>2. /\ q \in Seq(Names) /\ Len(q) = IF 1 <= n THEN n - 1 + 1 ELSE 0
          /\ \A i \in 1..(n - 1 + 1) : q[i] = p[1 + i - 1]
      BY <1>2, <2>1, SubSeqProperties
    <2> HIDE DEF q, n
    <2>3. n - 1 + 1 = n /\ Len(q) = n BY <1>2, <2>2
    <2>4. \A i \in 1..n : q[i] = p[i] BY <1>2, <2>2, <2>3
    <2> QED BY <2>2, <2>3, <2>4
  <1>4. SubSeq(q, 1, Len(q)) = q BY <1>3, SubSeqFull
  <1> HIDE DEF q
  <1>5. q # p BY <1>2, <1>3
  <1>6. IsStrictPrefix(q, p)
    <2>1. Len(q) <= Len(p) BY <1>1, <1>2, <1>3
    <2>2. SubSeq(p, 1, Len(q)) = q BY <1>3 DEF q
    <2> QED BY <1>4, <1>5, <2>1, <2>2 DEF IsStrictPrefix, IsPrefix
  <1> QED BY <1>3, <1>6 DEF parent_path, Front, q
\* A path that validate_guest_path lets through is a safe one.
LEMMA ValidPath ==
    ASSUME NEW path \in ValidPaths
    PROVE  path \in SafePaths /\ path \in Seq(Names)
  <1>1. path \in GuestPaths /\ validate_guest_path(path) = "SUCCESS" BY DEF ValidPaths
  <1>2. path \in Seq(Names \cup Unsafe) BY <1>1, GuestPathsAssumption
  <1>3. /\ path # <<>> /\ ~(Len(path) > MaxPath)
        /\ \A i \in 1..Len(path) : path[i] \notin Unsafe
    BY <1>1 DEF validate_guest_path
  <1>4. Len(path) \in Nat /\ MaxPath \in Nat /\ path \in [1..Len(path) -> Names \cup Unsafe]
    BY <1>2, LenProperties, LimitsAssumption
  <1>5. path \in [1..Len(path) -> Names] BY <1>3, <1>4
  <1>6. path \in Seq(Names) BY <1>4, <1>5
  <1> QED BY <1>3, <1>4, <1>6, SafePath

\* directory_context and join_relative: a path that was resolved lies in the
\* descriptor's preopen, and one resolved with a right to change lies in a
\* writable preopen.
LEMMA Resolved ==
    ASSUME IInv, NEW fd, NEW path \in ValidPaths, NEW right,
           PathErrno(fd, path, right) = "SUCCESS"
    PROVE  /\ has_directory_descriptor(fd)
           /\ PreOf(fd) \in Preopens
           /\ Full(fd, path) \in SafePaths
           /\ right \in ChangingRights => PreOf(fd) \in WritablePre
  <1>1. /\ has_directory_descriptor(fd) /\ right \in directory_rights(fd)
        /\ ~(Len(Full(fd, path)) > MaxPath)
    BY DEF PathErrno, resolve_directory_path, ValidPaths
  <1>2. path \in SafePaths /\ path \in Seq(Names) BY ValidPath
  <1>3. CASE fd \in reserved
    <2>1. PreOf(fd) = fd /\ Full(fd, path) = path BY <1>3 DEF PreOf, Full
    <2>2. fd \in Preopens BY <1>3 DEF IInv, TypeOK
    <2>3. right \in ChangingRights => fd \in writable
      BY <1>1, <1>3 DEF directory_rights, PreopenRights, ReadingRights, ChangingRights
    <2> QED BY <1>1, <1>2, <2>1, <2>2, <2>3 DEF IInv, Policy
  <1>4. CASE fd \notin reserved
    <2>1. fd \in DOMAIN openDirs BY <1>1, <1>4 DEF has_directory_descriptor
    <2>2. PreOf(fd) = openDirs[fd].pre /\ Full(fd, path) = openDirs[fd].path \o path
      BY <1>4 DEF PreOf, Full
    <2>3. openDirs[fd] \in OpenDirRecord /\ openDirs[fd].pre \in WritablePre
      BY <2>1 DEF IInv, TypeOK, Policy
    <2>4. openDirs[fd].pre \in Preopens /\ openDirs[fd].path \in Seq(Names)
      BY <2>3, SafePath DEF OpenDirRecord
    <2>5. Full(fd, path) \in Seq(Names) /\ Len(Full(fd, path)) = Len(openDirs[fd].path) + Len(path)
      BY <1>2, <2>2, <2>4, ConcatProperties
    <2>6. Full(fd, path) # <<>>
      BY <1>2, <2>4, <2>5, SafePath, LenProperties, EmptySeq
    <2>7. Len(Full(fd, path)) <= MaxPath BY <1>1, <2>5, LenProperties, LimitsAssumption
    <2> QED BY <1>1, <2>2, <2>3, <2>4, <2>5, <2>6, <2>7, SafePath
  <1> QED BY <1>3, <1>4

\* The smallest element of a set of natural numbers.
LEMMA LeastElement ==
    ASSUME NEW T, T \subseteq Nat, T # {}
    PROVE  \E n \in T : \A k \in T : n <= k
  <1> DEFINE R == OpToRel(<, Nat)
  <1>1. \E n \in T : \A k \in T : ~ (<<k, n>> \in R)
    BY NatLessThanWellFounded, WFMin
  <1>2. \A k, n \in Nat : k < n => <<k, n>> \in R
    BY DEF OpToRel
  <1> HIDE DEF R
  <1>3. PICK n \in T : \A k \in T : ~ (<<k, n>> \in R) BY <1>1
  <1>4. \A k \in T : ~(k < n) BY <1>2, <1>3
  <1> QED BY <1>3, <1>4

\* allocate_dynamic_fd finds a descriptor that is in no table: there are more
\* numbers than open descriptors as long as MAX_OPEN_FILES is not reached.
LEMMA Allocates ==
    ASSUME IInv, ~TooManyOpenFiles
    PROVE  /\ allocate_dynamic_fd \in Fds
           /\ allocate_dynamic_fd \notin reserved
           /\ allocate_dynamic_fd \notin DOMAIN openFiles
           /\ allocate_dynamic_fd \notin DOMAIN openDirs
  <1> DEFINE A == DOMAIN openFiles
             B == DOMAIN openDirs
             U == reserved \cup A \cup B
  <1>1. /\ A \subseteq Fds /\ B \subseteq Fds /\ reserved \subseteq Fds /\ reserved \subseteq Preopens
        /\ IsFiniteSet(Preopens) /\ IsFiniteSet(Fds) /\ Fds \subseteq Nat
    BY Constants, PreopensAssumption DEF IInv, TypeOK
  <1> HIDE DEF A, B
  <1>2. /\ IsFiniteSet(A) /\ IsFiniteSet(B) /\ IsFiniteSet(reserved)
        /\ Cardinality(reserved) <= Cardinality(Preopens)
    BY <1>1, FS_Subset
  <1>3. /\ Cardinality(A) \in Nat /\ Cardinality(B) \in Nat /\ Cardinality(reserved) \in Nat
        /\ Cardinality(Preopens) \in Nat /\ MaxOpen \in Nat
    BY <1>1, <1>2, FS_CardinalityType, LimitsAssumption
  <1>4. Cardinality(A) + Cardinality(B) < MaxOpen BY <1>3 DEF TooManyOpenFiles, A, B
  <1>5. IsFiniteSet(U) /\ Cardinality(U) <= Cardinality(reserved) + Cardinality(A) + Cardinality(B)
    <2>1. /\ IsFiniteSet(reserved \cup A)
          /\ Cardinality(reserved \cup A) \in Nat
          /\ Cardinality(reserved \cup A) <= Cardinality(reserved) + Cardinality(A)
      <3>1. /\ IsFiniteSet(reserved \cup A) /\ IsFiniteSet(reserved \cap A)
            /\ Cardinality(reserved \cup A)
                 = Cardinality(reserved) + Cardinality(A) - Cardinality(reserved \cap A)
        BY <1>2, FS_Union, FS_Intersection
      <3>2. Cardinality(reserved \cup A) \in Nat /\ Cardinality(reserved \cap A) \in Nat
        BY <3>1, FS_CardinalityType
      <3> QED BY <1>3, <3>1, <3>2
    <2> DEFINE V == reserved \cup A
    <2> HIDE DEF V
    <2>2. /\ IsFiniteSet(V \cup B) /\ IsFiniteSet(V \cap B)
          /\ Cardinality(V \cup B) = Cardinality(V) + Cardinality(B) - Cardinality(V \cap B)
      BY <1>2, <2>1, FS_Union, FS_Intersection DEF V
    <2>3. Cardinality(V \cup B) \in Nat /\ Cardinality(V \cap B) \in Nat /\ Cardinality(V) \in Nat
      BY <2>1, <2>2, FS_CardinalityType DEF V
    <2>4. Cardinality(V \cup B) <= Cardinality(V) + Cardinality(B) BY <1>3, <2>2, <2>3
    <2> QED BY <1>3, <2>1, <2>2, <2>3, <2>4 DEF V
  <1>6. Cardinality(Fds) = Cardinality(Preopens) + MaxOpen
    <2> DEFINE top == 3 + Cardinality(Preopens) + MaxOpen - 1
    <2>1. top \in Int BY <1>3
    <2>2. Cardinality(3..top) = IF 3 > top THEN 0 ELSE top - 3 + 1
      <3> HIDE DEF top
      <3> QED BY <2>1, FS_Interval
    <2> QED BY <1>3, <2>1, <2>2 DEF Fds, FirstFd
  <1>7. U # Fds
    <2> HIDE DEF U
    <2>1. Cardinality(U) \in Nat BY <1>5, FS_CardinalityType
    <2>2. Cardinality(U) < Cardinality(Fds) BY <1>2, <1>3, <1>4, <1>5, <1>6, <2>1
    <2> QED BY <1>3, <1>6, <2>1, <2>2
  <1>8. Fds \ U # {} /\ Fds \ U \subseteq Nat BY <1>1, <1>7
  <1>9. PICK n \in Fds \ U : \A k \in Fds \ U : n <= k BY <1>8, LeastElement
  <1>10. \A d \in FirstFd..(n - 1) : d \in Fds /\ d < n
    BY <1>1, <1>3, <1>9 DEF Fds, FirstFd
  <1>11. \E fd \in Fds : fd \notin U /\ \A d \in FirstFd..(fd - 1) : ~(d \notin U)
    <2>1. \A d \in FirstFd..(n - 1) : ~(d \notin U)
      BY <1>1, <1>9, <1>10
    <2> QED BY <1>9, <2>1
  <1>12. allocate_dynamic_fd \in Fds /\ allocate_dynamic_fd \notin U
    BY <1>11, Zenon DEF allocate_dynamic_fd, A, B
  <1> QED BY <1>12 DEF A, B

-----------------------------------------------------------------------------
\* Initially the name space holds the mounted files and nothing is open.
LEMMA InitIInv == Init => IInv
  <1> SUFFICES ASSUME Init PROVE IInv OBVIOUS
  <1> USE Constants DEF Init
  <1>0. IsFiniteSet({}) /\ Cardinality({}) = 0 BY FS_EmptySet
  <1>1. TypeOK
    <2>1. files \subseteq File /\ dirs \subseteq Entry /\ links \subseteq Entry OBVIOUS
    <2>2. node \in [Inodes -> Node] BY DEF Node, FreshNode
    <2>3. DOMAIN openFiles = {} /\ DOMAIN openDirs = {} OBVIOUS
    <2>4. reserved \subseteq Preopens /\ writable \subseteq Preopens /\ live \subseteq Preopens
      BY PreopensAssumption
    <2>5. namespace_entry_count <= MaxEntries BY <1>0, MountedAssumption DEF namespace_entry_count
    <2>6. Cardinality(DOMAIN openFiles) + Cardinality(DOMAIN openDirs) <= MaxOpen BY <1>0, <2>3
    <2> QED BY <2>1, <2>2, <2>3, <2>4, <2>5, <2>6 DEF TypeOK
  <1>2. Finite BY <1>0, MountedAssumption DEF Finite
  <1>3. DescriptorsCoherent BY PreopensAssumption DEF DescriptorsCoherent
  <1>4. TreeShape BY MountedAssumption DEF TreeShape
  <1>5. EntryInodes BY MountedAssumption DEF EntryInodes
  <1>6. LinkCountExact
    <2> SUFFICES ASSUME NEW i \in Inodes
                 PROVE  node[i].nl = Cardinality({f \in Mounted : f.ino = i})
      BY DEF LinkCountExact
    <2>1. CASE \E f \in Mounted : f.ino = i
      <3>1. PICK f \in Mounted : f.ino = i BY <2>1
      <3>2. {g \in Mounted : g.ino = i} = {f} BY <3>1, MountedAssumption
      <3> QED BY <2>1, <3>2, FS_Singleton
    <2>2. CASE ~\E f \in Mounted : f.ino = i
      <3>1. {g \in Mounted : g.ino = i} = {} BY <2>2
      <3> QED BY <1>0, <2>2, <3>1 DEF FreshNode
    <2> QED BY <2>1, <2>2
  <1>7. Issued BY DEF Issued
  <1>8. ReadOnlyFrozen
    <2>1. \A m \in Mounted : m.ino \in Inodes BY DEF File
    <2> QED BY <2>1 DEF ReadOnlyFrozen
  <1>9. Policy
    <2>1. \A f \in files : f.ino \in ReadOnlyIno => ~f.wr
      BY MountedAssumption DEF ReadOnlyIno
    <2> QED BY <2>1 DEF Policy
  <1> QED BY <1>1, <1>2, <1>3, <1>4, <1>5, <1>6, <1>7, <1>8, <1>9 DEF IInv

\* A step that changes nothing, or only the bytes and times of inodes that are
\* not read-only.
LEMMA NodeChange ==
    ASSUME IInv, UNCHANGED <<tree, fds, nextInode>>,
           node' \in [Inodes -> Node],
           \A i \in Inodes : node'[i].nl = node[i].nl,
           \A i \in ReadOnlyIno : node'[i] = node[i]
    PROVE  IInv'
  <1>0. UNCHANGED <<files, dirs, links, openFiles, openDirs, reserved, writable, live, nextInode>>
    BY DEF tree, fds
  <1>1. TypeOK' BY <1>0 DEF IInv, TypeOK, namespace_entry_count
  <1>2. Finite' /\ DescriptorsCoherent' /\ Issued' /\ Policy'
    BY <1>0 DEF IInv, Finite, DescriptorsCoherent, Issued, Policy
  <1>3. TreeShape' BY <1>0 DEF IInv, TreeShape, parent_directory_exists, DirAt
  <1>4. EntryInodes' BY <1>0 DEF IInv, EntryInodes
  <1>5. LinkCountExact' BY <1>0 DEF IInv, LinkCountExact
  <1>6. ReadOnlyFrozen'
    <2>1. \A m \in Mounted : ~m.wr => m.ino \in ReadOnlyIno BY DEF ReadOnlyIno
    <2> QED BY <1>0, <2>1 DEF IInv, ReadOnlyFrozen
  <1> QED BY <1>1, <1>2, <1>3, <1>4, <1>5, <1>6 DEF IInv

\* The bytes or the times of one inode that is not read-only.
LEMMA OneNodeChange ==
    ASSUME IInv, UNCHANGED <<tree, fds, nextInode>>,
           NEW i \in Inodes, i \notin ReadOnlyIno, NEW n \in Node,
           n.nl = node[i].nl, node' = [node EXCEPT ![i] = n]
    PROVE  IInv'
  <1>1. node \in [Inodes -> Node] BY DEF IInv, TypeOK
  <1>2. ReadOnlyIno \subseteq Inodes BY Constants DEF ReadOnlyIno, File
  <1> QED BY <1>1, <1>2, NodeChange

\* Writing, allocating or resizing needs a right that no descriptor of a
\* read-only inode has.
LEMMA WriteFileIInv ==
    ASSUME IInv, NEW call \in Writers, NEW fd, NEW b \in Payloads, WriteFile(call, fd, b)
    PROVE  IInv'
  <1>1. fd \in DOMAIN openFiles /\ Required(call) \subseteq openFiles[fd].rights
    BY DEF WriteFile, WriteErrno
  <1>2. openFiles[fd] \in OpenFileRecord BY <1>1 DEF IInv, TypeOK
  <1>3. openFiles[fd].ino \in Inodes BY <1>2 DEF OpenFileRecord
  <1>4. \E r \in MutationRights : r \in Required(call)
    BY DEF Writers, Required, MutationRights
  <1>5. openFiles[fd].ino \notin ReadOnlyIno BY <1>1, <1>4 DEF IInv, Policy
  <1> DEFINE i == openFiles[fd].ino
             n == [node[i] EXCEPT !.bytes = b]
  <1>6. node[i] \in Node BY <1>3 DEF IInv, TypeOK
  <1>7. n \in Node /\ n.nl = node[i].nl BY <1>6 DEF Node
  <1>8. node' = [node EXCEPT ![i] = n] BY <1>3 DEF WriteFile, IInv, TypeOK
  <1> QED BY <1>3, <1>5, <1>7, <1>8, OneNodeChange DEF WriteFile

\* fd_filestat_set_times, likewise.
LEMMA FdSetTimesIInv ==
    ASSUME IInv, NEW fd, NEW t \in Times, FdSetTimes(fd, t)
    PROVE  IInv'
  <1>1. fd \in DOMAIN openFiles /\ "SET_TIMES" \in openFiles[fd].rights
    BY DEF FdSetTimes, SetTimesErrno
  <1>2. openFiles[fd] \in OpenFileRecord BY <1>1 DEF IInv, TypeOK
  <1>3. openFiles[fd].ino \in Inodes BY <1>2 DEF OpenFileRecord
  <1>5. openFiles[fd].ino \notin ReadOnlyIno BY <1>1 DEF IInv, Policy, MutationRights
  <1> DEFINE i == openFiles[fd].ino
             n == [node[i] EXCEPT !.times = t]
  <1>6. node[i] \in Node BY <1>3 DEF IInv, TypeOK
  <1>7. n \in Node /\ n.nl = node[i].nl BY <1>6 DEF Node
  <1>8. node' = [node EXCEPT ![i] = n] BY <1>3 DEF FdSetTimes, IInv, TypeOK
  <1> QED BY <1>3, <1>5, <1>7, <1>8, OneNodeChange DEF FdSetTimes

\* The inodes of directories and links are none of the mounted ones.
LEMMA ReadOnlyIsFile ==
    ASSUME IInv, NEW d \in dirs \cup links PROVE d.ino \notin ReadOnlyIno
  <1>1. Cardinality(Mounted) < d.ino /\ d.ino \in Nat /\ Cardinality(Mounted) \in Nat
    BY Constants DEF IInv, Issued, TypeOK, Entry
  <1>2. \A m \in Mounted : m.ino <= Cardinality(Mounted) /\ m.ino \in Nat BY Constants DEF File
  <1> QED BY <1>1, <1>2 DEF ReadOnlyIno

\* path_filestat_set_times refuses a file that is not writable.
LEMMA PathSetTimesIInv ==
    ASSUME IInv, NEW fd, NEW path, NEW t \in Times, PathSetTimes(fd, path, t)
    PROVE  IInv'
  <1> DEFINE pre == PreOf(fd)
             full == Full(fd, path)
             S == IF FileAt(pre, full) THEN files ELSE IF DirAt(pre, full) THEN dirs ELSE links
             e == Find(S, pre, full)
             i == e.ino
             n == [node[i] EXCEPT !.times = t]
  <1>1. /\ PathSetTimesErrno(fd, path) = "SUCCESS"
        /\ node' = [node EXCEPT ![i].times = t]
        /\ UNCHANGED <<tree, fds, nextInode>>
    BY DEF PathSetTimes
  <1>2. /\ namespace_entry_exists(pre, full)
        /\ FileAt(pre, full) => Find(files, pre, full).wr
    BY <1>1 DEF PathSetTimesErrno
  <1>3. Named(S, pre, full) # {}
    BY <1>2 DEF namespace_entry_exists, FileAt, DirAt, LinkAt
  <1>4. e \in S BY <1>3, FindNamed
  <1>5. i \in Inodes /\ i \notin ReadOnlyIno
    <2>1. CASE FileAt(pre, full)
      <3>1. e \in files /\ e.wr BY <1>2, <1>4, <2>1
      <3> QED BY <3>1 DEF IInv, Policy, TypeOK, File
    <2>2. CASE ~FileAt(pre, full)
      <3>1. e \in dirs \cup links BY <1>4, <2>2
      <3>2. e \in Entry BY <3>1 DEF IInv, TypeOK
      <3> QED BY <3>1, <3>2, ReadOnlyIsFile DEF Entry
    <2> QED BY <2>1, <2>2
  <1> HIDE DEF e, S
  <1>6. node[i] \in Node BY <1>5 DEF IInv, TypeOK
  <1>7. n \in Node /\ n.nl = node[i].nl BY <1>6 DEF Node
  <1>8. node' = [node EXCEPT ![i] = n] BY <1>1, <1>5 DEF IInv, TypeOK
  <1> QED BY <1>1, <1>5, <1>7, <1>8, OneNodeChange

-----------------------------------------------------------------------------
\* A table of descriptors after an insertion and after a removal.
LEMMA TableInsert ==
    ASSUME NEW table, NEW fd, NEW descriptor
    PROVE  /\ DOMAIN Insert(table, fd, descriptor) = DOMAIN table \cup {fd}
           /\ Insert(table, fd, descriptor)[fd] = descriptor
           /\ \A d \in DOMAIN table : d # fd => Insert(table, fd, descriptor)[d] = table[d]
  BY DEF Insert

LEMMA TableRemove ==
    ASSUME NEW table, NEW fd
    PROVE  /\ DOMAIN Without(table, fd) = DOMAIN table \ {fd}
           /\ \A d \in DOMAIN table : d # fd => Without(table, fd)[d] = table[d]
  BY DEF Without, Restrict

\* The number of descriptors after an insertion of a new one.
LEMMA OneMoreOpen ==
    ASSUME NEW A, NEW B, NEW fd, A \subseteq Fds, B \subseteq Fds, fd \notin A,
           Cardinality(A) + Cardinality(B) < MaxOpen
    PROVE  Cardinality(A \cup {fd}) + Cardinality(B) <= MaxOpen
  <1>1. IsFiniteSet(A) /\ IsFiniteSet(B) BY Constants, FS_Subset
  <1>2. Cardinality(A) \in Nat /\ Cardinality(B) \in Nat /\ MaxOpen \in Nat
    BY <1>1, Constants, FS_CardinalityType
  <1>3. Cardinality(A \cup {fd}) = Cardinality(A) + 1 BY <1>1, FS_AddElement
  <1> QED BY <1>2, <1>3

\* fd_close
LEMMA CloseIInv == ASSUME IInv, NEW fd, Close(fd) PROVE IInv'
  <1>0. /\ UNCHANGED <<files, dirs, links, node, nextInode>>
        /\ openFiles' = Without(openFiles, fd) /\ openDirs' = Without(openDirs, fd)
        /\ reserved' = reserved \ {fd} /\ writable' = writable \ {fd} /\ live' = live \ {fd}
    BY DEF Close, tree
  <1>1. /\ DOMAIN openFiles' = DOMAIN openFiles \ {fd} /\ DOMAIN openDirs' = DOMAIN openDirs \ {fd}
        /\ \A d \in DOMAIN openFiles' : openFiles'[d] = openFiles[d]
        /\ \A d \in DOMAIN openDirs' : openDirs'[d] = openDirs[d]
    BY <1>0, TableRemove
  <1>2. TypeOK'
    <2>1. /\ DOMAIN openFiles \subseteq Fds /\ DOMAIN openDirs \subseteq Fds
          /\ Cardinality(DOMAIN openFiles) + Cardinality(DOMAIN openDirs) <= MaxOpen
      BY DEF IInv, TypeOK
    <2>2. IsFiniteSet(DOMAIN openFiles) /\ IsFiniteSet(DOMAIN openDirs)
      BY <2>1, Constants, FS_Subset
    <2>3. /\ Cardinality(DOMAIN openFiles') <= Cardinality(DOMAIN openFiles)
          /\ Cardinality(DOMAIN openDirs') <= Cardinality(DOMAIN openDirs)
          /\ IsFiniteSet(DOMAIN openFiles') /\ IsFiniteSet(DOMAIN openDirs')
      BY <1>1, <2>2, FS_Subset
    <2>4. /\ Cardinality(DOMAIN openFiles') \in Nat /\ Cardinality(DOMAIN openDirs') \in Nat
          /\ Cardinality(DOMAIN openFiles) \in Nat /\ Cardinality(DOMAIN openDirs) \in Nat
      BY <2>2, <2>3, FS_CardinalityType
    <2>5. Cardinality(DOMAIN openFiles') + Cardinality(DOMAIN openDirs') <= MaxOpen
      BY <2>1, <2>3, <2>4, Constants
    <2> QED BY <1>0, <1>1, <2>5 DEF IInv, TypeOK, namespace_entry_count
  <1>3. Finite' BY <1>0 DEF IInv, Finite
  <1>4. DescriptorsCoherent' BY <1>0, <1>1 DEF IInv, DescriptorsCoherent
  <1>5. TreeShape' BY <1>0 DEF IInv, TreeShape, parent_directory_exists, DirAt
  <1>6. EntryInodes' BY <1>0, <1>1 DEF IInv, EntryInodes
  <1>7. LinkCountExact' BY <1>0 DEF IInv, LinkCountExact
  <1>8. Issued' BY <1>0, <1>1 DEF IInv, Issued
  <1>9. ReadOnlyFrozen' BY <1>0 DEF IInv, ReadOnlyFrozen
  <1>10. Policy' BY <1>0, <1>1 DEF IInv, Policy
  <1> QED BY <1>2, <1>3, <1>4, <1>5, <1>6, <1>7, <1>8, <1>9, <1>10 DEF IInv

\* The inode directory_inode answers, when it answers one.
LEMMA DirectoryInode ==
    ASSUME IInv, NEW pre \in Preopens, NEW path, directory_inode(pre, path) # Nil
    PROVE  /\ directory_inode(pre, path) \in Inodes \cup {RootInode(p) : p \in Preopens}
           /\ path # <<>> => directory_inode(pre, path) \in Inodes
  <1>1. CASE path = <<>> BY <1>1 DEF directory_inode
  <1>2. CASE path # <<>>
    <2>1. DirAt(pre, path) BY <1>2 DEF directory_inode
    <2>2. Find(dirs, pre, path) \in dirs BY <2>1, FindNamed DEF DirAt
    <2> QED BY <1>2, <2>1, <2>2 DEF directory_inode, IInv, TypeOK, Entry
  <1> QED BY <1>1, <1>2

\* What path_open with OFLAGS_DIRECTORY has checked.
LEMMA OpenDirChecked ==
    ASSUME NEW fd, NEW path, NEW rights, OpenDirErrno(fd, path, rights) = "SUCCESS"
    PROVE  /\ has_directory_descriptor(fd)
           /\ rights \subseteq AllowedDirRights
           /\ rights \subseteq directory_rights(fd)
           /\ PathErrno(fd, path, "OPEN") = "SUCCESS"
           /\ DirAt(PreOf(fd), Full(fd, path))
           /\ directory_inode(PreOf(fd), parent_path(Full(fd, path))) # Nil
           /\ ~TooManyOpenFiles
  BY DEF OpenDirErrno

\* path_open of a directory: it lies in a writable preopen, because there is no
\* directory in another one.
LEMMA OpenDirectoryIInv ==
    ASSUME IInv, NEW fd, NEW path \in ValidPaths, NEW rights, OpenDirectory(fd, path, rights)
    PROVE  IInv'
  <1> DEFINE pre == PreOf(fd)
             full == Full(fd, path)
             new == allocate_dynamic_fd
             rec == [pre |-> pre, path |-> full, rights |-> rights,
                     ino |-> directory_inode(pre, full),
                     parent |-> directory_inode(pre, parent_path(full))]
  <1>0. /\ UNCHANGED <<files, dirs, links, node, openFiles, reserved, writable, live, nextInode>>
        /\ openDirs' = Insert(openDirs, new, rec)
        /\ OpenDirErrno(fd, path, rights) = "SUCCESS"
    BY DEF OpenDirectory, tree
  <1>1. /\ rights \subseteq AllowedDirRights
        /\ PathErrno(fd, path, "OPEN") = "SUCCESS"
        /\ DirAt(pre, full)
        /\ directory_inode(pre, parent_path(full)) # Nil
        /\ ~TooManyOpenFiles
    BY <1>0, OpenDirChecked
  <1>2. pre \in Preopens /\ full \in SafePaths BY <1>1, Resolved
  <1>3. new \in Fds /\ new \notin reserved /\ new \notin DOMAIN openFiles /\ new \notin DOMAIN openDirs
    BY <1>1, Allocates
  <1>4. pre \in WritablePre
    <2>1. PICK d \in dirs : d.pre = pre BY <1>1 DEF DirAt, Named
    <2> QED BY <1>2, <2>1 DEF IInv, ReadOnlyFrozen
  <1>5. rec \in OpenDirRecord
    <2>1. Find(dirs, pre, full) \in dirs BY <1>1, FindNamed DEF DirAt
    <2>2. full # <<>> BY <1>2, SafePath
    <2>3. directory_inode(pre, full) \in Inodes
      BY <1>1, <2>1, <2>2 DEF directory_inode, IInv, TypeOK, Entry
    <2>4. directory_inode(pre, parent_path(full)) \in Inodes \cup {RootInode(p) : p \in Preopens}
      BY <1>1, <1>2, DirectoryInode
    <2> QED BY <1>1, <1>2, <2>3, <2>4 DEF OpenDirRecord
  <1> HIDE DEF new, rec
  <1>6. /\ DOMAIN openDirs' = DOMAIN openDirs \cup {new} /\ openDirs'[new] = rec
        /\ \A d \in DOMAIN openDirs : openDirs'[d] = openDirs[d]
    BY <1>0, <1>3 DEF Insert
  <1>7. rec.pre = pre BY DEF rec
  <1>8. TypeOK'
    <2>1. Cardinality(DOMAIN openFiles') + Cardinality(DOMAIN openDirs') <= MaxOpen
      <3>1. DOMAIN openFiles \subseteq Fds /\ DOMAIN openDirs \subseteq Fds BY DEF IInv, TypeOK
      <3>2. IsFiniteSet(DOMAIN openFiles) /\ IsFiniteSet(DOMAIN openDirs)
        BY <3>1, Constants, FS_Subset
      <3>3. /\ Cardinality(DOMAIN openFiles) \in Nat /\ Cardinality(DOMAIN openDirs) \in Nat
            /\ MaxOpen \in Nat
        BY <3>2, Constants, FS_CardinalityType
      <3>4. Cardinality(DOMAIN openDirs) + Cardinality(DOMAIN openFiles) < MaxOpen
        BY <1>1, <3>3 DEF TooManyOpenFiles
      <3>5. Cardinality(DOMAIN openDirs \cup {new}) + Cardinality(DOMAIN openFiles) <= MaxOpen
        BY <1>3, <3>1, <3>4, OneMoreOpen
      <3>6. Cardinality(DOMAIN openDirs \cup {new}) \in Nat
        BY <3>2, FS_AddElement, FS_CardinalityType
      <3> QED BY <1>0, <1>6, <3>3, <3>5, <3>6
    <2> QED BY <1>0, <1>3, <1>5, <1>6, <2>1 DEF IInv, TypeOK, namespace_entry_count
  <1>9. Finite' BY <1>0 DEF IInv, Finite
  <1>10. DescriptorsCoherent' BY <1>0, <1>3, <1>6 DEF IInv, DescriptorsCoherent
  <1>11. TreeShape' BY <1>0 DEF IInv, TreeShape, parent_directory_exists, DirAt
  <1>12. EntryInodes' BY <1>0 DEF IInv, EntryInodes
  <1>13. LinkCountExact' BY <1>0 DEF IInv, LinkCountExact
  <1>14. Issued' BY <1>0 DEF IInv, Issued
  <1>15. ReadOnlyFrozen' BY <1>0 DEF IInv, ReadOnlyFrozen
  <1>16. Policy' BY <1>0, <1>4, <1>6, <1>7 DEF IInv, Policy
  <1> QED BY <1>8, <1>9, <1>10, <1>11, <1>12, <1>13, <1>14, <1>15, <1>16 DEF IInv

-----------------------------------------------------------------------------
\* The name space grows and shrinks.

\* The number of entries after one more was made.
LEMMA OneMoreEntry ==
    ASSUME NEW S, NEW T, NEW R, NEW e,
           IsFiniteSet(S), IsFiniteSet(T), IsFiniteSet(R),
           ~(Cardinality(S) + Cardinality(T) + Cardinality(R) >= MaxEntries)
    PROVE  /\ IsFiniteSet(S \cup {e})
           /\ Cardinality(S \cup {e}) + Cardinality(T) + Cardinality(R) <= MaxEntries
  <1>1. Cardinality(S) \in Nat /\ Cardinality(T) \in Nat /\ Cardinality(R) \in Nat /\ MaxEntries \in Nat
    BY Constants, FS_CardinalityType
  <1>2. /\ IsFiniteSet(S \cup {e})
        /\ Cardinality(S \cup {e}) = IF e \in S THEN Cardinality(S) ELSE Cardinality(S) + 1
    BY FS_AddElement
  <1> QED BY <1>1, <1>2

\* The number of entries after some were removed.
LEMMA FewerEntries ==
    ASSUME NEW S, NEW S2 \in SUBSET S, IsFiniteSet(S)
    PROVE  /\ IsFiniteSet(S2) /\ Cardinality(S2) <= Cardinality(S)
           /\ Cardinality(S2) \in Nat /\ Cardinality(S) \in Nat
  <1>1. IsFiniteSet(S2) /\ Cardinality(S2) <= Cardinality(S) BY FS_Subset
  <1> QED BY <1>1, FS_CardinalityType

\* The inode a new entry gets is nobody's.
LEMMA FreshInode ==
    ASSUME IInv, nextInode # MaxInode
    PROVE  /\ nextInode + 1 \in Inodes /\ nextInode + 1 \in 0..MaxInode
           /\ \A e \in files \cup dirs \cup links : e.ino < nextInode + 1
           /\ \A fd \in DOMAIN openFiles : openFiles[fd].ino < nextInode + 1
           /\ Cardinality(Mounted) < nextInode + 1
           /\ \A m \in Mounted : m.ino < nextInode + 1
           /\ nextInode + 1 \notin ReadOnlyIno
  <1>1. nextInode \in 0..MaxInode /\ MaxInode \in Nat BY Constants DEF IInv, TypeOK
  <1>2. nextInode \in Nat /\ nextInode + 1 \in Inodes /\ nextInode + 1 \in 0..MaxInode
    BY <1>1 DEF Inodes
  <1>3. \A e \in files \cup dirs \cup links : e.ino \in Nat /\ e.ino <= nextInode
    BY Constants DEF IInv, TypeOK, File, Entry, EntryInodes
  <1>4. \A fd \in DOMAIN openFiles : openFiles[fd].ino \in Nat /\ openFiles[fd].ino <= nextInode
    BY Constants DEF IInv, TypeOK, Issued, OpenFileRecord
  <1>5. Cardinality(Mounted) \in Nat /\ Cardinality(Mounted) <= nextInode
    BY Constants DEF IInv, Issued
  <1>6. \A m \in Mounted : m.ino \in Nat /\ m.ino <= Cardinality(Mounted) BY Constants DEF File
  <1>7. \A m \in Mounted : m.ino < nextInode + 1 BY <1>2, <1>5, <1>6
  <1>8. nextInode + 1 \notin ReadOnlyIno BY <1>2, <1>6, <1>7 DEF ReadOnlyIno
  <1> QED BY <1>2, <1>3, <1>4, <1>5, <1>7, <1>8

\* What path_create_directory has checked.
LEMMA CreateDirectoryChecked ==
    ASSUME NEW fd, NEW path, CreateDirectoryErrno(fd, path) = "SUCCESS"
    PROVE  /\ PathErrno(fd, path, "CREATE_DIRECTORY") = "SUCCESS"
           /\ ~namespace_entry_exists(PreOf(fd), Full(fd, path))
           /\ ~(namespace_entry_count >= MaxEntries)
           /\ parent_directory_exists(PreOf(fd), Full(fd, path))
           /\ nextInode # MaxInode
  BY DEF CreateDirectoryErrno

\* path_create_directory
LEMMA CreateDirectoryIInv ==
    ASSUME IInv, NEW fd, NEW path \in ValidPaths, CreateDirectory(fd, path)
    PROVE  IInv'
  <1> DEFINE pre == PreOf(fd)
             full == Full(fd, path)
             i == nextInode + 1
             e == NewEntry(fd, path)
  <1>0. /\ UNCHANGED <<files, links, node, openFiles, openDirs, reserved, writable, live>>
        /\ dirs' = dirs \cup {e} /\ nextInode' = i
        /\ CreateDirectoryErrno(fd, path) = "SUCCESS"
    BY DEF CreateDirectory, fds
  <1>1. /\ PathErrno(fd, path, "CREATE_DIRECTORY") = "SUCCESS"
        /\ ~namespace_entry_exists(pre, full)
        /\ ~(namespace_entry_count >= MaxEntries)
        /\ parent_directory_exists(pre, full)
        /\ nextInode # MaxInode
    BY <1>0, CreateDirectoryChecked
  <1>2. pre \in Preopens /\ full \in SafePaths /\ pre \in WritablePre
    BY <1>1, Resolved DEF ChangingRights
  <1>3. /\ i \in Inodes /\ i \in 0..MaxInode
        /\ \A o \in files \cup dirs \cup links : o.ino < i
        /\ \A d \in DOMAIN openFiles : openFiles[d].ino < i
        /\ Cardinality(Mounted) < i
    BY <1>1, FreshInode
  <1>4. e \in Entry /\ e.pre = pre /\ e.path = full /\ e.ino = i
    BY <1>2, <1>3 DEF NewEntry, Entry
  <1>5. \A o \in files \cup dirs \cup links : ~(o.pre = pre /\ o.path = full)
    BY <1>1 DEF namespace_entry_exists, FileAt, DirAt, LinkAt, Named
  <1> HIDE DEF e, i
  <1>6. /\ \A o \in files \cup dirs \cup links : o.ino \in Nat
        /\ \A d \in DOMAIN openFiles : openFiles[d].ino \in Nat
        /\ i \in Nat
    <2>1. \A o \in files \cup dirs \cup links : o.ino \in Nat
      BY Constants DEF IInv, TypeOK, File, Entry
    <2>2. \A d \in DOMAIN openFiles : openFiles[d].ino \in Nat
      BY Constants DEF IInv, TypeOK, OpenFileRecord
    <2> QED BY <1>3, <2>1, <2>2, Constants
  <1>7. /\ IsFiniteSet(dirs')
        /\ Cardinality(dirs') + Cardinality(files) + Cardinality(links) <= MaxEntries
    <2>1. /\ IsFiniteSet(files) /\ IsFiniteSet(dirs) /\ IsFiniteSet(links) BY DEF IInv, Finite
    <2>2. Cardinality(files) \in Nat /\ Cardinality(dirs) \in Nat /\ Cardinality(links) \in Nat
      BY <2>1, FS_CardinalityType
    <2>3. ~(Cardinality(dirs) + Cardinality(files) + Cardinality(links) >= MaxEntries)
      BY <1>1, <2>2 DEF namespace_entry_count
    <2> QED BY <1>0, <2>1, <2>3, OneMoreEntry
  <1>8. TypeOK'
    <2>1. namespace_entry_count' <= MaxEntries
      <3>1. Cardinality(files) \in Nat /\ Cardinality(dirs') \in Nat /\ Cardinality(links) \in Nat
        BY <1>7, FS_CardinalityType DEF IInv, Finite
      <3> QED BY <1>0, <1>7, <3>1 DEF namespace_entry_count
    <2> QED BY <1>0, <1>3, <1>4, <2>1 DEF IInv, TypeOK
  <1>9. Finite' BY <1>0, <1>7 DEF IInv, Finite
  <1>10. DescriptorsCoherent' BY <1>0 DEF IInv, DescriptorsCoherent
  <1>11. TreeShape'
    <2>1. \A o \in dirs' \cup links' : parent_directory_exists(o.pre, o.path)'
      <3> SUFFICES ASSUME NEW o \in dirs' \cup links' PROVE parent_directory_exists(o.pre, o.path)'
        OBVIOUS
      <3>1. parent_directory_exists(o.pre, o.path)
        BY <1>0, <1>1, <1>4 DEF IInv, TreeShape
      <3> QED BY <1>0, <3>1 DEF parent_directory_exists, DirAt, Named
    <2> QED BY <1>0, <1>4, <1>5, <2>1 DEF IInv, TreeShape
  <1>12. EntryInodes'
    <2>1. \A o \in files \cup dirs \cup links : o.ino # i /\ o.ino <= i BY <1>3, <1>6
    <2>2. \A d \in DOMAIN openFiles : openFiles[d].ino # i BY <1>3, <1>6
    <2>3. i <= i BY <1>6
    <2> QED BY <1>0, <1>4, <2>1, <2>2, <2>3 DEF IInv, EntryInodes
  <1>13. LinkCountExact' BY <1>0 DEF IInv, LinkCountExact
  <1>14. Issued'
    <2>1. \A d \in DOMAIN openFiles : openFiles[d].ino <= i BY <1>3, <1>6
    <2>2. Cardinality(Mounted) <= i BY <1>3, Constants
    <2> QED BY <1>0, <1>3, <1>4, <2>1, <2>2 DEF IInv, Issued
  <1>15. ReadOnlyFrozen' BY <1>0, <1>2, <1>4 DEF IInv, ReadOnlyFrozen
  <1>16. Policy' BY <1>0 DEF IInv, Policy
  <1> QED BY <1>8, <1>9, <1>10, <1>11, <1>12, <1>13, <1>14, <1>15, <1>16 DEF IInv

\* What path_symlink has checked.
LEMMA SymlinkChecked ==
    ASSUME NEW fd, NEW path, SymlinkErrno(fd, path) = "SUCCESS"
    PROVE  /\ PathErrno(fd, path, "SYMLINK") = "SUCCESS"
           /\ ~namespace_entry_exists(PreOf(fd), Full(fd, path))
           /\ ~(namespace_entry_count >= MaxEntries)
           /\ parent_directory_exists(PreOf(fd), Full(fd, path))
           /\ nextInode # MaxInode
  BY DEF SymlinkErrno

\* path_symlink
LEMMA SymlinkIInv ==
    ASSUME IInv, NEW fd, NEW path \in ValidPaths, Symlink(fd, path)
    PROVE  IInv'
  <1> DEFINE pre == PreOf(fd)
             full == Full(fd, path)
             i == nextInode + 1
             e == NewEntry(fd, path)
  <1>0. /\ UNCHANGED <<files, dirs, node, openFiles, openDirs, reserved, writable, live>>
        /\ links' = links \cup {e} /\ nextInode' = i
        /\ SymlinkErrno(fd, path) = "SUCCESS"
    BY DEF Symlink, fds
  <1>1. /\ PathErrno(fd, path, "SYMLINK") = "SUCCESS"
        /\ ~namespace_entry_exists(pre, full)
        /\ ~(namespace_entry_count >= MaxEntries)
        /\ parent_directory_exists(pre, full)
        /\ nextInode # MaxInode
    BY <1>0, SymlinkChecked
  <1>2. pre \in Preopens /\ full \in SafePaths /\ pre \in WritablePre
    BY <1>1, Resolved DEF ChangingRights
  <1>3. /\ i \in Inodes /\ i \in 0..MaxInode
        /\ \A o \in files \cup dirs \cup links : o.ino < i
        /\ \A d \in DOMAIN openFiles : openFiles[d].ino < i
        /\ Cardinality(Mounted) < i
    BY <1>1, FreshInode
  <1>4. e \in Entry /\ e.pre = pre /\ e.path = full /\ e.ino = i
    BY <1>2, <1>3 DEF NewEntry, Entry
  <1>5. \A o \in files \cup dirs \cup links : ~(o.pre = pre /\ o.path = full)
    BY <1>1 DEF namespace_entry_exists, FileAt, DirAt, LinkAt, Named
  <1> HIDE DEF e, i
  <1>6. /\ \A o \in files \cup dirs \cup links : o.ino \in Nat
        /\ \A d \in DOMAIN openFiles : openFiles[d].ino \in Nat
        /\ i \in Nat
    <2>1. \A o \in files \cup dirs \cup links : o.ino \in Nat
      BY Constants DEF IInv, TypeOK, File, Entry
    <2>2. \A d \in DOMAIN openFiles : openFiles[d].ino \in Nat
      BY Constants DEF IInv, TypeOK, OpenFileRecord
    <2> QED BY <1>3, <2>1, <2>2, Constants
  <1>7. /\ IsFiniteSet(links')
        /\ Cardinality(links') + Cardinality(files) + Cardinality(dirs) <= MaxEntries
    <2>1. /\ IsFiniteSet(files) /\ IsFiniteSet(dirs) /\ IsFiniteSet(links) BY DEF IInv, Finite
    <2>2. Cardinality(files) \in Nat /\ Cardinality(dirs) \in Nat /\ Cardinality(links) \in Nat
      BY <2>1, FS_CardinalityType
    <2>3. ~(Cardinality(links) + Cardinality(files) + Cardinality(dirs) >= MaxEntries)
      BY <1>1, <2>2 DEF namespace_entry_count
    <2> QED BY <1>0, <2>1, <2>3, OneMoreEntry
  <1>8. TypeOK'
    <2>1. namespace_entry_count' <= MaxEntries
      <3>1. Cardinality(files) \in Nat /\ Cardinality(dirs) \in Nat /\ Cardinality(links') \in Nat
        BY <1>7, FS_CardinalityType DEF IInv, Finite
      <3> QED BY <1>0, <1>7, <3>1 DEF namespace_entry_count
    <2> QED BY <1>0, <1>3, <1>4, <2>1 DEF IInv, TypeOK
  <1>9. Finite' BY <1>0, <1>7 DEF IInv, Finite
  <1>10. DescriptorsCoherent' BY <1>0 DEF IInv, DescriptorsCoherent
  <1>11. TreeShape'
    <2>1. \A o \in dirs' \cup links' : parent_directory_exists(o.pre, o.path)'
      <3> SUFFICES ASSUME NEW o \in dirs' \cup links' PROVE parent_directory_exists(o.pre, o.path)'
        OBVIOUS
      <3>1. parent_directory_exists(o.pre, o.path)
        BY <1>0, <1>1, <1>4 DEF IInv, TreeShape
      <3> QED BY <1>0, <3>1 DEF parent_directory_exists, DirAt, Named
    <2> QED BY <1>0, <1>4, <1>5, <2>1 DEF IInv, TreeShape
  <1>12. EntryInodes'
    <2>1. \A o \in files \cup dirs \cup links : o.ino # i /\ o.ino <= i BY <1>3, <1>6
    <2>2. \A d \in DOMAIN openFiles : openFiles[d].ino # i BY <1>3, <1>6
    <2>3. i <= i BY <1>6
    <2> QED BY <1>0, <1>4, <2>1, <2>2, <2>3 DEF IInv, EntryInodes
  <1>13. LinkCountExact' BY <1>0 DEF IInv, LinkCountExact
  <1>14. Issued'
    <2>1. \A d \in DOMAIN openFiles : openFiles[d].ino <= i BY <1>3, <1>6
    <2>2. Cardinality(Mounted) <= i BY <1>3, Constants
    <2> QED BY <1>0, <1>3, <1>4, <2>1, <2>2 DEF IInv, Issued
  <1>15. ReadOnlyFrozen' BY <1>0, <1>2, <1>4 DEF IInv, ReadOnlyFrozen
  <1>16. Policy' BY <1>0 DEF IInv, Policy
  <1> QED BY <1>8, <1>9, <1>10, <1>11, <1>12, <1>13, <1>14, <1>15, <1>16 DEF IInv

\* path_remove_directory: a directory with anything in it is refused, so no
\* entry loses its parent.
LEMMA RemoveDirectoryIInv ==
    ASSUME IInv, NEW fd, NEW path, RemoveDirectory(fd, path)
    PROVE  IInv'
  <1> DEFINE pre == PreOf(fd)
             full == Full(fd, path)
             gone == Named(dirs, pre, full)
  <1>0. /\ UNCHANGED <<files, links, node, openFiles, openDirs, reserved, writable, live, nextInode>>
        /\ dirs' = dirs \ gone
        /\ RemoveDirectoryErrno(fd, path) = "SUCCESS"
    BY DEF RemoveDirectory, fds
  <1>1. \A S \in {files, dirs, links} : ~HasChild(S, pre, full)
    BY <1>0 DEF RemoveDirectoryErrno
  <1>2. /\ IsFiniteSet(dirs') /\ Cardinality(dirs') <= Cardinality(dirs)
        /\ Cardinality(dirs') \in Nat /\ Cardinality(dirs) \in Nat
    BY <1>0, FewerEntries DEF IInv, Finite
  <1>3. dirs' \subseteq dirs BY <1>0
  <1>4. TypeOK'
    <2>1. Cardinality(files) \in Nat /\ Cardinality(links) \in Nat /\ MaxEntries \in Nat
      BY FS_CardinalityType, Constants DEF IInv, Finite
    <2>2. namespace_entry_count' <= MaxEntries
      BY <1>0, <1>2, <2>1 DEF IInv, TypeOK, namespace_entry_count
    <2> QED BY <1>0, <1>3, <2>2 DEF IInv, TypeOK
  <1>5. Finite' BY <1>0, <1>2 DEF IInv, Finite
  <1>6. DescriptorsCoherent' BY <1>0 DEF IInv, DescriptorsCoherent
  <1>7. TreeShape'
    <2>1. \A o \in dirs' \cup links' : parent_directory_exists(o.pre, o.path)'
      <3> SUFFICES ASSUME NEW o \in dirs \cup links PROVE parent_directory_exists(o.pre, o.path)'
        BY <1>0, <1>3
      <3>1. o.path \in SafePaths BY DEF IInv, TypeOK, Entry
      <3>2. IsStrictPrefix(parent_path(o.path), o.path) BY <3>1, ParentOf
      <3>3. ~(o.pre = pre /\ parent_path(o.path) = full) BY <1>1, <3>2 DEF HasChild
      <3>4. parent_directory_exists(o.pre, o.path) BY DEF IInv, TreeShape
      <3>5. CASE parent_path(o.path) = <<>> BY <3>5 DEF parent_directory_exists
      <3>6. CASE DirAt(o.pre, parent_path(o.path))
        <4>1. PICK d \in dirs : d.pre = o.pre /\ d.path = parent_path(o.path)
          BY <3>6 DEF DirAt, Named
        <4>2. d \in dirs' BY <1>0, <3>3, <4>1 DEF Named
        <4> QED BY <4>1, <4>2 DEF parent_directory_exists, DirAt, Named
      <3> QED BY <3>4, <3>5, <3>6 DEF parent_directory_exists
    <2> QED BY <1>0, <1>3, <2>1 DEF IInv, TreeShape
  <1>8. EntryInodes' BY <1>0, <1>3 DEF IInv, EntryInodes
  <1>9. LinkCountExact' BY <1>0 DEF IInv, LinkCountExact
  <1>10. Issued' BY <1>0, <1>3 DEF IInv, Issued
  <1>11. ReadOnlyFrozen' BY <1>0, <1>3 DEF IInv, ReadOnlyFrozen
  <1>12. Policy' BY <1>0 DEF IInv, Policy
  <1> QED BY <1>4, <1>5, <1>6, <1>7, <1>8, <1>9, <1>10, <1>11, <1>12 DEF IInv

\* The names of an inode.
Links(S, i) == {g \in S : g.ino = i}

\* One name more and one name less.
LEMMA CountAdd ==
    ASSUME NEW S, IsFiniteSet(S), NEW f, f \notin S, NEW i
    PROVE  Cardinality(Links(S \cup {f}, i)) =
             IF f.ino = i THEN Cardinality(Links(S, i)) + 1 ELSE Cardinality(Links(S, i))
  <1>1. Links(S, i) \subseteq S BY DEF Links
  <1>2. IsFiniteSet(Links(S, i)) BY <1>1, FS_Subset
  <1>3. CASE f.ino = i
    <2>1. Links(S \cup {f}, i) = Links(S, i) \cup {f} BY <1>3 DEF Links
    <2>2. f \notin Links(S, i) BY <1>1
    <2> QED BY <1>2, <1>3, <2>1, <2>2, FS_AddElement
  <1>4. CASE f.ino # i
    <2>1. Links(S \cup {f}, i) = Links(S, i) BY <1>4 DEF Links
    <2> QED BY <1>4, <2>1
  <1> QED BY <1>3, <1>4

LEMMA CountRemove ==
    ASSUME NEW S, IsFiniteSet(S), NEW f \in S, NEW i
    PROVE  Cardinality(Links(S \ {f}, i)) =
             IF f.ino = i THEN Cardinality(Links(S, i)) - 1 ELSE Cardinality(Links(S, i))
  <1>1. Links(S, i) \subseteq S BY DEF Links
  <1>2. IsFiniteSet(Links(S, i)) BY <1>1, FS_Subset
  <1>3. CASE f.ino = i
    <2>1. Links(S \ {f}, i) = Links(S, i) \ {f} BY <1>3 DEF Links
    <2>2. f \in Links(S, i) BY <1>3 DEF Links
    <2> QED BY <1>2, <1>3, <2>1, <2>2, FS_RemoveElement
  <1>4. CASE f.ino # i
    <2>1. Links(S \ {f}, i) = Links(S, i) BY <1>4 DEF Links
    <2> QED BY <1>4, <2>1
  <1> QED BY <1>3, <1>4

LEMMA CountType ==
    ASSUME NEW S, IsFiniteSet(S), NEW i PROVE Cardinality(Links(S, i)) \in Nat
  <1>1. Links(S, i) \subseteq S BY DEF Links
  <1> QED BY <1>1, FS_Subset, FS_CardinalityType

\* An inode with a name has a link count above zero.
LEMMA Linked ==
    ASSUME IInv, NEW f \in files
    PROVE  /\ f.ino \in Inodes /\ node[f.ino] \in Node
           /\ node[f.ino].nl \in Nat \ {0}
           /\ node[f.ino].nl = Cardinality(Links(files, f.ino))
  <1>1. f.ino \in Inodes /\ node[f.ino] \in Node /\ IsFiniteSet(files)
    BY DEF IInv, TypeOK, File, Finite
  <1>2. node[f.ino].nl = Cardinality(Links(files, f.ino))
    BY <1>1 DEF IInv, LinkCountExact, Links
  <1>3. f \in Links(files, f.ino) /\ Links(files, f.ino) \subseteq files BY DEF Links
  <1>4. IsFiniteSet(Links(files, f.ino)) BY <1>1, <1>3, FS_Subset
  <1>5. Cardinality(Links(files, f.ino)) # 0 BY <1>3, <1>4, FS_EmptySet
  <1>6. Cardinality(Links(files, f.ino)) \in Nat BY <1>4, FS_CardinalityType
  <1> QED BY <1>1, <1>2, <1>5, <1>6

\* Names of files come and go, each new one for an inode that has a name, and
\* the link counts follow.
LEMMA FilesChange ==
    ASSUME IInv, UNCHANGED <<dirs, links, fds, nextInode>>,
           files' \subseteq File, IsFiniteSet(files'), namespace_entry_count' <= MaxEntries,
           \A f \in files' : \E g \in files : f.ino = g.ino /\ f.wr = g.wr,
           \A f, g \in files' : f.pre = g.pre /\ f.path = g.path => f = g,
           \A f \in files' : ~LinkAt(f.pre, f.path),
           \A p \in Preopens \ WritablePre : {f \in files' : f.pre = p} = {f \in files : f.pre = p},
           node' \in [Inodes -> Node],
           \A i \in Inodes : node'[i].bytes = node[i].bytes /\ node'[i].times = node[i].times,
           \A i \in Inodes : node'[i].nl = Cardinality(Links(files', i))
    PROVE  IInv'
  <1>0. UNCHANGED <<dirs, links, openFiles, openDirs, reserved, writable, live, nextInode>>
    BY DEF fds
  <1>1. TypeOK' BY <1>0 DEF IInv, TypeOK
  <1>2. Finite' BY <1>0 DEF IInv, Finite
  <1>3. DescriptorsCoherent' /\ Issued' BY <1>0 DEF IInv, DescriptorsCoherent, Issued
  <1>4. TreeShape'
    <2>1. \A o \in dirs' \cup links' : parent_directory_exists(o.pre, o.path)'
      BY <1>0 DEF IInv, TreeShape, parent_directory_exists, DirAt
    <2>2. \A k \in links, f \in files' : ~(k.pre = f.pre /\ k.path = f.path) BY DEF LinkAt, Named
    <2> QED BY <1>0, <2>1, <2>2 DEF IInv, TreeShape
  <1>5. EntryInodes'
    <2>1. /\ \A d \in dirs \cup links : \A f \in files' : f.ino # d.ino
          /\ \A f \in files' : f.ino <= nextInode
          /\ \A f, g \in files' : f.ino = g.ino => f.wr = g.wr
      BY DEF IInv, EntryInodes
    <2> QED BY <1>0, <2>1 DEF IInv, EntryInodes
  <1>6. LinkCountExact' BY DEF LinkCountExact, Links
  <1>7. ReadOnlyFrozen'
    <2>1. \A m \in Mounted : m.ino \in Inodes BY Constants DEF File
    <2> QED BY <1>0, <2>1 DEF IInv, ReadOnlyFrozen
  <1>8. Policy' BY <1>0 DEF IInv, Policy
  <1> QED BY <1>1, <1>2, <1>3, <1>4, <1>5, <1>6, <1>7, <1>8 DEF IInv

\* No file has the path of a symbolic link.
LEMMA FilesAreNotLinks == ASSUME IInv, NEW f \in files PROVE ~LinkAt(f.pre, f.path)
  <1> SUFFICES ASSUME NEW k \in links, k.pre = f.pre, k.path = f.path PROVE FALSE
    BY DEF LinkAt, Named
  <1>1. k = f BY DEF IInv, TreeShape
  <1>2. k.ino # f.ino BY DEF IInv, EntryInodes
  <1> QED BY <1>1, <1>2

\* path_unlink_file
LEMMA UnlinkIInv ==
    ASSUME IInv, NEW fd, NEW path \in ValidPaths, Unlink(fd, path)
    PROVE  IInv'
  <1> DEFINE pre == PreOf(fd)
             full == Full(fd, path)
             f == Find(files, pre, full)
             n == [node[f.ino] EXCEPT !.nl = @ - 1]
  <1>0. /\ UNCHANGED <<dirs, fds, nextInode>>
        /\ UnlinkErrno(fd, path) = "SUCCESS"
    BY DEF Unlink
  <1>1. PathErrno(fd, path, "UNLINK_FILE") = "SUCCESS" BY <1>0 DEF UnlinkErrno
  <1>2. pre \in Preopens /\ pre \in WritablePre BY <1>1, Resolved DEF ChangingRights
  <1>3. IsFiniteSet(files) /\ IsFiniteSet(dirs) /\ IsFiniteSet(links) BY DEF IInv, Finite
  <1>4. /\ Cardinality(files) \in Nat /\ Cardinality(dirs) \in Nat /\ Cardinality(links) \in Nat
        /\ Cardinality(files) + Cardinality(dirs) + Cardinality(links) <= MaxEntries
        /\ MaxEntries \in Nat
    BY <1>3, FS_CardinalityType, Constants DEF IInv, TypeOK, namespace_entry_count
  <1>5. CASE FileAt(pre, full)
    <2>1. f \in files /\ f.pre = pre /\ f.path = full BY <1>5, FindNamed DEF FileAt
    <2>2. files' = files \ {f} /\ node' = [node EXCEPT ![f.ino].nl = @ - 1] /\ links' = links
      BY <1>5 DEF Unlink
    <2> HIDE DEF f
    <2>3. /\ f.ino \in Inodes /\ node[f.ino] \in Node /\ node[f.ino].nl \in Nat \ {0}
      BY <2>1, Linked
    <2>4. node' = [node EXCEPT ![f.ino] = n] BY <2>2, <2>3 DEF IInv, TypeOK
    <2>5. /\ n \in Node /\ n.nl = node[f.ino].nl - 1
          /\ n.bytes = node[f.ino].bytes /\ n.times = node[f.ino].times
      BY <2>3 DEF Node
    <2> HIDE DEF n
    <2>6. /\ node \in [Inodes -> Node] /\ node' \in [Inodes -> Node]
          /\ \A i \in Inodes : node'[i].bytes = node[i].bytes /\ node'[i].times = node[i].times
      BY <2>3, <2>4, <2>5 DEF IInv, TypeOK
    <2>7. \A i \in Inodes : node'[i].nl = Cardinality(Links(files', i))
      <3> SUFFICES ASSUME NEW i \in Inodes PROVE node'[i].nl = Cardinality(Links(files', i))
        OBVIOUS
      <3>1. node[i].nl = Cardinality(Links(files, i)) BY DEF IInv, LinkCountExact, Links
      <3>2. Cardinality(Links(files', i)) =
              IF f.ino = i THEN Cardinality(Links(files, i)) - 1 ELSE Cardinality(Links(files, i))
        BY <1>3, <2>1, <2>2, CountRemove
      <3> QED BY <2>3, <2>4, <2>5, <2>6, <3>1, <3>2
    <2>8. /\ files' \subseteq files /\ IsFiniteSet(files') /\ namespace_entry_count' <= MaxEntries
      <3>1. files' \in SUBSET files BY <2>2
      <3>2. IsFiniteSet(files') /\ Cardinality(files') <= Cardinality(files) /\ Cardinality(files') \in Nat
        BY <1>3, <3>1, FewerEntries
      <3> QED BY <1>0, <1>4, <2>2, <3>1, <3>2 DEF namespace_entry_count
    <2>9. \A p \in Preopens \ WritablePre : {g \in files' : g.pre = p} = {g \in files : g.pre = p}
      BY <1>2, <2>1, <2>2
    <2>10. /\ \A g \in files' : ~LinkAt(g.pre, g.path)
           /\ files' \subseteq File
           /\ \A g, h \in files' : g.pre = h.pre /\ g.path = h.path => g = h
      BY <2>8, FilesAreNotLinks DEF IInv, TypeOK, TreeShape
    <2>11. \A g \in files' : \E h \in files : g.ino = h.ino /\ g.wr = h.wr BY <2>8
    <2> QED BY <1>0, <2>2, <2>6, <2>7, <2>8, <2>9, <2>10, <2>11, FilesChange
  <1>6. CASE ~FileAt(pre, full)
    <2>1. links' = links \ Named(links, pre, full) /\ UNCHANGED <<files, node>>
      BY <1>6 DEF Unlink
    <2>2. UNCHANGED <<files, node, dirs, openFiles, openDirs, reserved, writable, live, nextInode>>
      BY <1>0, <2>1 DEF fds
    <2>3. links' \in SUBSET links BY <2>1
    <2>4. IsFiniteSet(links') /\ Cardinality(links') <= Cardinality(links) /\ Cardinality(links') \in Nat
      BY <1>3, <2>3, FewerEntries
    <2>5. TypeOK'
      <3>1. namespace_entry_count' <= MaxEntries BY <1>4, <2>2, <2>4 DEF namespace_entry_count
      <3> QED BY <2>2, <2>3, <3>1 DEF IInv, TypeOK
    <2>6. Finite' BY <2>2, <2>4 DEF IInv, Finite
    <2>7. DescriptorsCoherent' /\ Policy' BY <2>2 DEF IInv, DescriptorsCoherent, Policy
    <2>8. TreeShape'
      <3>1. \A o \in dirs' \cup links' : parent_directory_exists(o.pre, o.path)'
        BY <2>2, <2>3 DEF IInv, TreeShape, parent_directory_exists, DirAt
      <3> QED BY <2>2, <2>3, <3>1 DEF IInv, TreeShape
    <2>9. EntryInodes' /\ Issued' BY <2>2, <2>3 DEF IInv, EntryInodes, Issued
    <2>10. LinkCountExact' BY <2>2 DEF IInv, LinkCountExact
    <2>11. ReadOnlyFrozen' BY <2>2, <2>3 DEF IInv, ReadOnlyFrozen
    <2> QED BY <2>5, <2>6, <2>7, <2>8, <2>9, <2>10, <2>11 DEF IInv
  <1> QED BY <1>5, <1>6

\* What path_link has checked.
LEMMA LinkChecked ==
    ASSUME NEW ofd, NEW opath, NEW nfd, NEW npath, LinkErrno(ofd, opath, nfd, npath) = "SUCCESS"
    PROVE  /\ PathErrno(ofd, opath, "LINK_SOURCE") = "SUCCESS"
           /\ PathErrno(nfd, npath, "LINK_TARGET") = "SUCCESS"
           /\ ~(namespace_entry_count >= MaxEntries)
           /\ ~namespace_entry_exists(PreOf(nfd), Full(nfd, npath))
           /\ FileAt(PreOf(ofd), Full(ofd, opath))
  BY DEF LinkErrno

\* path_link: the new name has the inode and the policy of the old one, in a
\* writable preopen.
LEMMA LinkIInv ==
    ASSUME IInv, NEW ofd, NEW opath \in ValidPaths, NEW nfd, NEW npath \in ValidPaths,
           Link(ofd, opath, nfd, npath)
    PROVE  IInv'
  <1> DEFINE f == Find(files, PreOf(ofd), Full(ofd, opath))
             pre == PreOf(nfd)
             full == Full(nfd, npath)
             new == [f EXCEPT !.pre = pre, !.path = full]
             n == [node[f.ino] EXCEPT !.nl = @ + 1]
  <1>0. /\ UNCHANGED <<dirs, links, fds, nextInode>>
        /\ files' = files \cup {new}
        /\ node' = [node EXCEPT ![f.ino].nl = @ + 1]
        /\ LinkErrno(ofd, opath, nfd, npath) = "SUCCESS"
    BY DEF Link
  <1>1. /\ PathErrno(nfd, npath, "LINK_TARGET") = "SUCCESS"
        /\ ~(namespace_entry_count >= MaxEntries)
        /\ ~namespace_entry_exists(pre, full)
        /\ FileAt(PreOf(ofd), Full(ofd, opath))
    BY <1>0, LinkChecked
  <1>2. pre \in Preopens /\ full \in SafePaths /\ pre \in WritablePre
    BY <1>1, Resolved DEF ChangingRights
  <1>3. f \in files BY <1>1, FindNamed DEF FileAt
  <1> HIDE DEF f, pre, full
  <1>4. /\ f \in File /\ f.ino \in Inodes /\ node[f.ino] \in Node /\ node[f.ino].nl \in Nat
    BY <1>3, Linked DEF IInv, TypeOK
  <1>5. /\ new \in File /\ new.pre = pre /\ new.path = full
        /\ new.ino = f.ino /\ new.wr = f.wr
    BY <1>2, <1>4 DEF File
  <1> HIDE DEF new
  <1>6. \A o \in files \cup dirs \cup links : ~(o.pre = pre /\ o.path = full)
    BY <1>1 DEF namespace_entry_exists, FileAt, DirAt, LinkAt, Named
  <1>7. new \notin files BY <1>5, <1>6
  <1>8. node' = [node EXCEPT ![f.ino] = n] BY <1>0, <1>4 DEF IInv, TypeOK
  <1>9. /\ n \in Node /\ n.nl = node[f.ino].nl + 1
        /\ n.bytes = node[f.ino].bytes /\ n.times = node[f.ino].times
    BY <1>4 DEF Node
  <1> HIDE DEF n
  <1>10. /\ node \in [Inodes -> Node] /\ node' \in [Inodes -> Node]
         /\ \A i \in Inodes : node'[i].bytes = node[i].bytes /\ node'[i].times = node[i].times
    BY <1>4, <1>8, <1>9 DEF IInv, TypeOK
  <1>11. IsFiniteSet(files) /\ IsFiniteSet(dirs) /\ IsFiniteSet(links) BY DEF IInv, Finite
  <1>12. \A i \in Inodes : node'[i].nl = Cardinality(Links(files', i))
    <2> SUFFICES ASSUME NEW i \in Inodes PROVE node'[i].nl = Cardinality(Links(files', i))
      OBVIOUS
    <2>1. node[i].nl = Cardinality(Links(files, i)) BY DEF IInv, LinkCountExact, Links
    <2>2. Cardinality(Links(files', i)) =
            IF new.ino = i THEN Cardinality(Links(files, i)) + 1 ELSE Cardinality(Links(files, i))
      BY <1>0, <1>7, <1>11, CountAdd
    <2> QED BY <1>4, <1>5, <1>8, <1>9, <1>10, <2>1, <2>2
  <1>13. IsFiniteSet(files') /\ namespace_entry_count' <= MaxEntries
    <2>1. ~(Cardinality(files) + Cardinality(dirs) + Cardinality(links) >= MaxEntries)
      BY <1>1 DEF namespace_entry_count
    <2>2. /\ IsFiniteSet(files')
          /\ Cardinality(files') + Cardinality(dirs) + Cardinality(links) <= MaxEntries
      BY <1>0, <1>11, <2>1, OneMoreEntry
    <2> QED BY <1>0, <2>2 DEF namespace_entry_count
  <1>14. \A p \in Preopens \ WritablePre : {g \in files' : g.pre = p} = {g \in files : g.pre = p}
    BY <1>0, <1>2, <1>5
  <1>15. \A g \in files' : ~LinkAt(g.pre, g.path)
    <2>1. ~LinkAt(new.pre, new.path) BY <1>5, <1>6 DEF LinkAt, Named
    <2> QED BY <1>0, <2>1, FilesAreNotLinks
  <1>16. /\ files' \subseteq File
         /\ \A g, h \in files' : g.pre = h.pre /\ g.path = h.path => g = h
    BY <1>0, <1>5, <1>6 DEF IInv, TypeOK, TreeShape
  <1>17. \A g \in files' : \E h \in files : g.ino = h.ino /\ g.wr = h.wr BY <1>0, <1>3, <1>5
  <1> QED BY <1>0, <1>10, <1>12, <1>13, <1>14, <1>15, <1>16, <1>17, FilesChange

\* What path_rename has checked.
LEMMA RenameChecked ==
    ASSUME NEW ofd, NEW opath, NEW nfd, NEW npath, RenameErrno(ofd, opath, nfd, npath) = "SUCCESS"
    PROVE  /\ ofd \in reserved /\ nfd \in reserved /\ ofd \in writable /\ nfd \in writable
           /\ ~LinkAt(nfd, npath)
           /\ FileAt(ofd, opath)
  BY DEF RenameErrno

\* path_rename: the displaced file loses the name the moved one gets.
LEMMA RenameIInv ==
    ASSUME IInv, NEW ofd, NEW opath \in ValidPaths, NEW nfd, NEW npath \in ValidPaths,
           Rename(ofd, opath, nfd, npath)
    PROVE  IInv'
  <1> DEFINE src == Find(files, ofd, opath)
             displaced == Named(files, nfd, npath)
             moved == [src EXCEPT !.pre = nfd, !.path = npath]
             rest == files \ ({src} \cup displaced)
  <1>0. /\ UNCHANGED <<dirs, links, fds, nextInode>>
        /\ \A f \in displaced : f.ino # src.ino
        /\ files' = rest \cup {moved}
        /\ node' = [i \in Inodes |-> IF \E f \in displaced : f.ino = i
                                     THEN [node[i] EXCEPT !.nl = @ - 1] ELSE node[i]]
        /\ RenameErrno(ofd, opath, nfd, npath) = "SUCCESS"
    BY DEF Rename
  <1>1. /\ ofd \in WritablePre /\ nfd \in WritablePre /\ ofd \in Preopens /\ nfd \in Preopens
        /\ ~LinkAt(nfd, npath)
        /\ FileAt(ofd, opath)
    <2>1. writable \subseteq WritablePre /\ reserved \subseteq Preopens BY DEF IInv, Policy, TypeOK
    <2> QED BY <1>0, <2>1, RenameChecked
  <1>2. npath \in SafePaths BY ValidPath
  <1>3. src \in files /\ src.pre = ofd /\ src.path = opath BY <1>1, FindNamed DEF FileAt
  <1> HIDE DEF src
  <1>4. src \in File /\ src.ino \in Inodes BY <1>3 DEF IInv, TypeOK, File
  <1>5. /\ moved \in File /\ moved.pre = nfd /\ moved.path = npath
        /\ moved.ino = src.ino /\ moved.wr = src.wr
    BY <1>1, <1>2, <1>4 DEF File
  <1> HIDE DEF moved
  <1>6. IsFiniteSet(files) /\ IsFiniteSet(dirs) /\ IsFiniteSet(links) BY DEF IInv, Finite
  <1>7. \A f \in displaced : f \in files /\ f.pre = nfd /\ f.path = npath BY DEF Named
  <1>8. \A f, g \in displaced : f = g BY <1>7 DEF IInv, TreeShape
  <1>9. \A f \in files : f.pre = nfd /\ f.path = npath => f \in displaced BY DEF Named
  <1> HIDE DEF displaced
  <1>10. /\ rest \subseteq files /\ moved \notin rest
    BY <1>5, <1>9
  <1>11. /\ IsFiniteSet(rest) /\ Cardinality(rest) + 1 <= Cardinality(files)
         /\ Cardinality(rest) \in Nat /\ Cardinality(files) \in Nat
    <2>1. rest \in SUBSET (files \ {src}) /\ files \ {src} \in SUBSET files OBVIOUS
    <2>2. /\ IsFiniteSet(files \ {src}) /\ Cardinality(files \ {src}) = Cardinality(files) - 1
      BY <1>3, <1>6, FS_RemoveElement
    <2>3. /\ IsFiniteSet(rest) /\ Cardinality(rest) <= Cardinality(files \ {src})
          /\ Cardinality(rest) \in Nat /\ Cardinality(files) \in Nat
      BY <1>6, <2>1, <2>2, FewerEntries, FS_CardinalityType
    <2> HIDE DEF rest
    <2> QED BY <2>2, <2>3
  <1>12. IsFiniteSet(files') /\ namespace_entry_count' <= MaxEntries
    <2>1. IsFiniteSet(files') /\ Cardinality(files') = Cardinality(rest) + 1
      BY <1>0, <1>10, <1>11, FS_AddElement
    <2>2. /\ Cardinality(dirs) \in Nat /\ Cardinality(links) \in Nat /\ MaxEntries \in Nat
          /\ Cardinality(files) + Cardinality(dirs) + Cardinality(links) <= MaxEntries
      BY <1>6, FS_CardinalityType, Constants DEF IInv, TypeOK, namespace_entry_count
    <2> HIDE DEF rest
    <2> QED BY <1>0, <1>11, <2>1, <2>2 DEF namespace_entry_count
  <1>13. node \in [Inodes -> Node] BY DEF IInv, TypeOK
  <1>14. \A i \in Inodes :
           node'[i] = IF \E f \in displaced : f.ino = i THEN [node[i] EXCEPT !.nl = @ - 1] ELSE node[i]
    BY <1>0
  <1>15. ASSUME NEW i \in Inodes
         PROVE  /\ node'[i] \in Node
                /\ node'[i].bytes = node[i].bytes /\ node'[i].times = node[i].times
                /\ node'[i].nl = Cardinality(Links(files', i))
    <2>1. /\ node[i] \in Node /\ node[i].nl \in Nat
          /\ node[i].nl = Cardinality(Links(files, i))
      BY <1>13 DEF IInv, LinkCountExact, Links, Node
    <2>2. Cardinality(Links(files', i)) =
            IF src.ino = i THEN Cardinality(Links(rest, i)) + 1 ELSE Cardinality(Links(rest, i))
      BY <1>0, <1>5, <1>10, <1>11, CountAdd
    <2>3. /\ IsFiniteSet(files \ {src})
          /\ Cardinality(Links(files \ {src}, i)) =
               IF src.ino = i THEN Cardinality(Links(files, i)) - 1 ELSE Cardinality(Links(files, i))
      BY <1>3, <1>6, CountRemove, FS_RemoveElement
    <2>4. CASE \E f \in displaced : f.ino = i
      <3>1. PICK f \in displaced : f.ino = i BY <2>4
      <3>2. f.ino # src.ino /\ f \in files \ {src} BY <1>0, <1>7, <3>1
      <3>3. rest = (files \ {src}) \ {f} BY <1>8, <3>1
      <3>4. Cardinality(Links(rest, i)) = Cardinality(Links(files \ {src}, i)) - 1
        BY <2>3, <3>1, <3>2, <3>3, CountRemove
      <3>5. node[i].nl \in Nat \ {0} BY <1>7, <3>1, Linked
      <3>6. Cardinality(Links(files', i)) = node[i].nl - 1
        BY <2>1, <2>2, <2>3, <3>1, <3>2, <3>4
      <3>7. node'[i] = [node[i] EXCEPT !.nl = @ - 1] BY <1>14, <2>4
      <3> QED BY <2>1, <3>5, <3>6, <3>7 DEF Node
    <2>5. CASE ~\E f \in displaced : f.ino = i
      <3>1. node'[i] = node[i] BY <1>14, <2>5
      <3>2. Links(rest, i) = Links(files \ {src}, i) BY <2>5 DEF Links
      <3>3. Cardinality(Links(files', i)) = node[i].nl BY <2>1, <2>2, <2>3, <3>2
      <3> QED BY <2>1, <3>1, <3>3
    <2> QED BY <2>4, <2>5
  <1>16. node' \in [Inodes -> Node] BY <1>0, <1>14, <1>15
  <1>17. \A p \in Preopens \ WritablePre : {g \in files' : g.pre = p} = {g \in files : g.pre = p}
    BY <1>0, <1>1, <1>3, <1>5, <1>7
  <1>18. \A g \in files' : ~LinkAt(g.pre, g.path)
    BY <1>0, <1>1, <1>5, <1>10, FilesAreNotLinks
  <1>19. /\ files' \subseteq File
         /\ \A g, h \in files' : g.pre = h.pre /\ g.path = h.path => g = h
    BY <1>0, <1>5, <1>9, <1>10 DEF IInv, TypeOK, TreeShape
  <1>20. \A g \in files' : \E h \in files : g.ino = h.ino /\ g.wr = h.wr BY <1>0, <1>3, <1>5, <1>10
  <1> HIDE DEF rest
  <1> QED BY <1>0, <1>12, <1>15, <1>16, <1>17, <1>18, <1>19, <1>20, FilesChange

-----------------------------------------------------------------------------
\* path_open of a regular file.

\* What it has checked, whether the file is there or is to be created.
LEMMA OpenChecked ==
    ASSUME NEW fd, NEW path, NEW rights, NEW flags, OpenErrno(fd, path, rights, flags) = "SUCCESS"
    PROVE  /\ rights \subseteq AllowedFileRights
           /\ "TRUNC" \in flags => "WRITE" \in rights
           /\ PathErrno(fd, path, "OPEN") = "SUCCESS"
           /\ ~TooManyOpenFiles
           /\ ~DirAt(PreOf(fd), Full(fd, path)) /\ ~LinkAt(PreOf(fd), Full(fd, path))
           /\ FileAt(PreOf(fd), Full(fd, path)) /\ rights \cap MutationRights # {}
                => Find(files, PreOf(fd), Full(fd, path)).wr /\ PreOf(fd) \in writable
           /\ ~FileAt(PreOf(fd), Full(fd, path))
                => PreOf(fd) \in writable /\ ~(namespace_entry_count >= MaxEntries) /\ nextInode # MaxInode
  BY DEF OpenErrno

\* The new descriptor, for an inode that is a file's.
LEMMA OneMoreFile ==
    ASSUME IInv, ~TooManyOpenFiles, NEW rec \in OpenFileRecord,
           openFiles' = Insert(openFiles, allocate_dynamic_fd, rec)
    PROVE  /\ DOMAIN openFiles' = DOMAIN openFiles \cup {allocate_dynamic_fd}
           /\ allocate_dynamic_fd \notin DOMAIN openFiles \cup DOMAIN openDirs \cup reserved
           /\ openFiles'[allocate_dynamic_fd] = rec
           /\ \A d \in DOMAIN openFiles : openFiles'[d] = openFiles[d]
           /\ DOMAIN openFiles' \subseteq Fds
           /\ \A d \in DOMAIN openFiles' : openFiles'[d] \in OpenFileRecord
           /\ Cardinality(DOMAIN openFiles') + Cardinality(DOMAIN openDirs) <= MaxOpen
  <1> DEFINE new == allocate_dynamic_fd
  <1>1. new \in Fds /\ new \notin reserved /\ new \notin DOMAIN openFiles /\ new \notin DOMAIN openDirs
    BY Allocates
  <1> HIDE DEF new
  <1>2. openFiles' = Insert(openFiles, new, rec) BY DEF new
  <1>3. /\ DOMAIN openFiles' = DOMAIN openFiles \cup {new} /\ openFiles'[new] = rec
        /\ \A d \in DOMAIN openFiles : openFiles'[d] = openFiles[d]
    BY <1>1, <1>2 DEF Insert
  <1>4. /\ DOMAIN openFiles \subseteq Fds /\ DOMAIN openDirs \subseteq Fds
        /\ \A d \in DOMAIN openFiles : openFiles[d] \in OpenFileRecord
    BY DEF IInv, TypeOK
  <1>5. IsFiniteSet(DOMAIN openFiles) /\ IsFiniteSet(DOMAIN openDirs)
    BY <1>4, Constants, FS_Subset
  <1>6. /\ Cardinality(DOMAIN openFiles) \in Nat /\ Cardinality(DOMAIN openDirs) \in Nat
        /\ MaxOpen \in Nat
    BY <1>5, Constants, FS_CardinalityType
  <1>7. Cardinality(DOMAIN openFiles) + Cardinality(DOMAIN openDirs) < MaxOpen
    BY <1>6 DEF TooManyOpenFiles
  <1>8. Cardinality(DOMAIN openFiles \cup {new}) + Cardinality(DOMAIN openDirs) <= MaxOpen
    BY <1>1, <1>4, <1>7, OneMoreOpen
  <1> QED BY <1>1, <1>3, <1>4, <1>8 DEF new

\* A file that exists: only a writable one is opened with a right to change it
\* or truncated.
LEMMA OpenExistingIInv ==
    ASSUME IInv, NEW fd, NEW path \in ValidPaths, NEW rights, NEW flags,
           OpenFile(fd, path, rights, flags), FileAt(PreOf(fd), Full(fd, path))
    PROVE  IInv'
  <1> DEFINE pre == PreOf(fd)
             full == Full(fd, path)
             f == Find(files, pre, full)
             new == allocate_dynamic_fd
             rec == [ino |-> f.ino, rights |-> rights]
  <1>0. /\ UNCHANGED <<files, dirs, links, openDirs, reserved, writable, live, nextInode>>
        /\ openFiles' = Insert(openFiles, new, rec)
        /\ node' = IF "TRUNC" \in flags THEN [node EXCEPT ![f.ino].bytes = "empty"] ELSE node
        /\ OpenErrno(fd, path, rights, flags) = "SUCCESS"
    BY DEF OpenFile
  <1>1. /\ rights \subseteq AllowedFileRights
        /\ "TRUNC" \in flags => "WRITE" \in rights
        /\ ~TooManyOpenFiles
        /\ rights \cap MutationRights # {} => f.wr
    BY <1>0, OpenChecked
  <1>2. f \in files BY FindNamed DEF FileAt
  <1> HIDE DEF f
  <1>3. f.ino \in Inodes /\ node[f.ino] \in Node /\ node[f.ino].nl \in Nat BY <1>2, Linked
  <1>4. rec \in OpenFileRecord /\ rec.ino = f.ino /\ rec.rights = rights
    BY <1>1, <1>3 DEF OpenFileRecord
  <1>5. f.ino \in ReadOnlyIno => rights \cap MutationRights = {} /\ "TRUNC" \notin flags
    BY <1>1, <1>2 DEF IInv, Policy, MutationRights
  <1> HIDE DEF rec
  <1>6. /\ DOMAIN openFiles' = DOMAIN openFiles \cup {new}
        /\ new \notin DOMAIN openFiles \cup DOMAIN openDirs \cup reserved
        /\ openFiles'[new] = rec
        /\ \A d \in DOMAIN openFiles : openFiles'[d] = openFiles[d]
        /\ DOMAIN openFiles' \subseteq Fds
        /\ \A d \in DOMAIN openFiles' : openFiles'[d] \in OpenFileRecord
        /\ Cardinality(DOMAIN openFiles') + Cardinality(DOMAIN openDirs) <= MaxOpen
    BY <1>0, <1>1, <1>4, OneMoreFile
  <1> HIDE DEF new
  <1>7. /\ node \in [Inodes -> Node] /\ node' \in [Inodes -> Node]
        /\ \A i \in Inodes : node'[i].nl = node[i].nl
        /\ \A i \in ReadOnlyIno : node'[i] = node[i]
    <2>0. node \in [Inodes -> Node] BY DEF IInv, TypeOK
    <2>1. CASE "TRUNC" \notin flags BY <1>0, <2>0, <2>1
    <2>2. CASE "TRUNC" \in flags
      <3> DEFINE n == [node[f.ino] EXCEPT !.bytes = "empty"]
      <3>1. n \in Node /\ n.nl = node[f.ino].nl BY <1>3 DEF Node
      <3>2. node' = [node EXCEPT ![f.ino] = n] BY <1>0, <1>3, <2>0, <2>2
      <3>3. f.ino \notin ReadOnlyIno BY <1>5, <2>2
      <3>4. ReadOnlyIno \subseteq Inodes BY Constants DEF ReadOnlyIno, File
      <3> HIDE DEF n
      <3> QED BY <1>3, <2>0, <3>1, <3>2, <3>3, <3>4
    <2> QED BY <2>1, <2>2
  <1>8. TypeOK' BY <1>0, <1>6, <1>7 DEF IInv, TypeOK, namespace_entry_count
  <1>9. Finite' BY <1>0 DEF IInv, Finite
  <1>10. DescriptorsCoherent' BY <1>0, <1>6 DEF IInv, DescriptorsCoherent
  <1>11. TreeShape' BY <1>0 DEF IInv, TreeShape, parent_directory_exists, DirAt
  <1>12. EntryInodes'
    <2>1. \A d \in dirs \cup links : f.ino # d.ino BY <1>2 DEF IInv, EntryInodes
    <2> QED BY <1>0, <1>4, <1>6, <2>1 DEF IInv, EntryInodes
  <1>13. LinkCountExact' BY <1>0, <1>7 DEF IInv, LinkCountExact
  <1>14. Issued'
    <2>1. f.ino <= nextInode BY <1>2 DEF IInv, EntryInodes
    <2> QED BY <1>0, <1>4, <1>6, <2>1 DEF IInv, Issued
  <1>15. ReadOnlyFrozen'
    <2>1. \A m \in Mounted : ~m.wr => m.ino \in ReadOnlyIno BY DEF ReadOnlyIno
    <2> QED BY <1>0, <1>7, <2>1 DEF IInv, ReadOnlyFrozen
  <1>16. Policy' BY <1>0, <1>4, <1>5, <1>6 DEF IInv, Policy
  <1> QED BY <1>8, <1>9, <1>10, <1>11, <1>12, <1>13, <1>14, <1>15, <1>16 DEF IInv

\* A file that is created: it is writable, in a writable preopen, and its inode
\* is a new one.
LEMMA OpenCreatedIInv ==
    ASSUME IInv, NEW fd, NEW path \in ValidPaths, NEW rights, NEW flags,
           OpenFile(fd, path, rights, flags), ~FileAt(PreOf(fd), Full(fd, path))
    PROVE  IInv'
  <1> DEFINE pre == PreOf(fd)
             full == Full(fd, path)
             i == nextInode + 1
             new == allocate_dynamic_fd
             rec == [ino |-> i, rights |-> rights]
             f == [pre |-> pre, path |-> full, ino |-> i, wr |-> TRUE]
             n == [FreshNode EXCEPT !.nl = 1]
  <1>0. /\ UNCHANGED <<dirs, links, openDirs, reserved, writable, live>>
        /\ openFiles' = Insert(openFiles, new, rec)
        /\ files' = files \cup {f}
        /\ node' = [node EXCEPT ![i] = n]
        /\ nextInode' = i
        /\ OpenErrno(fd, path, rights, flags) = "SUCCESS"
    BY DEF OpenFile
  <1>1. /\ rights \subseteq AllowedFileRights
        /\ PathErrno(fd, path, "OPEN") = "SUCCESS"
        /\ ~TooManyOpenFiles
        /\ ~DirAt(pre, full) /\ ~LinkAt(pre, full) /\ ~FileAt(pre, full)
        /\ pre \in writable /\ ~(namespace_entry_count >= MaxEntries) /\ nextInode # MaxInode
    BY <1>0, OpenChecked
  <1>2. pre \in Preopens /\ full \in SafePaths /\ pre \in WritablePre
    BY <1>1, Resolved DEF IInv, Policy
  <1>3. /\ i \in Inodes /\ i \in 0..MaxInode
        /\ \A o \in files \cup dirs \cup links : o.ino < i
        /\ \A d \in DOMAIN openFiles : openFiles[d].ino < i
        /\ Cardinality(Mounted) < i
        /\ i \notin ReadOnlyIno
    BY <1>1, FreshInode
  <1>4. f \in File /\ f.pre = pre /\ f.path = full /\ f.ino = i /\ f.wr
    BY <1>2, <1>3 DEF File
  <1>5. rec \in OpenFileRecord /\ rec.ino = i
    BY <1>1, <1>3 DEF OpenFileRecord
  <1>6. n \in Node /\ n.nl = 1 BY DEF FreshNode, Node
  <1> HIDE DEF i, rec, f, n, pre, full
  <1>7. /\ DOMAIN openFiles' = DOMAIN openFiles \cup {new}
        /\ new \notin DOMAIN openFiles \cup DOMAIN openDirs \cup reserved
        /\ openFiles'[new] = rec
        /\ \A d \in DOMAIN openFiles : openFiles'[d] = openFiles[d]
        /\ DOMAIN openFiles' \subseteq Fds
        /\ \A d \in DOMAIN openFiles' : openFiles'[d] \in OpenFileRecord
        /\ Cardinality(DOMAIN openFiles') + Cardinality(DOMAIN openDirs) <= MaxOpen
    BY <1>0, <1>1, <1>5, OneMoreFile
  <1> HIDE DEF new
  <1>8. \A o \in files \cup dirs \cup links : ~(o.pre = pre /\ o.path = full)
    BY <1>1 DEF FileAt, DirAt, LinkAt, Named
  <1>9. f \notin files BY <1>4, <1>8
  <1>10. /\ \A o \in files \cup dirs \cup links : o.ino \in Nat
         /\ \A d \in DOMAIN openFiles : openFiles[d].ino \in Nat
         /\ i \in Nat
    <2>1. \A o \in files \cup dirs \cup links : o.ino \in Nat
      BY Constants DEF IInv, TypeOK, File, Entry
    <2>2. \A d \in DOMAIN openFiles : openFiles[d].ino \in Nat
      BY Constants DEF IInv, TypeOK, OpenFileRecord
    <2> QED BY <1>3, <2>1, <2>2, Constants
  <1>11. /\ \A o \in files \cup dirs \cup links : o.ino # i /\ o.ino <= i
         /\ \A d \in DOMAIN openFiles : openFiles[d].ino # i /\ openFiles[d].ino <= i
         /\ i <= i
    BY <1>3, <1>10
  <1>12. IsFiniteSet(files) /\ IsFiniteSet(dirs) /\ IsFiniteSet(links) BY DEF IInv, Finite
  <1>13. IsFiniteSet(files') /\ namespace_entry_count' <= MaxEntries
    <2>1. ~(Cardinality(files) + Cardinality(dirs) + Cardinality(links) >= MaxEntries)
      BY <1>1 DEF namespace_entry_count
    <2>2. /\ IsFiniteSet(files')
          /\ Cardinality(files') + Cardinality(dirs) + Cardinality(links) <= MaxEntries
      BY <1>0, <1>12, <2>1, OneMoreEntry
    <2> QED BY <1>0, <2>2 DEF namespace_entry_count
  <1>14. /\ node \in [Inodes -> Node] /\ node' \in [Inodes -> Node]
         /\ node'[i] = n /\ \A j \in Inodes : j # i => node'[j] = node[j]
    BY <1>0, <1>3, <1>6 DEF IInv, TypeOK
  <1>15. TypeOK'
    <2>1. files' \subseteq File BY <1>0, <1>4 DEF IInv, TypeOK
    <2> QED BY <1>0, <1>3, <1>7, <1>13, <1>14, <2>1 DEF IInv, TypeOK
  <1>16. Finite' BY <1>0, <1>12, <1>13 DEF Finite
  <1>17. DescriptorsCoherent' BY <1>0, <1>7 DEF IInv, DescriptorsCoherent
  <1>18. TreeShape'
    <2>1. \A o \in dirs' \cup links' : parent_directory_exists(o.pre, o.path)'
      BY <1>0 DEF IInv, TreeShape, parent_directory_exists, DirAt
    <2> QED BY <1>0, <1>4, <1>8, <2>1 DEF IInv, TreeShape
  <1>19. EntryInodes' BY <1>0, <1>4, <1>5, <1>7, <1>11 DEF IInv, EntryInodes
  <1>20. LinkCountExact'
    <2> SUFFICES ASSUME NEW j \in Inodes PROVE node'[j].nl = Cardinality(Links(files', j))
      BY DEF LinkCountExact, Links
    <2>1. node[j].nl = Cardinality(Links(files, j)) BY DEF IInv, LinkCountExact, Links
    <2>2. Cardinality(Links(files', j)) =
            IF f.ino = j THEN Cardinality(Links(files, j)) + 1 ELSE Cardinality(Links(files, j))
      BY <1>0, <1>9, <1>12, CountAdd
    <2>3. CASE j = i
      <3>1. Links(files, j) = {} BY <1>11, <2>3 DEF Links
      <3>2. Cardinality(Links(files, j)) = 0 BY <3>1, FS_EmptySet
      <3> QED BY <1>4, <1>6, <1>14, <2>2, <2>3, <3>2
    <2>4. CASE j # i BY <1>4, <1>14, <2>1, <2>2, <2>4
    <2> QED BY <2>3, <2>4
  <1>21. Issued'
    <2>1. Cardinality(Mounted) <= i BY <1>3, <1>10, Constants
    <2> QED BY <1>0, <1>5, <1>7, <1>11, <2>1 DEF IInv, Issued
  <1>22. ReadOnlyFrozen'
    <2>1. \A m \in Mounted : ~m.wr => m.ino \in ReadOnlyIno /\ m.ino \in Inodes
      BY Constants DEF ReadOnlyIno, File
    <2>2. \A p \in Preopens \ WritablePre : {g \in files' : g.pre = p} = {g \in files : g.pre = p}
      BY <1>0, <1>2, <1>4
    <2>3. \A m \in Mounted : ~m.wr => node'[m.ino] = node[m.ino] BY <1>3, <1>14, <2>1
    <2> QED BY <1>0, <2>2, <2>3 DEF IInv, ReadOnlyFrozen
  <1>23. Policy' BY <1>0, <1>3, <1>4, <1>5, <1>7 DEF IInv, Policy
  <1> QED BY <1>15, <1>16, <1>17, <1>18, <1>19, <1>20, <1>21, <1>22, <1>23 DEF IInv

-----------------------------------------------------------------------------
\* Every handler keeps the invariant.
LEMMA NextIInv == IInv /\ [Next]_vars => IInv'
  <1> SUFFICES ASSUME IInv, [Next]_vars PROVE IInv' OBVIOUS
  <1>1. CASE UNCHANGED vars
    <2>1. UNCHANGED <<tree, node, fds, nextInode>> BY <1>1 DEF vars
    <2>2. node' \in [Inodes -> Node] BY <2>1 DEF IInv, TypeOK
    <2> QED BY <2>1, <2>2, NodeChange
  <1>2. ASSUME NEW fd \in Fds, Close(fd) PROVE IInv' BY <1>2, CloseIInv
  <1>3. ASSUME NEW fd \in Fds, NEW call \in Writers, NEW b \in Payloads, WriteFile(call, fd, b)
        PROVE  IInv'
    BY <1>3, WriteFileIInv
  <1>4. ASSUME NEW fd \in Fds, NEW t \in Times, FdSetTimes(fd, t) PROVE IInv'
    BY <1>4, FdSetTimesIInv
  <1>5. ASSUME NEW fd \in Fds, NEW path \in ValidPaths, NEW r \in FileRights, NEW flags \in OpenFlags,
               OpenFile(fd, path, r, flags)
        PROVE  IInv'
    BY <1>5, OpenExistingIInv, OpenCreatedIInv
  <1>6. ASSUME NEW fd \in Fds, NEW path \in ValidPaths, NEW r \in DirRights,
               OpenDirectory(fd, path, r)
        PROVE  IInv'
    BY <1>6, OpenDirectoryIInv
  <1>7. ASSUME NEW fd \in Fds, NEW path \in ValidPaths, CreateDirectory(fd, path) PROVE IInv'
    BY <1>7, CreateDirectoryIInv
  <1>8. ASSUME NEW fd \in Fds, NEW path \in ValidPaths, RemoveDirectory(fd, path) PROVE IInv'
    BY <1>8, RemoveDirectoryIInv
  <1>9. ASSUME NEW fd \in Fds, NEW path \in ValidPaths, Symlink(fd, path) PROVE IInv'
    BY <1>9, SymlinkIInv
  <1>10. ASSUME NEW fd \in Fds, NEW path \in ValidPaths, Unlink(fd, path) PROVE IInv'
    BY <1>10, UnlinkIInv
  <1>11. ASSUME NEW fd \in Fds, NEW path \in ValidPaths, NEW t \in Times, PathSetTimes(fd, path, t)
         PROVE  IInv'
    BY <1>11, PathSetTimesIInv
  <1>12. ASSUME NEW fd \in Fds, NEW path \in ValidPaths, NEW nfd \in Fds, NEW npath \in ValidPaths,
                Link(fd, path, nfd, npath)
         PROVE  IInv'
    BY <1>12, LinkIInv
  <1>13. ASSUME NEW fd \in Fds, NEW path \in ValidPaths, NEW nfd \in Fds, NEW npath \in ValidPaths,
                Rename(fd, path, nfd, npath)
         PROVE  IInv'
    BY <1>13, RenameIInv
  <1> QED BY <1>1, <1>2, <1>3, <1>4, <1>5, <1>6, <1>7, <1>8, <1>9, <1>10, <1>11, <1>12, <1>13 DEF Next

\* The inductive invariant of the name space holds in every state.
THEOREM Invariance == Spec => []IInv
  BY InitIInv, NextIInv, PTL DEF Spec

\* Every path in the name space and behind a directory descriptor is made of
\* safe components and short enough, and no table exceeds its limit, whatever
\* sequence of handlers a guest calls.
THEOREM TypeCorrect == Spec => []TypeOK
  <1>1. IInv => TypeOK BY DEF IInv
  <1> QED BY <1>1, Invariance, PTL

\* A descriptor is in at most one of the tables and the preopen table agrees
\* with the file system's, after any reuse of closed descriptors.
THEOREM CoherentDescriptors == Spec => []DescriptorsCoherent
  <1>1. IInv => DescriptorsCoherent BY DEF IInv
  <1> QED BY <1>1, Invariance, PTL

\* The link count each handler adjusts by hand is the number of names.
THEOREM ExactLinkCounts == Spec => []LinkCountExact
  <1>1. IInv => LinkCountExact BY DEF IInv
  <1> QED BY <1>1, Invariance, PTL

\* Read-only files and read-only preopens never change.
THEOREM FrozenReadOnly == Spec => []ReadOnlyFrozen
  <1>1. IInv => ReadOnlyFrozen BY DEF IInv
  <1> QED BY <1>1, Invariance, PTL

\* The three vectors of paths form a tree.
THEOREM ShapedAsTree == Spec => []TreeShape
  <1>1. IInv => TreeShape BY DEF IInv
  <1> QED BY <1>1, Invariance, PTL

-----------------------------------------------------------------------------
\* Inodes are not issued again.

\* The directories the file system knows of, with the roots of the preopens:
\* the name space's, and those an open descriptor holds or has as its parent,
\* whether or not they have been removed since.
Roots == {[pre |-> p, path |-> <<>>, ino |-> RootInode(p)] : p \in Preopens}
Known == KnownDirectories \cup Roots

\* What the handlers preserve of them besides IInv: an inode is that of one
\* known directory, and of no file, open file or link.
Opened ==
    /\ \A d, e \in Known : d.ino = e.ino => d = e
    /\ \A d \in Known : d.ino \in Int /\ d.ino <= nextInode
    /\ \A d \in Known : d.ino \notin FileInodes \cup LinkInodes

\* An entry that appears has an inode nothing has, or is one more name of a file.
Fresh ==
    \A e \in (files' \cup dirs' \cup links') \ (files \cup dirs \cup links) :
       \/ e.ino \notin InodesInUse
       \/ /\ e \in files'
          /\ \E f \in files : /\ f.ino = e.ino
                              /\ \/ node'[e.ino].nl = node[e.ino].nl + 1
                                 \/ f \notin files'

LEMMA InitOpened == Init => Opened
  <1> SUFFICES ASSUME Init PROVE Opened OBVIOUS
  <1>1. dirs = {} /\ links = {} /\ openDirs = <<>> /\ openFiles = <<>> /\ files = Mounted
        /\ nextInode = Cardinality(Mounted)
    BY DEF Init
  <1>2. DOMAIN openDirs = {} /\ DOMAIN openFiles = {} BY <1>1
  <1>3. KnownDirectories = {} BY <1>1, <1>2 DEF KnownDirectories, OpenedDirectories, Range
  <1>4. LinkInodes = {} /\ FileInodes \subseteq Inodes
    BY <1>1, <1>2, Constants DEF LinkInodes, FileInodes, File
  <1>5. \A p \in Preopens : p \in Nat BY Constants
  <1>6. \A d \in Roots : \E p \in Preopens :
          d = [pre |-> p, path |-> <<>>, ino |-> -p] /\ d.ino = -p
    BY DEF Roots, RootInode
  <1>7. \A d \in Roots : d.ino \in Int /\ d.ino <= 0 BY <1>5, <1>6
  <1>8. \A d, e \in Roots : d.ino = e.ino => d = e BY <1>5, <1>6
  <1>9. \A i \in Inodes : i > 0 BY Constants DEF Inodes
  <1> QED BY <1>1, <1>3, <1>4, <1>7, <1>8, <1>9, Constants DEF Opened, Known

\* Every inode in use has been issued.
LEMMA InUseIssued ==
    ASSUME IInv, Opened
    PROVE  /\ nextInode \in Nat
           /\ \A i \in InodesInUse : i \in Int /\ i <= nextInode
           /\ \A d \in Known : d.ino # nextInode + 1
           /\ nextInode + 1 \notin InodesInUse
  <1>1. nextInode \in Nat BY Constants DEF IInv, TypeOK
  <1>2. \A i \in FileInodes \cup LinkInodes : i \in Int /\ i <= nextInode
    <2>1. \A e \in files \cup links : e.ino \in Inodes /\ e.ino <= nextInode
      BY DEF IInv, TypeOK, File, Entry, EntryInodes
    <2>2. \A fd \in DOMAIN openFiles : openFiles[fd].ino \in Inodes /\ openFiles[fd].ino <= nextInode
      BY DEF IInv, TypeOK, OpenFileRecord, Issued
    <2>3. \A i \in FileInodes \cup LinkInodes : i \in Inodes /\ i <= nextInode
      BY <2>1, <2>2, Zenon DEF FileInodes, LinkInodes
    <2>4. \A i \in Inodes : i \in Int BY Constants
    <2> QED BY <2>3, <2>4, Zenon
  <1>3. \A i \in DirectoryInodes : i \in Int /\ i <= nextInode
    BY DEF Opened, DirectoryInodes, Known
  <1>4. \A d \in Known : d.ino # nextInode + 1 BY <1>1 DEF Opened
  <1>5. \A i \in InodesInUse : i \in Int /\ i <= nextInode BY <1>2, <1>3 DEF InodesInUse
  <1> QED BY <1>1, <1>4, <1>5

\* A handler after which fewer or the same directories are known and fewer or
\* the same inodes in use.
LEMMA OpenedSame ==
    ASSUME Opened, Known' \subseteq Known, nextInode' = nextInode,
           FileInodes' \subseteq FileInodes, LinkInodes' \subseteq LinkInodes
    PROVE  Opened'
  BY DEF Opened

\* A handler that makes a directory, a link or a file with the next inode.
LEMMA OpenedNext ==
    ASSUME IInv, Opened, nextInode' = nextInode + 1, NEW e, e.ino = nextInode + 1,
           \/ /\ Known' \subseteq Known \cup {e}
              /\ FileInodes' \subseteq FileInodes /\ LinkInodes' \subseteq LinkInodes
           \/ /\ Known' \subseteq Known
              /\ FileInodes' \cup LinkInodes' \subseteq FileInodes \cup LinkInodes \cup {e.ino}
    PROVE  Opened'
  <1>1. nextInode \in Nat /\ nextInode + 1 \notin InodesInUse /\ \A d \in Known : d.ino # nextInode + 1
    BY InUseIssued
  <1>2. e.ino \notin FileInodes \cup LinkInodes BY <1>1 DEF InodesInUse
  <1> QED BY <1>1, <1>2 DEF Opened

\* What is known of the directories depends on dirs and openDirs only.
LEMMA KnownSame == ASSUME dirs' \subseteq dirs, openDirs' = openDirs PROVE Known' \subseteq Known
  BY DEF Known, KnownDirectories, OpenedDirectories, Roots, Range

\* fd_close
LEMMA CloseOpened == ASSUME Opened, NEW fd, Close(fd) PROVE Opened' /\ Fresh
  <1>1. /\ UNCHANGED <<files, dirs, links, nextInode>>
        /\ openFiles' = Without(openFiles, fd) /\ openDirs' = Without(openDirs, fd)
    BY DEF Close, tree
  <1>2. /\ DOMAIN openFiles' \subseteq DOMAIN openFiles /\ DOMAIN openDirs' \subseteq DOMAIN openDirs
        /\ \A d \in DOMAIN openFiles' : openFiles'[d] = openFiles[d]
        /\ \A d \in DOMAIN openDirs' : openDirs'[d] = openDirs[d]
    BY <1>1, TableRemove
  <1>3. Range(openDirs)' \subseteq Range(openDirs) BY <1>2 DEF Range
  <1>4. Known' \subseteq Known BY <1>1, <1>3 DEF Known, KnownDirectories, OpenedDirectories, Roots
  <1>5. FileInodes' \subseteq FileInodes /\ LinkInodes' = LinkInodes
    BY <1>1, <1>2 DEF FileInodes, LinkInodes
  <1> QED BY <1>1, <1>4, <1>5, OpenedSame DEF Fresh

\* path_open of a directory: both inodes it reads are a known directory's.
LEMMA OpenDirectoryOpened ==
    ASSUME IInv, Opened, NEW fd, NEW path \in ValidPaths, NEW rights, OpenDirectory(fd, path, rights)
    PROVE  Opened' /\ Fresh
  <1> DEFINE pre == PreOf(fd)
             full == Full(fd, path)
             up == parent_path(full)
             new == allocate_dynamic_fd
             rec == [pre |-> pre, path |-> full, rights |-> rights,
                     ino |-> directory_inode(pre, full), parent |-> directory_inode(pre, up)]
  <1>1. /\ UNCHANGED <<files, dirs, links, openFiles, nextInode>>
        /\ openDirs' = Insert(openDirs, new, rec)
        /\ OpenDirErrno(fd, path, rights) = "SUCCESS"
    BY DEF OpenDirectory, tree
  <1>2. /\ DirAt(pre, full) /\ directory_inode(pre, up) # Nil /\ ~TooManyOpenFiles
        /\ PathErrno(fd, path, "OPEN") = "SUCCESS"
    BY <1>1, OpenDirChecked
  <1>3. pre \in Preopens /\ full # <<>> BY <1>2, Resolved, SafePath
  <1> HIDE DEF pre, full, up
  \* The record of a directory that is there.
  <1>4. ASSUME NEW q, DirAt(pre, q), q # <<>>
        PROVE  [pre |-> pre, path |-> q, ino |-> directory_inode(pre, q)] \in Known
    <2> DEFINE d == Find(dirs, pre, q)
    <2>1. d \in dirs /\ d.pre = pre /\ d.path = q BY <1>4, FindNamed DEF DirAt
    <2>2. directory_inode(pre, q) = d.ino BY <1>4 DEF directory_inode
    <2> HIDE DEF d
    <2>3. d \in Entry BY <2>1 DEF IInv, TypeOK
    <2>4. d = [pre |-> pre, path |-> q, ino |-> d.ino] BY <2>1, <2>3 DEF Entry
    <2> QED BY <2>1, <2>2, <2>4 DEF Known, KnownDirectories
  <1>5. [pre |-> pre, path |-> full, ino |-> directory_inode(pre, full)] \in Known
    BY <1>2, <1>3, <1>4
  <1>6. [pre |-> pre, path |-> up, ino |-> directory_inode(pre, up)] \in Known
    <2>1. CASE up = <<>> BY <1>3, <2>1 DEF directory_inode, Known, Roots
    <2>2. CASE up # <<>>
      <3>1. DirAt(pre, up) BY <1>2, <2>2 DEF directory_inode
      <3> QED BY <1>4, <2>2, <3>1
    <2> QED BY <2>1, <2>2
  <1>7. /\ rec.pre = pre /\ rec.path = full /\ rec.ino = directory_inode(pre, full)
        /\ parent_path(rec.path) = up /\ rec.parent = directory_inode(pre, up)
    BY DEF up
  <1> HIDE DEF rec
  <1>8. Range(openDirs)' \subseteq Range(openDirs) \cup {rec}
    BY <1>1, TableInsert DEF Range, Insert
  <1>9. OpenedDirectories' \subseteq Known
    <2> SUFFICES ASSUME NEW d \in Range(openDirs)'
                 PROVE  /\ [pre |-> d.pre, path |-> d.path, ino |-> d.ino] \in Known
                        /\ [pre |-> d.pre, path |-> parent_path(d.path), ino |-> d.parent] \in Known
      BY DEF OpenedDirectories
    <2>1. CASE d = rec BY <1>5, <1>6, <1>7, <2>1
    <2>2. CASE d \in Range(openDirs) BY <2>2 DEF Known, KnownDirectories, OpenedDirectories
    <2> QED BY <1>8, <2>1, <2>2
  <1>10. Known' \subseteq Known
    <2>1. dirs' \subseteq Known BY <1>1 DEF Known, KnownDirectories
    <2>2. Roots' = Roots BY DEF Roots
    <2> QED BY <1>9, <2>1, <2>2 DEF Known, KnownDirectories
  <1>11. FileInodes' = FileInodes /\ LinkInodes' = LinkInodes BY <1>1 DEF FileInodes, LinkInodes
  <1> QED BY <1>1, <1>10, <1>11, OpenedSame DEF Fresh

\* path_open of a file that exists: its inode is in use already.
LEMMA OpenExistingOpened ==
    ASSUME IInv, Opened, NEW fd, NEW path, NEW rights, NEW flags,
           OpenFile(fd, path, rights, flags), FileAt(PreOf(fd), Full(fd, path))
    PROVE  Opened' /\ Fresh
  <1> DEFINE f == Find(files, PreOf(fd), Full(fd, path))
             rec == [ino |-> f.ino, rights |-> rights]
             new == allocate_dynamic_fd
  <1>1. /\ UNCHANGED <<files, dirs, links, openDirs, nextInode>>
        /\ openFiles' = Insert(openFiles, new, rec)
    BY DEF OpenFile
  <1>2. f \in files BY FindNamed DEF FileAt
  <1> HIDE DEF f
  <1>3. rec.ino = f.ino OBVIOUS
  <1> HIDE DEF rec, new
  <1>4. \A d \in DOMAIN openFiles' :
          \/ openFiles'[d] = rec
          \/ d \in DOMAIN openFiles /\ openFiles'[d] = openFiles[d]
    BY <1>1 DEF Insert
  <1>5. FileInodes' \subseteq FileInodes BY <1>1, <1>2, <1>3, <1>4 DEF FileInodes
  <1>6. LinkInodes' = LinkInodes /\ Known' \subseteq Known BY <1>1, KnownSame DEF LinkInodes
  <1> QED BY <1>1, <1>5, <1>6, OpenedSame DEF Fresh

\* path_open of a file that is made.
LEMMA OpenCreatedOpened ==
    ASSUME IInv, Opened, NEW fd, NEW path, NEW rights, NEW flags,
           OpenFile(fd, path, rights, flags), ~FileAt(PreOf(fd), Full(fd, path))
    PROVE  Opened' /\ Fresh
  <1> DEFINE f == [pre |-> PreOf(fd), path |-> Full(fd, path), ino |-> nextInode + 1, wr |-> TRUE]
             rec == [ino |-> nextInode + 1, rights |-> rights]
             new == allocate_dynamic_fd
  <1>1. /\ UNCHANGED <<dirs, links, openDirs>> /\ nextInode' = nextInode + 1
        /\ files' = files \cup {f}
        /\ openFiles' = Insert(openFiles, new, rec)
    BY DEF OpenFile
  <1>2. f.ino = nextInode + 1 /\ rec.ino = nextInode + 1 OBVIOUS
  <1> HIDE DEF f, rec, new
  <1>3. \A d \in DOMAIN openFiles' :
          \/ openFiles'[d] = rec
          \/ d \in DOMAIN openFiles /\ openFiles'[d] = openFiles[d]
    BY <1>1 DEF Insert
  <1>4. FileInodes' \subseteq FileInodes \cup {f.ino} BY <1>1, <1>2, <1>3 DEF FileInodes
  <1>5. LinkInodes' = LinkInodes /\ Known' \subseteq Known BY <1>1, KnownSame DEF LinkInodes
  <1>6. Opened' BY <1>1, <1>2, <1>4, <1>5, OpenedNext
  <1>7. Fresh BY <1>1, <1>2, InUseIssued DEF Fresh
  <1> QED BY <1>6, <1>7

\* path_create_directory
LEMMA CreateDirectoryOpened ==
    ASSUME IInv, Opened, NEW fd, NEW path, CreateDirectory(fd, path)
    PROVE  Opened' /\ Fresh
  <1> DEFINE e == NewEntry(fd, path)
  <1>1. /\ UNCHANGED <<files, links, openFiles, openDirs>> /\ nextInode' = nextInode + 1
        /\ dirs' = dirs \cup {e}
    BY DEF CreateDirectory, fds
  <1>2. e.ino = nextInode + 1 BY DEF NewEntry
  <1> HIDE DEF e
  <1>3. FileInodes' = FileInodes /\ LinkInodes' = LinkInodes BY <1>1 DEF FileInodes, LinkInodes
  <1>4. Known' \subseteq Known \cup {e}
    BY <1>1 DEF Known, KnownDirectories, OpenedDirectories, Roots, Range
  <1>5. Opened' BY <1>1, <1>2, <1>3, <1>4, OpenedNext
  <1>6. Fresh BY <1>1, <1>2, InUseIssued DEF Fresh
  <1> QED BY <1>5, <1>6

\* path_symlink
LEMMA SymlinkOpened ==
    ASSUME IInv, Opened, NEW fd, NEW path, Symlink(fd, path)
    PROVE  Opened' /\ Fresh
  <1> DEFINE e == NewEntry(fd, path)
  <1>1. /\ UNCHANGED <<files, dirs, openFiles, openDirs>> /\ nextInode' = nextInode + 1
        /\ links' = links \cup {e}
    BY DEF Symlink, fds
  <1>2. e.ino = nextInode + 1 BY DEF NewEntry
  <1> HIDE DEF e
  <1>3. FileInodes' = FileInodes /\ LinkInodes' = LinkInodes \cup {e.ino}
    BY <1>1 DEF FileInodes, LinkInodes
  <1>4. Known' \subseteq Known BY <1>1, KnownSame
  <1>5. Opened' BY <1>1, <1>2, <1>3, <1>4, OpenedNext
  <1>6. Fresh BY <1>1, <1>2, InUseIssued DEF Fresh
  <1> QED BY <1>5, <1>6

\* The handlers that only remove entries or change an inode's bytes and times.
LEMMA FewerOpened ==
    ASSUME Opened, UNCHANGED <<openFiles, openDirs, nextInode>>,
           files' \subseteq files, dirs' \subseteq dirs, links' \subseteq links
    PROVE  Opened' /\ Fresh
  <1>1. FileInodes' \subseteq FileInodes /\ LinkInodes' \subseteq LinkInodes
    BY DEF FileInodes, LinkInodes
  <1>2. Known' \subseteq Known BY KnownSame
  <1> QED BY <1>1, <1>2, OpenedSame DEF Fresh

\* path_link: the inode of the new name is that of the old one, which counts it.
LEMMA LinkOpened ==
    ASSUME IInv, Opened, NEW ofd, NEW opath, NEW nfd, NEW npath, Link(ofd, opath, nfd, npath)
    PROVE  Opened' /\ Fresh
  <1> DEFINE f == Find(files, PreOf(ofd), Full(ofd, opath))
             new == [f EXCEPT !.pre = PreOf(nfd), !.path = Full(nfd, npath)]
  <1>1. /\ UNCHANGED <<dirs, links, openFiles, openDirs, nextInode>>
        /\ files' = files \cup {new}
        /\ node' = [node EXCEPT ![f.ino].nl = @ + 1]
        /\ LinkErrno(ofd, opath, nfd, npath) = "SUCCESS"
    BY DEF Link, fds
  <1>2. f \in files BY <1>1, LinkChecked, FindNamed DEF FileAt
  <1> HIDE DEF f
  <1>3. f \in File /\ f.ino \in Inodes /\ node \in [Inodes -> Node] /\ node[f.ino] \in Node
    BY <1>2, Linked DEF IInv, TypeOK
  <1>4. new.ino = f.ino BY <1>3 DEF File
  <1> HIDE DEF new
  <1>5. node'[f.ino].nl = node[f.ino].nl + 1 BY <1>1, <1>3 DEF Node
  <1>6. FileInodes' \subseteq FileInodes /\ LinkInodes' = LinkInodes
    BY <1>1, <1>2, <1>4 DEF FileInodes, LinkInodes
  <1>7. Opened' BY <1>1, <1>6, KnownSame, OpenedSame
  <1>8. Fresh BY <1>1, <1>2, <1>4, <1>5 DEF Fresh
  <1> QED BY <1>7, <1>8

\* path_rename: the name the moved file had is gone.
LEMMA RenameOpened ==
    ASSUME IInv, Opened, NEW ofd, NEW opath, NEW nfd, NEW npath, Rename(ofd, opath, nfd, npath)
    PROVE  Opened' /\ Fresh
  <1> DEFINE src == Find(files, ofd, opath)
             moved == [src EXCEPT !.pre = nfd, !.path = npath]
             rest == files \ ({src} \cup Named(files, nfd, npath))
  <1>1. /\ UNCHANGED <<dirs, links, openFiles, openDirs, nextInode>>
        /\ files' = rest \cup {moved}
        /\ RenameErrno(ofd, opath, nfd, npath) = "SUCCESS"
    BY DEF Rename, fds
  <1>2. src \in files BY <1>1, RenameChecked, FindNamed DEF FileAt
  <1>3. src \notin rest OBVIOUS
  <1>4. rest \subseteq files OBVIOUS
  <1> HIDE DEF src, rest
  <1>5. src \in File BY <1>2 DEF IInv, TypeOK
  <1>6. moved.ino = src.ino BY <1>5 DEF File
  <1> HIDE DEF moved
  <1>7. FileInodes' \subseteq FileInodes /\ LinkInodes' = LinkInodes
    BY <1>1, <1>2, <1>4, <1>6 DEF FileInodes, LinkInodes
  <1>8. Opened' BY <1>1, <1>7, KnownSame, OpenedSame
  <1>9. Fresh
    <2>1. moved \in files \/ src \notin files' BY <1>1, <1>2, <1>3
    <2> QED BY <1>1, <1>2, <1>4, <1>6, <2>1 DEF Fresh
  <1> QED BY <1>8, <1>9

LEMMA NextOpened == IInv /\ Opened /\ [Next]_vars => Opened' /\ Fresh
  <1> SUFFICES ASSUME IInv, Opened, [Next]_vars PROVE Opened' /\ Fresh OBVIOUS
  <1>1. CASE UNCHANGED vars BY <1>1, FewerOpened DEF vars, tree, fds
  <1>2. ASSUME NEW fd \in Fds, Close(fd) PROVE Opened' /\ Fresh BY <1>2, CloseOpened
  <1>3. ASSUME NEW fd \in Fds,
               \/ \E call \in Writers, b \in Payloads : WriteFile(call, fd, b)
               \/ \E t \in Times : FdSetTimes(fd, t)
        PROVE  Opened' /\ Fresh
    BY <1>3, FewerOpened DEF WriteFile, FdSetTimes, tree, fds
  <1>4. ASSUME NEW fd \in Fds, NEW path \in ValidPaths, NEW r \in FileRights, NEW flags \in OpenFlags,
               OpenFile(fd, path, r, flags)
        PROVE  Opened' /\ Fresh
    BY <1>4, OpenExistingOpened, OpenCreatedOpened
  <1>5. ASSUME NEW fd \in Fds, NEW path \in ValidPaths, NEW r \in DirRights,
               OpenDirectory(fd, path, r)
        PROVE  Opened' /\ Fresh
    BY <1>5, OpenDirectoryOpened
  <1>6. ASSUME NEW fd \in Fds, NEW path \in ValidPaths, CreateDirectory(fd, path)
        PROVE  Opened' /\ Fresh
    BY <1>6, CreateDirectoryOpened
  <1>7. ASSUME NEW fd \in Fds, NEW path \in ValidPaths, Symlink(fd, path) PROVE Opened' /\ Fresh
    BY <1>7, SymlinkOpened
  <1>8. ASSUME NEW fd \in Fds, NEW path \in ValidPaths, RemoveDirectory(fd, path)
        PROVE  Opened' /\ Fresh
    <2>1. /\ UNCHANGED <<openFiles, openDirs, nextInode>>
          /\ files' \subseteq files /\ dirs' \subseteq dirs /\ links' \subseteq links
      BY <1>8 DEF RemoveDirectory, fds
    <2> QED BY <2>1, FewerOpened
  <1>9. ASSUME NEW fd \in Fds, NEW path \in ValidPaths, Unlink(fd, path) PROVE Opened' /\ Fresh
    <2>1. UNCHANGED <<dirs, openFiles, openDirs, nextInode>> BY <1>9 DEF Unlink, fds
    <2>2. files' \subseteq files /\ links' \subseteq links BY <1>9 DEF Unlink
    <2> QED BY <2>1, <2>2, FewerOpened
  <1>10. ASSUME NEW fd \in Fds, NEW path \in ValidPaths, NEW t \in Times, PathSetTimes(fd, path, t)
         PROVE  Opened' /\ Fresh
    BY <1>10, FewerOpened DEF PathSetTimes, tree, fds
  <1>11. ASSUME NEW fd \in Fds, NEW path \in ValidPaths, NEW nfd \in Fds, NEW npath \in ValidPaths,
                Link(fd, path, nfd, npath)
         PROVE  Opened' /\ Fresh
    BY <1>11, LinkOpened
  <1>12. ASSUME NEW fd \in Fds, NEW path \in ValidPaths, NEW nfd \in Fds, NEW npath \in ValidPaths,
                Rename(fd, path, nfd, npath)
         PROVE  Opened' /\ Fresh
    BY <1>12, RenameOpened
  <1> QED BY <1>1, <1>2, <1>3, <1>4, <1>5, <1>6, <1>7, <1>8, <1>9, <1>10, <1>11, <1>12 DEF Next

\* The directories behind descriptors keep their inodes to themselves.
LEMMA AlwaysOpened == Spec => []Opened
  BY InitOpened, NextOpened, Invariance, PTL DEF Spec

LEMMA ApartInState == IInv /\ Opened => InodesApart
  <1> SUFFICES ASSUME IInv, Opened PROVE InodesApart OBVIOUS
  <1>1. /\ \A d, e \in KnownDirectories : d.ino = e.ino => d = e
        /\ \A d \in KnownDirectories : d.ino \notin FileInodes \cup LinkInodes
    BY DEF Opened, Known
  <1>2. DirectoryInodes \cap (FileInodes \cup LinkInodes) = {} BY <1>1 DEF DirectoryInodes
  <1>3. FileInodes \cap LinkInodes = {} BY DEF IInv, EntryInodes, FileInodes, LinkInodes
  <1>4. /\ \A k, l \in links : k.ino = l.ino => k = l
        /\ \A f, g \in files : f.ino = g.ino => f.wr = g.wr
    BY DEF IInv, EntryInodes
  <1> QED BY <1>1, <1>2, <1>3, <1>4, InUseIssued DEF InodesApart

\* An inode stands for one directory, one link or one file with one write
\* policy: also the inode of a directory that is still open after
\* path_remove_directory, and that of a file still open after path_unlink_file.
\* Whatever was removed before, a file, directory or link that a handler makes
\* has an inode that nothing in use has; only path_link gives an inode one more
\* name, and path_rename another one.
THEOREM DistinctInodes == Spec => InodeIdentity
  <1>1. IInv /\ Opened /\ [Next]_vars => InodesApart'
    <2>1. IInv' /\ Opened' => InodesApart' BY ApartInState, PTL
    <2> QED BY <2>1, NextIInv, NextOpened
  <1>2. IInv /\ Opened /\ [Next]_vars
          => [/\ InodesApart'
              /\ \A e \in (files' \cup dirs' \cup links') \ (files \cup dirs \cup links) :
                    \/ e.ino \notin InodesInUse
                    \/ /\ e \in files'
                       /\ \E f \in files : /\ f.ino = e.ino
                                           /\ \/ node'[e.ino].nl = node[e.ino].nl + 1
                                              \/ f \notin files']_vars
    BY <1>1, NextOpened DEF Fresh
  <1> QED BY <1>2, Invariance, AlwaysOpened, PTL DEF Spec, InodeIdentity

-----------------------------------------------------------------------------
\* Rights attenuation.

\* The rights a guest holds over directories, and the files it may change, grow
\* in no step, except that a writable preopen may still hand out files.
Attenuated ==
    /\ HeldRights' \subseteq HeldRights
    /\ (writable = {} => HeldWritable' \subseteq HeldWritable)

\* A handler that leaves the descriptors alone.
LEMMA SameDescriptors == ASSUME UNCHANGED fds PROVE Attenuated
  <1>1. UNCHANGED <<openFiles, openDirs, reserved, writable>> BY DEF fds
  <1>2. HeldRights' = HeldRights BY <1>1 DEF HeldRights, directory_rights
  <1>3. HeldWritable' = HeldWritable BY <1>1 DEF HeldWritable
  <1> QED BY <1>2, <1>3 DEF Attenuated

\* Every directory descriptor has the rights of one that was open before.
LEMMA RightsOfEarlier ==
    ASSUME \A d \in reserved' \cup DOMAIN openDirs' :
             \E c \in reserved \cup DOMAIN openDirs : directory_rights(d)' \subseteq directory_rights(c)
    PROVE  HeldRights' \subseteq HeldRights
  <1> SUFFICES ASSUME NEW r \in HeldRights' PROVE r \in HeldRights OBVIOUS
  <1>1. PICK d \in reserved' \cup DOMAIN openDirs' : r \in directory_rights(d)'
    BY DEF HeldRights
  <1>2. PICK c \in reserved \cup DOMAIN openDirs : r \in directory_rights(c) BY <1>1
  <1> QED BY <1>2 DEF HeldRights

\* fd_close takes rights away; closing a writable preopen changes no other
\* descriptor's rights.
LEMMA CloseAttenuates == ASSUME NEW fd, Close(fd) PROVE Attenuated
  <1>0. /\ openFiles' = Without(openFiles, fd) /\ openDirs' = Without(openDirs, fd)
        /\ reserved' = reserved \ {fd} /\ writable' = writable \ {fd}
    BY DEF Close
  <1>1. /\ DOMAIN openFiles' = DOMAIN openFiles \ {fd} /\ DOMAIN openDirs' = DOMAIN openDirs \ {fd}
        /\ \A d \in DOMAIN openFiles' : openFiles'[d] = openFiles[d]
        /\ \A d \in DOMAIN openDirs' : openDirs'[d] = openDirs[d]
    BY <1>0, TableRemove
  <1>2. HeldRights' \subseteq HeldRights
    <2>1. ASSUME NEW d \in reserved' \cup DOMAIN openDirs'
          PROVE  /\ d \in reserved \cup DOMAIN openDirs
                 /\ directory_rights(d)' \subseteq directory_rights(d)
      <3>1. d # fd /\ d \in reserved \cup DOMAIN openDirs BY <1>0, <1>1, <2>1
      <3>2. CASE d \in reserved
        <4>1. d \in reserved' /\ (d \in writable' <=> d \in writable) BY <1>0, <3>1, <3>2
        <4> QED BY <3>1, <3>2, <4>1 DEF directory_rights, PreopenRights
      <3>3. CASE d \notin reserved
        <4>1. d \notin reserved' /\ d \in DOMAIN openDirs' BY <1>0, <2>1, <3>3
        <4> QED BY <1>1, <3>1, <3>3, <4>1 DEF directory_rights
      <3> QED BY <3>2, <3>3
    <2> QED BY <2>1, RightsOfEarlier
  <1>3. HeldWritable' \subseteq HeldWritable BY <1>1 DEF HeldWritable
  <1> QED BY <1>2, <1>3 DEF Attenuated

\* path_open of a directory: the new descriptor has no right that the one it
\* was opened through does not have.
LEMMA OpenDirectoryAttenuates ==
    ASSUME IInv, NEW fd, NEW path, NEW rights, OpenDirectory(fd, path, rights)
    PROVE  Attenuated
  <1> PICK new : new = allocate_dynamic_fd OBVIOUS
  <1> DEFINE rec == [pre |-> PreOf(fd), path |-> Full(fd, path), rights |-> rights,
                     ino |-> directory_inode(PreOf(fd), Full(fd, path)),
                     parent |-> directory_inode(PreOf(fd), parent_path(Full(fd, path)))]
  <1>0. /\ UNCHANGED <<openFiles, reserved, writable>>
        /\ openDirs' = Insert(openDirs, new, rec)
        /\ OpenDirErrno(fd, path, rights) = "SUCCESS"
    BY DEF OpenDirectory
  <1>1. /\ rights \subseteq directory_rights(fd) /\ fd \in reserved \cup DOMAIN openDirs
        /\ ~TooManyOpenFiles
    BY <1>0, OpenDirChecked DEF has_directory_descriptor
  <1>2. new \notin reserved /\ new \notin DOMAIN openDirs BY <1>1, Allocates
  <1>3. rec.rights = rights OBVIOUS
  <1> HIDE DEF rec
  <1>4. /\ DOMAIN openDirs' = DOMAIN openDirs \cup {new} /\ openDirs'[new] = rec
        /\ \A d \in DOMAIN openDirs : openDirs'[d] = openDirs[d]
    BY <1>0, <1>2 DEF Insert
  <1>5. directory_rights(new)' = rights BY <1>0, <1>2, <1>3, <1>4 DEF directory_rights
  <1>6. \A d \in reserved \cup DOMAIN openDirs : directory_rights(d)' = directory_rights(d)
    BY <1>0, <1>2, <1>4 DEF directory_rights
  <1>7. HeldRights' \subseteq HeldRights
    <2>1. \A d \in reserved' \cup DOMAIN openDirs' : d = new \/ d \in reserved \cup DOMAIN openDirs
      BY <1>0, <1>4
    <2> QED BY <1>1, <1>5, <1>6, <2>1, RightsOfEarlier
  <1>8. HeldWritable' = HeldWritable BY <1>0 DEF HeldWritable
  <1> QED BY <1>7, <1>8 DEF Attenuated

\* path_open of a file: without a writable preopen nothing is created and
\* nothing is opened with a right to change it.
LEMMA OpenFileAttenuates ==
    ASSUME IInv, NEW fd, NEW path \in ValidPaths, NEW rights, NEW flags,
           OpenFile(fd, path, rights, flags)
    PROVE  Attenuated
  <1> DEFINE new == allocate_dynamic_fd
             ino == IF ~FileAt(PreOf(fd), Full(fd, path)) THEN nextInode + 1
                    ELSE Find(files, PreOf(fd), Full(fd, path)).ino
             rec == [ino |-> ino, rights |-> rights]
  <1>0. /\ UNCHANGED <<openDirs, reserved, writable>>
        /\ openFiles' = Insert(openFiles, new, rec)
        /\ OpenErrno(fd, path, rights, flags) = "SUCCESS"
    BY DEF OpenFile
  <1>1. /\ ~TooManyOpenFiles
        /\ writable = {} => rights \cap MutationRights = {}
    BY <1>0, OpenChecked
  <1>2. new \notin DOMAIN openFiles BY <1>1, Allocates
  <1>3. rec.rights = rights OBVIOUS
  <1> HIDE DEF new, rec
  <1>4. /\ DOMAIN openFiles' = DOMAIN openFiles \cup {new} /\ openFiles'[new] = rec
        /\ \A d \in DOMAIN openFiles : openFiles'[d] = openFiles[d]
    BY <1>0, <1>2 DEF Insert
  <1>5. writable = {} => HeldWritable' \subseteq HeldWritable
    BY <1>1, <1>3, <1>4 DEF HeldWritable
  <1>6. HeldRights' = HeldRights BY <1>0 DEF HeldRights, directory_rights
  <1> QED BY <1>5, <1>6 DEF Attenuated

\* No handler adds to what the guest may do.
LEMMA NextAttenuates == IInv /\ [Next]_vars => Attenuated
  <1> SUFFICES ASSUME IInv, [Next]_vars PROVE Attenuated OBVIOUS
  <1>1. CASE UNCHANGED vars BY <1>1, SameDescriptors DEF vars
  <1>2. ASSUME NEW fd \in Fds, Close(fd) PROVE Attenuated BY <1>2, CloseAttenuates
  <1>3. ASSUME NEW fd \in Fds, NEW path \in ValidPaths, NEW r \in FileRights, NEW flags \in OpenFlags,
               OpenFile(fd, path, r, flags)
        PROVE  Attenuated
    BY <1>3, OpenFileAttenuates
  <1>4. ASSUME NEW fd \in Fds, NEW path \in ValidPaths, NEW r \in DirRights,
               OpenDirectory(fd, path, r)
        PROVE  Attenuated
    BY <1>4, OpenDirectoryAttenuates
  <1>5. ASSUME NEW fd \in Fds,
               \/ \E call \in Writers, b \in Payloads : WriteFile(call, fd, b)
               \/ \E t \in Times : FdSetTimes(fd, t)
        PROVE  UNCHANGED fds
    BY <1>5 DEF WriteFile, FdSetTimes
  <1>6. ASSUME NEW fd \in Fds, NEW path \in ValidPaths,
               \/ CreateDirectory(fd, path) \/ RemoveDirectory(fd, path) \/ Symlink(fd, path)
               \/ Unlink(fd, path) \/ \E t \in Times : PathSetTimes(fd, path, t)
        PROVE  UNCHANGED fds
    BY <1>6 DEF CreateDirectory, RemoveDirectory, Symlink, Unlink, PathSetTimes
  <1>7. ASSUME NEW fd \in Fds, NEW path \in ValidPaths, NEW nfd \in Fds, NEW npath \in ValidPaths,
               Link(fd, path, nfd, npath) \/ Rename(fd, path, nfd, npath)
        PROVE  UNCHANGED fds
    BY <1>7 DEF Link, Rename
  <1> QED BY <1>1, <1>2, <1>3, <1>4, <1>5, <1>6, <1>7, SameDescriptors DEF Next

\* A right that no directory descriptor carries any more never comes back, and
\* without a writable preopen no further file becomes writable.
THEOREM ShrinkingCapabilities == Spec => CapabilitiesOnlyShrink
  <1>1. IInv /\ [Next]_vars
          => [/\ HeldRights' \subseteq HeldRights
              /\ (writable = {} => HeldWritable' \subseteq HeldWritable)]_vars
    BY NextAttenuates DEF Attenuated
  <1> QED BY <1>1, Invariance, PTL DEF Spec, CapabilitiesOnlyShrink

=============================================================================
