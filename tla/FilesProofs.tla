------------------------------ MODULE FilesProofs ------------------------------
(***************************************************************************)
(* The pool of file descriptors stays consistent, leaks nothing and locks  *)
(* a device for one descriptor at a time, for every number of descriptors, *)
(* every set of devices and file systems and every driver.                 *)
(***************************************************************************)
EXTENDS Files, WellFoundedInduction, SequenceTheorems, TLAPS

\* What alt_fd_lock and alt_file_locked rely on together: only devices are
\* locked, not before the application runs and with some descriptor beyond the
\* first three marked; and whoever has a lock is the first with its device.
Locking ==
  /\ \A i \in Fd : alt_fd_list[i].excl => phase = "main"
  /\ \A i \in Fd : alt_fd_list[i].fd_dev => /\ alt_fd_list[i].dev \in Device \ FileSystem
                                            /\ alt_max_fd > 2
  /\ \A i, j \in Fd :
       (alt_fd_list[i].excl /\ i # j) =>
         (alt_fd_list[i].dev = alt_fd_list[j].dev => i < j)
IInv == TypeOK /\ PoolConsistent /\ NothingLeaks /\ Locking

EntryType == [dev : Device \cup {None}, access : Access, flags : FlagSets,
              excl : BOOLEAN, fd_dev : BOOLEAN]

-----------------------------------------------------------------------------
LEMMA FdIs == Fd \subseteq Nat /\ ALT_MAX_FD \in Nat /\ ALT_MAX_FD > 3 /\ Std \subseteq Fd
BY FilesAssumption DEF Fd, Std

LEMMA LowestIs == ASSUME NEW S \in SUBSET Nat, S # {}
                  PROVE  Lowest(S) \in S /\ \A j \in S : Lowest(S) <= j
<1>1. \E n \in S : \A m \in S : n <= m
  <2>. DEFINE R == OpToRel(<, Nat)
  <2>1. \A x, y \in Nat : x < y => <<x, y>> \in R
    BY DEF OpToRel
  <2>2. IsWellFoundedOn(R, Nat)
    BY NatLessThanWellFounded
  <2>. HIDE DEF R
  <2>3. \E x \in S : \A y \in S : ~ (<<y, x>> \in R)
    BY <2>2, WFMin
  <2>4. PICK x \in S : \A y \in S : ~ (<<y, x>> \in R)
    BY <2>3
  <2>5. ASSUME NEW y \in S PROVE x <= y
    <3>1. ~ (y < x)
      BY <2>1, <2>4
    <3>. QED
      BY <3>1
  <2>. QED
    BY <2>5
<1>. QED
  BY <1>1 DEF Lowest

\* What is found is a device or a file system (alt_find_dev.c, alt_find_file.c).
LEMMA FoundIs == ASSUME TypeOK, NEW name
                 PROVE  /\ Find(name) \in Device \cup {None}
                        /\ Find(name) # None => Find(name) \in Device
<1>1. ASSUME NEW S \in SUBSET Device, NEW list \in Seq(S),
             NEW hits \in SUBSET (1 .. Len(list))
      PROVE  First(list, hits) \in Device \cup {None}
  <2>1. CASE hits = {}
    BY <2>1 DEF First
  <2>2. CASE hits # {}
    <3>1. Lowest(hits) \in 1 .. Len(list)
      <4>1. hits \in SUBSET Nat
        OBVIOUS
      <4>. QED
        BY <2>2, <4>1, LowestIs
    <3>2. list[Lowest(hits)] \in S
      BY <3>1, ElementOfSeq
    <3>. QED
      BY <2>2, <3>2 DEF First
  <2>. QED
    BY <2>1, <2>2
<1>2. FindDev(name) \in Device \cup {None}
  BY <1>1 DEF FindDev, FindIn, TypeOK
<1>3. FindFile(name) \in Device \cup {None}
  BY <1>1, FilesAssumption DEF FindFile, TypeOK
<1>. QED
  BY <1>2, <1>3 DEF Find

\* The first free descriptor is beyond the first three, and taking it moves the
\* mark up to it at least (alt_get_fd.c:72-90).
LEMMA FreeIs == ASSUME IInv, Free # {}
                PROVE  /\ Lowest(Free) \in Fd \ Std
                       /\ ~ IsOpen(Lowest(Free))
                       /\ HighWater(Lowest(Free)) \in Fd
                       /\ HighWater(Lowest(Free)) >= Lowest(Free)
                       /\ HighWater(Lowest(Free)) >= alt_max_fd
                       /\ HighWater(Lowest(Free)) > 2
<1>1. Lowest(Free) \in Free
  BY LowestIs, FdIs DEF Free
<1>2. Lowest(Free) \in Fd \ Std /\ ~ IsOpen(Lowest(Free))
  BY <1>1 DEF Free, IInv, PoolConsistent, IsOpen
<1>. QED
  BY <1>2, FdIs DEF HighWater, Fd, Std, IInv, TypeOK

\* A new entry of the pool (alt_open.c:112-157).
LEMMA OpenedIs ==
  ASSUME IInv, NEW name, NEW driver \in {"ok", "EIO"}, NEW access \in Access,
         OpenStatus(name, driver) = "ok"
  PROVE  /\ Opened(name, access, {}) \in EntryType
         /\ Opened(name, access, {}).dev = Find(name)
         /\ Find(name) \in Device /\ Free # {}
         /\ ~ Opened(name, access, {}).excl
         /\ Opened(name, access, {}).fd_dev => Find(name) \notin FileSystem
         /\ Find(name) \notin FileSystem => ~ FileLocked(Lowest(Free), Find(name))
<1>. TypeOK
  BY DEF IInv
<1>1. Find(name) # None /\ Free # {}
  BY DEF OpenStatus
<1>2. Find(name) \in Device
  BY <1>1, FoundIs
<1>3. Find(name) \notin FileSystem => ~ FileLocked(Lowest(Free), Find(name))
  BY <1>1 DEF OpenStatus
<1>. QED
  BY <1>1, <1>2, <1>3 DEF Opened, Entry, EntryType, FlagSets

-----------------------------------------------------------------------------
\* A descriptor is taken for a device or file system: the first free one by
\* open, one of the first three by the redirection.
LEMMA Taking ==
  ASSUME IInv, NEW name, NEW driver \in {"ok", "EIO"}, NEW access \in Access,
         OpenStatus(name, driver) = "ok", NEW fd \in Fd,
         \/ fd = Lowest(Free)
         \/ fd \in Std /\ phase # "main",
         alt_fd_list' = [alt_fd_list EXCEPT ![fd] = Opened(name, access, {})],
         opened' = opened \cup {fd}, Mark(name),
         phase' \in {"init", "stdout", "stdin", "stderr", "main"},
         phase = "main" => phase' = "main", UNCHANGED lists
  PROVE  IInv'
<1>. DEFINE e == Opened(name, access, {})
<1>0. TypeOK /\ PoolConsistent /\ NothingLeaks /\ Locking
  BY DEF IInv
<1>1. /\ e \in EntryType /\ e.dev = Find(name) /\ Find(name) \in Device
      /\ Free # {} /\ ~ e.excl
      /\ e.fd_dev => Find(name) \notin FileSystem
      /\ Find(name) \notin FileSystem => ~ FileLocked(Lowest(Free), Find(name))
  BY OpenedIs
<1>2. /\ Lowest(Free) \in Fd \ Std /\ ~ IsOpen(Lowest(Free))
      /\ alt_max_fd' = HighWater(Lowest(Free))
      /\ alt_max_fd' \in Fd /\ alt_max_fd' >= Lowest(Free)
      /\ alt_max_fd' >= alt_max_fd /\ alt_max_fd' > 2
  <2>1. Find(name) # None
    BY <1>1, FilesAssumption
  <2>. QED
    BY <1>1, <2>1, FreeIs DEF Mark
<1>. HIDE DEF e
<1>3. /\ alt_fd_list'[fd] = e
      /\ \A i \in Fd \ {fd} : alt_fd_list'[i] = alt_fd_list[i]
      /\ alt_fd_list' \in [Fd -> EntryType]
  BY <1>0, <1>1 DEF TypeOK, EntryType, e
<1>4. TypeOK'
  <2>1. alt_max_fd' \in -1 .. ALT_MAX_FD - 1
    BY <1>2, FdIs DEF Fd
  <2>. QED
    BY <1>0, <1>3, <2>1 DEF TypeOK, EntryType, lists
<1>5. e.dev # None
  BY <1>1, FilesAssumption
<1>6. PoolConsistent'
  <2>1. ASSUME NEW i \in Fd, i > 2, IsOpen(i)' PROVE i <= alt_max_fd'
    <3>1. CASE i = fd
      BY <1>2, <2>1, <3>1, FdIs DEF Std
    <3>2. CASE i # fd
      <4>1. i <= alt_max_fd
        BY <1>0, <1>3, <2>1, <3>2 DEF PoolConsistent, IsOpen
      <4>. QED
        BY <1>2, <4>1, FdIs, <1>0 DEF TypeOK, Fd
    <3>. QED
      BY <3>1, <3>2
  <2>2. ASSUME NEW i \in Std PROVE IsOpen(i)'
    BY <1>0, <1>3, <1>5, FdIs DEF PoolConsistent, IsOpen
  <2>3. ASSUME NEW i \in Fd, alt_fd_list'[i].excl PROVE alt_fd_list'[i].fd_dev
    BY <1>0, <1>1, <1>3, <2>3 DEF PoolConsistent
  <2>4. ASSUME NEW i \in Fd, ~ IsOpen(i)' PROVE alt_fd_list'[i] = Blank(None)
    BY <1>0, <1>3, <1>5, <2>4 DEF PoolConsistent, IsOpen
  <2>. QED
    BY <2>1, <2>2, <2>3, <2>4 DEF PoolConsistent, Blank, Entry
<1>7. NothingLeaks'
  BY <1>0, <1>3, <1>5 DEF NothingLeaks, IsOpen
<1>8. Locking'
  <2>1. ASSUME NEW i \in Fd, alt_fd_list'[i].excl PROVE phase' = "main"
    BY <1>0, <1>1, <1>3, <2>1 DEF Locking
  <2>2. ASSUME NEW i \in Fd, alt_fd_list'[i].fd_dev
        PROVE  alt_fd_list'[i].dev \in Device \ FileSystem /\ alt_max_fd' > 2
    BY <1>0, <1>1, <1>2, <1>3, <2>2 DEF Locking
  <2>3. ASSUME NEW i \in Fd, NEW j \in Fd, alt_fd_list'[i].excl, i # j,
               alt_fd_list'[i].dev = alt_fd_list'[j].dev
        PROVE  i < j
    <3>1. i # fd /\ alt_fd_list'[i] = alt_fd_list[i]
      BY <1>1, <1>3, <2>3
    <3>2. CASE j # fd
      BY <1>0, <1>3, <2>3, <3>1, <3>2 DEF Locking
    <3>3. CASE j = fd
      <4>1. /\ alt_fd_list[i].excl /\ alt_fd_list[i].dev = Find(name)
            /\ alt_fd_list[i].fd_dev /\ phase = "main"
        BY <1>0, <1>1, <1>3, <2>3, <3>1, <3>3 DEF Locking, PoolConsistent
      <4>2. Find(name) \notin FileSystem
        BY <1>0, <4>1 DEF Locking
      <4>3. i <= alt_max_fd'
        <5>1. CASE i > 2
          <6>1. IsOpen(i)
            BY <1>1, <1>5, <4>1 DEF IsOpen
          <6>2. i <= alt_max_fd
            BY <1>0, <5>1, <6>1 DEF PoolConsistent
          <6>. QED
            BY <1>0, <1>2, <6>2, FdIs DEF TypeOK, Fd
        <5>2. CASE ~ (i > 2)
          BY <1>2, <5>2, FdIs
        <5>. QED
          BY <5>1, <5>2
      <4>4. i # Lowest(Free)
        BY <1>1, <1>2, <1>5, <4>1 DEF IsOpen
      <4>. QED
        BY <1>1, <1>2, <4>1, <4>2, <4>3, <4>4 DEF FileLocked
    <3>. QED
      BY <3>2, <3>3
  <2>4. \A i \in Fd : alt_fd_list'[i].excl => phase' = "main"
    BY <2>1
  <2>5. \A i \in Fd : alt_fd_list'[i].fd_dev =>
          alt_fd_list'[i].dev \in Device \ FileSystem /\ alt_max_fd' > 2
    BY <2>2
  <2>6. \A i, j \in Fd :
          (alt_fd_list'[i].excl /\ i # j) =>
            (alt_fd_list'[i].dev = alt_fd_list'[j].dev => i < j)
    BY <2>3
  <2>. QED
    BY <2>4, <2>5, <2>6 DEF Locking
<1>. QED
  BY <1>4, <1>6, <1>7, <1>8 DEF IInv

\* An open that fails takes nothing, but may move the mark.
LEMMA NotTaking ==
  ASSUME IInv, NEW name, Mark(name), UNCHANGED <<lists, alt_fd_list, opened>>,
         phase' \in {"init", "stdout", "stdin", "stderr", "main"},
         phase = "main" => phase' = "main"
  PROVE  IInv'
<1>1. /\ alt_max_fd' \in -1 .. ALT_MAX_FD - 1 /\ alt_max_fd' >= alt_max_fd
      /\ alt_max_fd \in -1 .. ALT_MAX_FD - 1
  <2>1. CASE Find(name) = None \/ Free = {}
    BY <2>1, FdIs DEF Mark, IInv, TypeOK
  <2>2. CASE ~ (Find(name) = None \/ Free = {})
    BY <2>2, FreeIs, FdIs DEF Mark, IInv, TypeOK, Fd
  <2>. QED
    BY <2>1, <2>2
<1>2. TypeOK'
  BY <1>1 DEF IInv, TypeOK, lists
<1>3. PoolConsistent'
  <2>1. alt_fd_list' = alt_fd_list
    OBVIOUS
  <2>2. \A i \in Fd : i > 2 /\ IsOpen(i)' => i <= alt_max_fd'
    BY <1>1, <2>1, FdIs DEF IInv, PoolConsistent, IsOpen
  <2>. QED
    BY <2>1, <2>2 DEF IInv, PoolConsistent, IsOpen, Blank, Entry
<1>4. NothingLeaks'
  BY DEF IInv, NothingLeaks, IsOpen
<1>5. Locking'
  BY <1>1, FdIs DEF IInv, Locking
<1>. QED
  BY <1>2, <1>3, <1>4, <1>5 DEF IInv

-----------------------------------------------------------------------------
\* Startup (alt_fs_reg.c, alt_dev_llist_insert.c, alt_io_redirect.c).
LEMMA StartupStep == ASSUME IInv, Startup PROVE IInv'
<1>1. CASE \E d \in Device : Register(d)
  <2>1. PICK d \in Device : Register(d)
    BY <1>1
  <2>2. alt_dev_list' \in Seq(Device \ FileSystem) /\ alt_fs_list' \in Seq(FileSystem)
    <3>1. CASE d \in FileSystem
      <4>1. <<d>> \in Seq(FileSystem)
        BY <3>1
      <4>2. <<d>> \o alt_fs_list \in Seq(FileSystem)
        BY <4>1, ConcatProperties DEF IInv, TypeOK
      <4>. QED
        BY <2>1, <3>1, <4>2 DEF Register, IInv, TypeOK
    <3>2. CASE d \notin FileSystem
      <4>1. <<d>> \in Seq(Device \ FileSystem)
        BY <3>2
      <4>2. <<d>> \o alt_dev_list \in Seq(Device \ FileSystem)
        BY <4>1, ConcatProperties DEF IInv, TypeOK
      <4>. QED
        BY <2>1, <3>2, <4>2 DEF Register, IInv, TypeOK
    <3>. QED
      BY <3>1, <3>2
  <2>3. UNCHANGED <<alt_fd_list, alt_max_fd, phase, opened>>
    BY <2>1 DEF Register, pool
  <2>. QED
    BY <2>2, <2>3 DEF IInv, TypeOK, PoolConsistent, NothingLeaks, Locking,
                      IsOpen, Blank, Entry
<1>2. CASE SysInitDone
  BY <1>2 DEF SysInitDone, lists, pool, IInv, TypeOK, PoolConsistent,
              NothingLeaks, Locking, IsOpen, Blank, Entry
<1>3. ASSUME NEW fd \in Std, NEW name, NEW access \in Access,
             NEW here \in {"stdout", "stdin", "stderr"},
             NEW next \in {"stdin", "stderr", "main"},
             Redirect(fd, name, access, here, next)
      PROVE  IInv'
  <2>1. PICK driver \in {"ok", "EIO"} :
          IF OpenStatus(name, driver) = "ok"
          THEN /\ alt_fd_list' = [alt_fd_list EXCEPT
                                    ![fd] = Opened(name, access, {})]
               /\ opened' = opened \cup {fd}
          ELSE UNCHANGED <<alt_fd_list, opened>>
    BY <1>3 DEF Redirect
  <2>2. phase = here /\ phase' = next /\ Mark(name) /\ UNCHANGED lists
    BY <1>3 DEF Redirect
  <2>3. fd \in Fd
    BY FdIs
  <2>4. CASE OpenStatus(name, driver) = "ok"
    BY <1>3, <2>1, <2>2, <2>3, <2>4, Taking
  <2>5. CASE OpenStatus(name, driver) # "ok"
    BY <1>3, <2>1, <2>2, <2>5, NotTaking
  <2>. QED
    BY <2>4, <2>5
<1>. QED
  BY <1>1, <1>2, <1>3
     DEF Startup, RedirectStdout, RedirectStdin, RedirectStderr, Std, Access

\* open (alt_open.c).
LEMMA OpenStep == ASSUME IInv, NEW name, NEW access \in Access,
                         NEW driver \in {"ok", "EIO"},
                         open(name, access, {}, driver)
                  PROVE  IInv'
<1>1. Mark(name) /\ UNCHANGED <<lists, phase>> /\ phase = "main"
  BY DEF open, InMain
<1>2. CASE OpenStatus(name, driver) = "ok"
  <2>1. /\ alt_fd_list' = [alt_fd_list EXCEPT
                             ![Lowest(Free)] = Opened(name, access, {})]
        /\ opened' = opened \cup {Lowest(Free)}
    BY <1>2 DEF open
  <2>2. Lowest(Free) \in Fd
    BY <1>2, OpenedIs, FreeIs
  <2>. QED
    BY <1>1, <1>2, <2>1, <2>2, Taking
<1>3. CASE OpenStatus(name, driver) # "ok"
  <2>1. UNCHANGED <<alt_fd_list, opened>>
    BY <1>3 DEF open
  <2>. QED
    BY <1>1, <2>1, NotTaking
<1>. QED
  BY <1>2, <1>3

\* stat leaves every descriptor as it was (alt_stat.c:48-60): what it opens was
\* a blank one.
LEMMA StatSame == ASSUME IInv, NEW name, NEW driver, NEW answer,
                         stat(name, driver, answer)
                  PROVE  UNCHANGED <<lists, alt_fd_list, phase, opened>> /\ Mark(name)
<1>1. CASE OpenStatus(name, driver) = "ok"
  <2>1. alt_fd_list' = [alt_fd_list EXCEPT ![Lowest(Free)] = Blank(None)]
    BY <1>1 DEF stat
  <2>2. Free # {}
    BY <1>1 DEF OpenStatus
  <2>3. Lowest(Free) \in Fd /\ alt_fd_list[Lowest(Free)] = Blank(None)
    BY <2>2, FreeIs DEF IInv, PoolConsistent
  <2>4. alt_fd_list' = alt_fd_list
    BY <2>1, <2>3 DEF IInv, TypeOK
  <2>. QED
    BY <2>4 DEF stat
<1>2. CASE OpenStatus(name, driver) # "ok"
  BY <1>2 DEF stat
<1>. QED
  BY <1>1, <1>2

LEMMA StatStep == ASSUME IInv, NEW name, NEW driver, NEW answer,
                         stat(name, driver, answer)
                  PROVE  IInv'
BY StatSame, NotTaking DEF IInv, TypeOK

\* close and the release of a descriptor (alt_close.c, alt_release_fd.c).
LEMMA CloseStep == ASSUME IInv, NEW fd \in Fd, NEW driver, close(fd, driver)
                   PROVE  IInv'
<1>0. TypeOK /\ PoolConsistent /\ NothingLeaks /\ Locking
  BY DEF IInv
<1>1. /\ opened' = opened \ {fd} /\ Release(fd)
      /\ UNCHANGED <<lists, alt_max_fd, phase>>
  BY DEF close
<1>2. Blank(None) \in EntryType /\ ~ Blank(None).excl /\ ~ Blank(None).fd_dev
      /\ Blank(None).dev = None
  BY DEF Blank, Entry, EntryType, Access, FlagSets
<1>. HIDE DEF Blank
<1>3. CASE fd > 2
  <2>1. /\ alt_fd_list'[fd] = Blank(None)
        /\ \A i \in Fd \ {fd} : alt_fd_list'[i] = alt_fd_list[i]
        /\ alt_fd_list' \in [Fd -> EntryType]
    BY <1>0, <1>1, <1>2, <1>3 DEF Release, TypeOK, EntryType
  <2>2. TypeOK'
    BY <1>0, <1>1, <2>1 DEF TypeOK, EntryType, lists
  <2>3. PoolConsistent'
    BY <1>0, <1>1, <1>2, <1>3, <2>1, FdIs DEF PoolConsistent, IsOpen, Std
  <2>4. NothingLeaks'
    BY <1>0, <1>1, <1>2, <2>1 DEF NothingLeaks, IsOpen
  <2>5. Locking'
    <3>1. \A i \in Fd : alt_fd_list'[i].excl => phase' = "main"
      BY <1>0, <1>1, <1>2, <2>1 DEF Locking
    <3>2. \A i \in Fd : alt_fd_list'[i].fd_dev =>
            alt_fd_list'[i].dev \in Device \ FileSystem /\ alt_max_fd' > 2
      BY <1>0, <1>1, <1>2, <2>1 DEF Locking
    <3>3. ASSUME NEW i \in Fd, NEW j \in Fd, alt_fd_list'[i].excl, i # j,
                 alt_fd_list'[i].dev = alt_fd_list'[j].dev
          PROVE  i < j
      <4>1. i # fd /\ alt_fd_list'[i] = alt_fd_list[i]
        BY <1>2, <2>1, <3>3
      <4>2. alt_fd_list[i].dev # None
        BY <1>0, <3>3, <4>1, FilesAssumption DEF Locking, PoolConsistent
      <4>3. j # fd
        BY <1>2, <2>1, <3>3, <4>1, <4>2
      <4>. QED
        BY <1>0, <2>1, <3>3, <4>1, <4>3 DEF Locking
    <3>. QED
      BY <3>1, <3>2, <3>3 DEF Locking
  <2>. QED
    BY <2>2, <2>3, <2>4, <2>5 DEF IInv
<1>4. CASE ~ (fd > 2)
  <2>1. alt_fd_list' = alt_fd_list
    BY <1>1, <1>4 DEF Release
  <2>2. fd \in Std
    BY <1>4, FdIs DEF Std
  <2>3. TypeOK' /\ PoolConsistent' /\ Locking'
    BY <1>0, <1>1, <2>1 DEF TypeOK, PoolConsistent, Locking, IsOpen, lists
  <2>4. NothingLeaks'
    BY <1>0, <1>1, <2>1, <2>2 DEF NothingLeaks, IsOpen
  <2>. QED
    BY <2>3, <2>4 DEF IInv
<1>. QED
  BY <1>3, <1>4

\* Locking, unlocking and fcntl (alt_fd_lock.c, alt_fd_unlock.c, alt_fcntl.c)
\* keep every descriptor's device, and only the first locks.
LEMMA ChangeStep ==
  ASSUME IInv, NEW fd \in Fd, NEW e \in EntryType,
         Valid(fd), InMain, alt_fd_list' = [alt_fd_list EXCEPT ![fd] = e],
         e.dev = alt_fd_list[fd].dev, e.fd_dev = alt_fd_list[fd].fd_dev,
         e.excl => \/ alt_fd_list[fd].excl
                   \/ ~ Shared(fd) /\ alt_fd_list[fd].fd_dev,
         UNCHANGED <<lists, alt_max_fd, phase, opened>>
  PROVE  IInv'
<1>0. TypeOK /\ PoolConsistent /\ NothingLeaks /\ Locking
  BY DEF IInv
<1>1. /\ alt_fd_list'[fd] = e
      /\ \A i \in Fd \ {fd} : alt_fd_list'[i] = alt_fd_list[i]
      /\ alt_fd_list' \in [Fd -> EntryType]
  BY <1>0 DEF TypeOK, EntryType
<1>2. TypeOK'
  BY <1>0, <1>1 DEF TypeOK, EntryType, lists
<1>3. \A i \in Fd : /\ alt_fd_list'[i].dev = alt_fd_list[i].dev
                    /\ alt_fd_list'[i].fd_dev = alt_fd_list[i].fd_dev
  BY <1>1
<1>4. e.excl => e.fd_dev
  BY <1>0 DEF PoolConsistent
<1>5. PoolConsistent'
  <2>1. ASSUME NEW i \in Fd, ~ IsOpen(i)' PROVE alt_fd_list'[i] = Blank(None)
    BY <1>0, <1>1, <1>3, <2>1 DEF PoolConsistent, IsOpen, Valid
  <2>2. \A i \in Fd : alt_fd_list'[i].excl => alt_fd_list'[i].fd_dev
    BY <1>0, <1>1, <1>4 DEF PoolConsistent
  <2>. QED
    BY <1>0, <1>3, <2>1, <2>2, FdIs
       DEF PoolConsistent, IsOpen, Blank, Entry
<1>6. NothingLeaks'
  BY <1>0, <1>3 DEF NothingLeaks, IsOpen
<1>7. Locking'
  <2>1. ASSUME NEW i \in Fd, NEW j \in Fd, alt_fd_list'[i].excl, i # j,
               alt_fd_list'[i].dev = alt_fd_list'[j].dev
        PROVE  i < j
    <3>1. alt_fd_list[i].dev = alt_fd_list[j].dev
      BY <1>3, <2>1
    <3>2. CASE alt_fd_list[i].excl
      BY <1>0, <2>1, <3>1, <3>2 DEF Locking
    <3>3. CASE ~ alt_fd_list[i].excl
      <4>1. i = fd /\ ~ Shared(fd) /\ alt_fd_list[i].fd_dev
        BY <1>1, <2>1, <3>3
      <4>2. ~ (j < alt_max_fd)
        BY <2>1, <3>1, <4>1 DEF Shared, Driver
      <4>3. /\ alt_fd_list[i].dev # None /\ alt_max_fd > 2
            /\ alt_max_fd \in -1 .. ALT_MAX_FD - 1
        BY <1>0, <4>1, FilesAssumption DEF Locking, TypeOK
      <4>4. i <= alt_max_fd
        <5>1. CASE i > 2
          BY <1>0, <4>3, <5>1 DEF PoolConsistent, IsOpen
        <5>2. CASE ~ (i > 2)
          BY <4>3, <5>2, FdIs
        <5>. QED
          BY <5>1, <5>2
      <4>. QED
        BY <2>1, <4>2, <4>3, <4>4, FdIs
    <3>. QED
      BY <3>2, <3>3
  <2>2. \A i \in Fd : alt_fd_list'[i].excl => phase' = "main"
    BY DEF InMain
  <2>3. \A i \in Fd : alt_fd_list'[i].fd_dev =>
          alt_fd_list'[i].dev \in Device \ FileSystem /\ alt_max_fd' > 2
    BY <1>0, <1>3 DEF Locking
  <2>. QED
    BY <2>1, <2>2, <2>3 DEF Locking
<1>. QED
  BY <1>2, <1>5, <1>6, <1>7 DEF IInv

\* A call that changes neither the pool nor what drivers have open.
LEMMA LookStep == ASSUME IInv, UNCHANGED <<lists, pool, phase, opened>>
                  PROVE  IInv'
BY DEF lists, pool, IInv, TypeOK, PoolConsistent, NothingLeaks, Locking, IsOpen,
       Blank, Entry

LEMMA ManageStep == ASSUME IInv, NEW fd \in Fd, Manage(fd) PROVE IInv'
<1>0. alt_fd_list \in [Fd -> EntryType]
  BY DEF IInv, TypeOK, EntryType
<1>1. CASE TIOCEXCL(fd)
  <2>1. CASE Shared(fd)
    BY <1>1, <2>1, LookStep DEF TIOCEXCL, pool
  <2>2. CASE ~ Shared(fd)
    <3>. DEFINE e == [alt_fd_list[fd] EXCEPT !.excl = TRUE]
    <3>1. /\ alt_fd_list' = [alt_fd_list EXCEPT ![fd] = e]
          /\ Valid(fd) /\ InMain /\ alt_fd_list[fd].fd_dev
          /\ UNCHANGED <<lists, alt_max_fd, phase, opened>>
      BY <1>0, <1>1, <2>2 DEF TIOCEXCL
    <3>2. /\ e \in EntryType /\ e.dev = alt_fd_list[fd].dev
          /\ e.fd_dev = alt_fd_list[fd].fd_dev
      BY <1>0 DEF EntryType
    <3>. HIDE DEF e
    <3>. QED
      BY <2>2, <3>1, <3>2, ChangeStep
  <2>. QED
    BY <2>1, <2>2
<1>2. CASE TIOCNXCL(fd)
  <2>. DEFINE e == [alt_fd_list[fd] EXCEPT !.excl = FALSE]
  <2>1. /\ alt_fd_list' = [alt_fd_list EXCEPT ![fd] = e]
        /\ Valid(fd) /\ InMain
        /\ UNCHANGED <<lists, alt_max_fd, phase, opened>>
    BY <1>0, <1>2 DEF TIOCNXCL
  <2>2. /\ e \in EntryType /\ e.dev = alt_fd_list[fd].dev /\ ~ e.excl
        /\ e.fd_dev = alt_fd_list[fd].fd_dev
    BY <1>0 DEF EntryType
  <2>. HIDE DEF e
  <2>. QED
    BY <2>1, <2>2, ChangeStep
<1>3. ASSUME NEW flags \in FlagSets, NEW cmd, fcntl(fd, cmd, flags)
      PROVE  IInv'
  <2>. DEFINE e == [alt_fd_list[fd] EXCEPT
                      !.flags = IF cmd = "F_SETFL" THEN flags ELSE @]
  <2>1. /\ alt_fd_list' = [alt_fd_list EXCEPT ![fd] = e]
        /\ Valid(fd) /\ InMain
        /\ UNCHANGED <<lists, alt_max_fd, phase, opened>>
    BY <1>0, <1>3 DEF fcntl
  <2>2. /\ e \in EntryType /\ e.dev = alt_fd_list[fd].dev
        /\ e.excl = alt_fd_list[fd].excl /\ e.fd_dev = alt_fd_list[fd].fd_dev
    BY <1>0 DEF EntryType
  <2>. HIDE DEF e
  <2>. QED
    BY <2>1, <2>2, ChangeStep
<1>4. ASSUME NEW driver, close(fd, driver) PROVE IInv'
  BY <1>4, CloseStep
<1>5. CASE isatty(fd)
  BY <1>5, LookStep DEF isatty
<1>6. ASSUME NEW driver, fstat(fd, driver) PROVE IInv'
  BY <1>6, LookStep DEF fstat
<1>7. ASSUME NEW call, NEW driver, Transfer(call, fd, driver) PROVE IInv'
  BY <1>7, LookStep DEF Transfer
<1>. QED
  BY <1>1, <1>2, <1>3, <1>4, <1>5, <1>6, <1>7 DEF Manage

-----------------------------------------------------------------------------
LEMMA InitHolds == Init => IInv
<1>. SUFFICES ASSUME Init PROVE IInv
  OBVIOUS
<1>1. ASSUME NEW d
      PROVE  /\ d \in Device \cup {None} => Blank(d) \in EntryType
             /\ Blank(d).dev = d
             /\ ~ Blank(d).excl
             /\ ~ Blank(d).fd_dev
  BY DEF Blank, Entry, EntryType, Access, FlagSets
<1>. HIDE DEF Blank
<1>2. /\ alt_fd_list \in [Fd -> EntryType]
      /\ \A i \in Fd : alt_fd_list[i] = Blank(IF i <= 2 THEN NullDev ELSE None)
  <2>. DEFINE D(i) == IF i <= 2 THEN NullDev ELSE None
  <2>1. alt_fd_list = [i \in Fd |-> Blank(D(i))]
    BY DEF Init
  <2>2. \A i : D(i) \in Device \cup {None}
    BY FilesAssumption
  <2>. HIDE DEF D
  <2>3. ASSUME NEW i PROVE Blank(D(i)) \in EntryType
    <3>1. D(i) \in Device \cup {None}
      BY <2>2
    <3>. QED
      BY <1>1, <3>1
  <2>. QED
    BY <2>1, <2>3 DEF D
<1>0. ASSUME NEW i \in Fd
      PROVE  /\ alt_fd_list[i].dev = IF i <= 2 THEN NullDev ELSE None
             /\ ~ alt_fd_list[i].excl
             /\ ~ alt_fd_list[i].fd_dev
             /\ ~ (i <= 2) => alt_fd_list[i] = Blank(None)
  <2>1. alt_fd_list[i] = Blank(IF i <= 2 THEN NullDev ELSE None)
    BY <1>2
  <2>. QED
    BY <1>1, <2>1
<1>3. TypeOK
  <2>1. alt_dev_list \in Seq(Device \ FileSystem) /\ alt_fs_list \in Seq(FileSystem)
    BY FilesAssumption DEF Init
  <2>2. alt_max_fd \in -1 .. ALT_MAX_FD - 1
    BY FdIs DEF Init
  <2>3. alt_fd_list \in
       [Fd -> [dev : Device \cup {None}, access : Access, flags : FlagSets,
               excl : BOOLEAN, fd_dev : BOOLEAN]]
    BY <1>2 DEF EntryType
  <2>. QED
    BY <2>1, <2>2, <2>3 DEF Init, TypeOK
<1>4. \A i \in Fd : IsOpen(i) <=> i <= 2
  <2>1. NullDev # None
    BY FilesAssumption
  <2>. QED
    BY <1>0, <2>1 DEF IsOpen
<1>5. PoolConsistent
  <2>1. \A i \in Fd : i > 2 => ~ (i <= 2)
    BY FdIs
  <2>2. \A i \in Std : IsOpen(i)
    BY <1>4, FdIs DEF Std
  <2>3. \A i \in Fd : ~ alt_fd_list[i].excl
    BY <1>0
  <2>4. \A i \in Fd : ~ IsOpen(i) => alt_fd_list[i] = Blank(None)
    BY <1>0, <1>4
  <2>. QED
    BY <1>4, <2>1, <2>2, <2>3, <2>4 DEF PoolConsistent
<1>6. NothingLeaks
  BY <1>4, FdIs DEF NothingLeaks, Init, Std
<1>7. Locking
  BY <1>0 DEF Locking
<1>. QED
  BY <1>3, <1>5, <1>6, <1>7 DEF IInv

LEMMA Inductive == Spec => []IInv
<1>1. IInv /\ [Next]_vars => IInv'
  <2>. SUFFICES ASSUME IInv, [Next]_vars PROVE IInv'
    OBVIOUS
  <2>1. CASE Startup
    BY <2>1, StartupStep
  <2>2. ASSUME NEW name, NEW access \in Modes, NEW driver \in {"ok", "EIO"},
               open(name, access, {}, driver)
        PROVE  IInv'
    BY <2>2, OpenStep, FilesAssumption
  <2>3. ASSUME NEW fd \in Fd, Manage(fd) PROVE IInv'
    BY <2>3, ManageStep
  <2>6. ASSUME NEW name, NEW driver, NEW answer, stat(name, driver, answer)
        PROVE  IInv'
    BY <2>6, StatStep
  <2>7. ASSUME NEW name, \/ alt_dma_rxchan_open(name)
                         \/ alt_dma_txchan_open(name) \/ alt_flash_open_dev(name)
        PROVE  IInv'
    BY <2>7, LookStep DEF alt_dma_rxchan_open, alt_dma_txchan_open, alt_dma_open,
                          alt_flash_open_dev
  <2>4. ASSUME NEW call, BadFd(call) PROVE IInv'
    BY <2>4, LookStep DEF BadFd
  <2>5. CASE UNCHANGED vars
    BY <2>5, LookStep DEF vars
  <2>. QED
    BY <2>1, <2>2, <2>3, <2>4, <2>5, <2>6, <2>7 DEF Next
<1>. QED
  BY <1>1, InitHolds, PTL DEF Spec

\* No descriptor is missed by the loops that stop at the mark, none of the
\* first three is without a device, and only a device is locked
\* (alt_get_fd.c:72-90, alt_release_fd.c:46-51).
THEOREM PoolStaysConsistent == Spec => []PoolConsistent
<1>1. IInv => PoolConsistent
  BY DEF IInv
<1>. QED
  BY <1>1, Inductive, PTL

\* A descriptor is taken as long as its driver has it open (alt_open.c:112-157,
\* alt_close.c:69-95): nothing leaks.
THEOREM NoLeak == Spec => []NothingLeaks
<1>1. IInv => NothingLeaks
  BY DEF IInv
<1>. QED
  BY <1>1, Inductive, PTL

\* Two descriptors never have a device locked, although alt_fd_lock.c:61 leaves
\* out the last descriptor in use.
THEOREM OneLockEach == Spec => []OneLock
<1>1. IInv => OneLock
  <2>. SUFFICES ASSUME IInv, NEW i \in Fd, NEW j \in Fd, alt_fd_list[i].excl,
                       alt_fd_list[j].excl, i # j,
                       alt_fd_list[i].dev = alt_fd_list[j].dev
                PROVE  FALSE
    BY DEF OneLock
  <2>1. i < j /\ j < i
    BY DEF IInv, Locking
  <2>. QED
    BY <2>1, FdIs
<1>. QED
  BY <1>1, Inductive, PTL

\* The lists hold what they should, and every descriptor is one
\* (alt_dev.c:46-149).
THEOREM WellTyped == Spec => []TypeOK
<1>1. IInv => TypeOK
  BY DEF IInv
<1>. QED
  BY <1>1, Inductive, PTL

\* What is locked is not opened: alt_file_locked (alt_open.c:71-89) looks at
\* every descriptor that could have the lock.
LEMMA OpenedUnlocked ==
  ASSUME IInv, NEW name, NEW access \in Access, NEW driver \in {"ok", "EIO"},
         open(name, access, {}, driver), OpenStatus(name, driver) = "ok",
         NEW i \in Fd, alt_fd_list[i].excl
  PROVE  alt_fd_list[i].dev # Find(name)
<1>. SUFFICES ASSUME alt_fd_list[i].dev = Find(name) PROVE FALSE
  OBVIOUS
<1>1. /\ Find(name) \in Device /\ Free # {}
      /\ Find(name) \notin FileSystem => ~ FileLocked(Lowest(Free), Find(name))
  BY OpenedIs
<1>2. Find(name) \notin FileSystem
  BY DEF IInv, Locking, PoolConsistent
<1>3. /\ ~ IsOpen(Lowest(Free)) /\ HighWater(Lowest(Free)) \in Fd
      /\ HighWater(Lowest(Free)) > 2 /\ HighWater(Lowest(Free)) >= alt_max_fd
  BY <1>1, FreeIs
<1>4. IsOpen(i)
  BY <1>1, FilesAssumption DEF IsOpen
<1>5. i <= HighWater(Lowest(Free))
  <2>1. CASE i > 2
    <3>1. i <= alt_max_fd
      BY <1>4, <2>1 DEF IInv, PoolConsistent
    <3>. QED
      BY <1>3, <3>1, FdIs DEF IInv, TypeOK, Fd
  <2>2. CASE ~ (i > 2)
    <3>1. i \in Nat /\ HighWater(Lowest(Free)) \in Nat
      BY <1>3, FdIs
    <3>. QED
      BY <1>3, <2>2, <3>1
  <2>. QED
    BY <2>1, <2>2
<1>. QED
  BY <1>1, <1>2, <1>3, <1>4, <1>5 DEF FileLocked

\* While a descriptor has a device to itself no open of the device succeeds
\* (alt_open.c:71-89).
LEMMA LocksOut == Spec => LockedOut
<1>. DEFINE Kept == result'[1] = "open" /\ result'[3] = "ok" /\ result' # result =>
                      \A i \in Fd : alt_fd_list[i].excl =>
                        alt_fd_list[i].dev # alt_fd_list'[result'[2]].dev
<1>1. IInv /\ [Next]_vars => [Kept]_vars
  <2>. SUFFICES ASSUME IInv, Next, result'[1] = "open", result'[3] = "ok",
                       result' # result,
                       NEW i \in Fd, alt_fd_list[i].excl
                PROVE  alt_fd_list[i].dev # alt_fd_list'[result'[2]].dev
    OBVIOUS
  <2>1. CASE Startup
    BY <2>1 DEF Startup, Register, SysInitDone, RedirectStdout, RedirectStdin,
                RedirectStderr, Redirect
  <2>2. ASSUME NEW name, NEW access \in Modes, NEW driver \in {"ok", "EIO"},
               open(name, access, {}, driver)
        PROVE  alt_fd_list[i].dev # alt_fd_list'[result'[2]].dev
    <3>1. OpenStatus(name, driver) = "ok"
      <4>1. CASE OpenStatus(name, driver) # "ok"
        BY <2>2, <4>1 DEF open, Answer
      <4>. QED
        BY <4>1
    <3>2. /\ result'[2] = Lowest(Free)
          /\ alt_fd_list' = [alt_fd_list EXCEPT
                               ![Lowest(Free)] = Opened(name, access, {})]
      BY <2>2, <3>1 DEF open, Answer
    <3>3. access \in Access
      BY FilesAssumption
    <3>4. Opened(name, access, {}).dev = Find(name) /\ Lowest(Free) \in Fd
      BY <3>1, <3>3, OpenedIs, FreeIs
    <3>5. alt_fd_list'[result'[2]].dev = Find(name)
      <4>1. alt_fd_list \in [Fd -> EntryType]
        BY DEF IInv, TypeOK, EntryType
      <4>. QED
        BY <3>2, <3>4, <4>1
    <3>. QED
      BY <2>2, <3>1, <3>3, <3>5, OpenedUnlocked
  <2>3. ASSUME NEW fd \in Fd, Manage(fd) PROVE FALSE
    BY <2>3 DEF Manage, TIOCEXCL, TIOCNXCL, isatty, close, fcntl, fstat,
                Transfer, Answer, Calls
  <2>4. ASSUME NEW call \in Calls \cup {"close", "isatty", "fcntl"}, BadFd(call)
        PROVE  FALSE
    BY <2>4 DEF BadFd, Answer, Calls
  <2>5. ASSUME NEW name, NEW driver, NEW answer, stat(name, driver, answer)
        PROVE  FALSE
    BY <2>5 DEF stat, Answer
  <2>6. ASSUME NEW name, \/ alt_dma_rxchan_open(name)
                         \/ alt_dma_txchan_open(name) \/ alt_flash_open_dev(name)
        PROVE  FALSE
    BY <2>6 DEF alt_dma_rxchan_open, alt_dma_txchan_open, alt_dma_open,
                alt_flash_open_dev, Answer
  <2>. QED
    BY <2>1, <2>2, <2>3, <2>4, <2>5, <2>6 DEF Next
<1>2. LockedOut <=> [][Kept]_vars
  BY PTL DEF LockedOut
<1>. QED
  BY <1>1, <1>2, Inductive, PTL DEF Spec

\* A call that answers of a descriptor has changed no other, and takes away
\* neither its device nor the way it was opened.
LEMMA OneChanged ==
  ASSUME IInv, NEW fd \in Fd, NEW e, NEW call, NEW status,
         alt_fd_list' = [alt_fd_list EXCEPT ![fd] = e], Answer(call, fd, status),
         IsOpen(fd) /\ e.dev # None =>
           /\ e.dev = alt_fd_list[fd].dev /\ e.access = alt_fd_list[fd].access
           /\ e.excl /\ ~ alt_fd_list[fd].excl => call = "TIOCEXCL",
         NEW i \in Fd, alt_fd_list'[i] # alt_fd_list[i]
  PROVE  /\ result'[2] = i
         /\ IsOpen(i) /\ IsOpen(i)' =>
              /\ alt_fd_list'[i].dev = alt_fd_list[i].dev
              /\ alt_fd_list'[i].access = alt_fd_list[i].access
              /\ alt_fd_list'[i].excl /\ ~ alt_fd_list[i].excl =>
                   result'[1] = "TIOCEXCL"
<1>1. alt_fd_list \in [Fd -> EntryType]
  BY DEF IInv, TypeOK, EntryType
<1>2. i = fd /\ alt_fd_list'[fd] = e
  BY <1>1
<1>. QED
  BY <1>2 DEF IsOpen, Answer

LEMMA KeepsToOne == Spec => OwnOnly
<1>. DEFINE Own(i) == /\ result'[2] = i
                      /\ IsOpen(i) /\ IsOpen(i)' =>
                           /\ alt_fd_list'[i].dev = alt_fd_list[i].dev
                           /\ alt_fd_list'[i].access = alt_fd_list[i].access
                           /\ alt_fd_list'[i].excl /\ ~ alt_fd_list[i].excl =>
                                result'[1] = "TIOCEXCL"
           Kept == InMain => \A fd \in Fd :
                     alt_fd_list'[fd] # alt_fd_list[fd] =>
                       /\ result'[2] = fd
                       /\ IsOpen(fd) /\ IsOpen(fd)' =>
                            /\ alt_fd_list'[fd].dev = alt_fd_list[fd].dev
                            /\ alt_fd_list'[fd].access = alt_fd_list[fd].access
                            /\ alt_fd_list'[fd].excl /\ ~ alt_fd_list[fd].excl =>
                                 result'[1] = "TIOCEXCL"
<1>1. IInv /\ [Next]_vars => [Kept]_vars
  <2>. SUFFICES ASSUME IInv, Next, InMain, NEW i \in Fd,
                       alt_fd_list'[i] # alt_fd_list[i]
                PROVE  Own(i)
    <3>1. (IInv /\ Next => Kept) => (IInv /\ [Next]_vars => [Kept]_vars)
      OBVIOUS
    <3>2. (InMain => \A fd \in Fd : alt_fd_list'[fd] # alt_fd_list[fd] => Own(fd))
             => Kept
      OBVIOUS
    <3>. HIDE DEF Own, Kept
    <3>. QED
      BY <3>1, <3>2
  <2>0. alt_fd_list \in [Fd -> EntryType]
    BY DEF IInv, TypeOK, EntryType
  <2>1. CASE Startup
    BY <2>1 DEF Startup, Register, SysInitDone, RedirectStdout, RedirectStdin,
                RedirectStderr, Redirect, InMain
  <2>2. ASSUME NEW name, NEW access \in Modes, NEW driver \in {"ok", "EIO"},
               open(name, access, {}, driver)
        PROVE  Own(i)
    <3>1. OpenStatus(name, driver) = "ok"
      BY <2>2 DEF open
    <3>2. /\ Answer("open", Lowest(Free), "ok")
          /\ alt_fd_list' = [alt_fd_list EXCEPT
                               ![Lowest(Free)] = Opened(name, access, {})]
      BY <2>2, <3>1 DEF open
    <3>3. access \in Access
      BY FilesAssumption
    <3>4. Lowest(Free) \in Fd /\ ~ IsOpen(Lowest(Free))
      BY <3>1, <3>3, OpenedIs, FreeIs
    <3>. QED
      BY <3>2, <3>4, OneChanged
  <2>3. ASSUME NEW fd \in Fd, Manage(fd) PROVE Own(i)
    <3>1. CASE TIOCEXCL(fd)
      <4>1. /\ alt_fd_list' = [alt_fd_list EXCEPT
                                 ![fd] = [alt_fd_list[fd] EXCEPT !.excl = TRUE]]
            /\ Answer("TIOCEXCL", fd, "ok")
        BY <2>0, <3>1 DEF TIOCEXCL
      <4>2. /\ [alt_fd_list[fd] EXCEPT !.excl = TRUE].dev = alt_fd_list[fd].dev
            /\ [alt_fd_list[fd] EXCEPT !.excl = TRUE].access = alt_fd_list[fd].access
        BY <2>0 DEF EntryType
      <4>. QED
        BY <4>1, <4>2, OneChanged
    <3>2. CASE TIOCNXCL(fd)
      <4>1. /\ alt_fd_list' = [alt_fd_list EXCEPT
                                 ![fd] = [alt_fd_list[fd] EXCEPT !.excl = FALSE]]
            /\ Answer("TIOCNXCL", fd, "ok")
        BY <2>0, <3>2 DEF TIOCNXCL
      <4>2. /\ [alt_fd_list[fd] EXCEPT !.excl = FALSE].dev = alt_fd_list[fd].dev
            /\ [alt_fd_list[fd] EXCEPT !.excl = FALSE].access = alt_fd_list[fd].access
            /\ ~ [alt_fd_list[fd] EXCEPT !.excl = FALSE].excl
        BY <2>0 DEF EntryType
      <4>. QED
        BY <4>1, <4>2, OneChanged
    <3>3. ASSUME NEW flags, NEW cmd, fcntl(fd, cmd, flags) PROVE Own(i)
      <4>. DEFINE e == [alt_fd_list[fd] EXCEPT
                          !.flags = IF cmd = "F_SETFL" THEN flags ELSE @]
      <4>1. alt_fd_list' = [alt_fd_list EXCEPT ![fd] = e]
        BY <2>0, <3>3 DEF fcntl
      <4>2. \E status : Answer("fcntl", fd, status)
        BY <3>3 DEF fcntl
      <4>3. /\ e.dev = alt_fd_list[fd].dev /\ e.access = alt_fd_list[fd].access
            /\ e.excl = alt_fd_list[fd].excl
        BY <2>0 DEF EntryType
      <4>. HIDE DEF e
      <4>. QED
        BY <4>1, <4>2, <4>3, OneChanged
    <3>4. ASSUME NEW driver, close(fd, driver) PROVE Own(i)
      <4>1. alt_fd_list' = [alt_fd_list EXCEPT ![fd] = Blank(None)]
        BY <3>4 DEF close, Release
      <4>2. \E status : Answer("close", fd, status)
        BY <3>4 DEF close
      <4>3. Blank(None).dev = None
        BY DEF Blank, Entry
      <4>. HIDE DEF Blank
      <4>. QED
        BY <4>1, <4>2, <4>3, OneChanged
    <3>5. ASSUME isatty(fd) \/ (\E driver : fstat(fd, driver))
                 \/ (\E call, driver : Transfer(call, fd, driver))
          PROVE  FALSE
      BY <3>5 DEF isatty, fstat, Transfer, pool
    <3>. QED
      BY <2>3, <3>1, <3>2, <3>3, <3>4, <3>5 DEF Manage
  <2>4. ASSUME NEW call, BadFd(call) PROVE FALSE
    BY <2>4 DEF BadFd, pool
  <2>5. ASSUME NEW name, NEW driver, NEW answer, stat(name, driver, answer)
        PROVE  FALSE
    BY <2>5, StatSame
  <2>6. ASSUME NEW name, \/ alt_dma_rxchan_open(name)
                         \/ alt_dma_txchan_open(name) \/ alt_flash_open_dev(name)
        PROVE  FALSE
    BY <2>6 DEF alt_dma_rxchan_open, alt_dma_txchan_open, alt_dma_open,
                alt_flash_open_dev, pool
  <2>. QED
    BY <2>1, <2>2, <2>3, <2>4, <2>5, <2>6 DEF Next
<1>2. OwnOnly <=> [][Kept]_vars
  BY PTL DEF OwnOnly
<1>. QED
  BY <1>1, <1>2, Inductive, PTL DEF Spec

\* No descriptor is missed or without its device, a call changes its own
\* descriptor only (alt_get_fd.c:60-93, alt_release_fd.c:46-51), and one that
\* has its device to itself keeps every open of the device out.
THEOREM FilesAreRight == Spec => FilesRight
<1>1. IInv => TypeOK /\ PoolConsistent
  BY DEF IInv
<1>. QED
  BY <1>1, Inductive, LocksOut, KeepsToOne, PTL DEF FilesRight
=============================================================================
