------------------------------- MODULE Files -------------------------------
(***************************************************************************)
(* The file descriptors of the HAL, and the system calls on them: from the *)
(* registration of devices and file systems at startup over the redirec-   *)
(* tion of standard input and output to open, close, ioctl, fcntl, read,   *)
(* write and the rest, which check what they can and call the driver.      *)
(* Names are sequences of components.  There is one thread.                *)
(***************************************************************************)
EXTENDS Integers, Sequences, FiniteSets

CONSTANTS Device,      \* the devices and file systems, /dev/null among them
          FileSystem,  \* which of them are file systems
          NullDev,     \* alt_dev_null
          None,        \* no device
          Name,        \* their names, and the names that are opened
          OpenNames, Modes,  \* and how
          Can,         \* the functions a driver provides
          FcntlFlags,  \* the flags fcntl can change
          Stdin, Stdout, Stderr,   \* names (ALT_STDIN ...)
          ALT_MAX_FD

Access == {"O_RDONLY", "O_WRONLY", "O_RDWR"}
Functions == {"open", "close", "read", "write", "lseek", "fstat", "ioctl"}

ASSUME FilesAssumption ==
  /\ FileSystem \subseteq Device /\ NullDev \in Device \ FileSystem
  /\ None \notin Device
  /\ Can \in [Device -> SUBSET Functions] /\ Can[NullDev] = {"write"}
  /\ DOMAIN Name = Device /\ Modes \subseteq Access
  /\ ALT_MAX_FD \in Nat /\ ALT_MAX_FD > 3

\* The instance of the JTAG UART: neither open, nor lseek, nor fstat.
JtagUartCan == {"close", "read", "write", "ioctl"}

VARIABLES alt_dev_list, alt_fs_list,  \* the lists, first entry first
          alt_fd_list, alt_max_fd,
          result,         \* of the last call: its name, its descriptor, and
                          \* "ok" or the error it left in errno
          phase,          \* of the startup
          opened          \* external: the descriptors drivers know as open
lists == <<alt_dev_list, alt_fs_list>>
pool == <<alt_fd_list, alt_max_fd>>
vars == <<lists, pool, result, phase, opened>>

Fd == 0 .. ALT_MAX_FD - 1
Entry(d, access, flags, excl, dev) ==
  [dev |-> d, access |-> access, flags |-> flags, excl |-> excl,
   fd_dev |-> dev]
\* A free entry, and what standard input, output and error start as: fd_flags
\* is 0 in both, which is O_RDONLY.
Blank(d) == Entry(d, "O_RDONLY", {}, FALSE, FALSE)

Init == /\ alt_dev_list = <<NullDev>> /\ alt_fs_list = <<>>
        /\ alt_fd_list = [i \in Fd |-> Blank(IF i <= 2 THEN NullDev ELSE None)]
        /\ alt_max_fd = -1
        /\ result = <<"none", -1, "ok">>
        /\ phase = "init"
        /\ opened = {}

Answer(call, fd, status) == result' = <<call, fd, status>>
Listed(d, list) == \E i \in 1 .. Len(list) : list[i] = d

-----------------------------------------------------------------------------
(* Startup.                                                                *)

\* alt_dev_llist_insert and alt_fs_reg put a new entry first.
Register(d) ==
  /\ phase = "init" /\ ~ Listed(d, alt_dev_list \o alt_fs_list)
  /\ IF d \in FileSystem
     THEN alt_fs_list' = <<d>> \o alt_fs_list /\ UNCHANGED alt_dev_list
     ELSE alt_dev_list' = <<d>> \o alt_dev_list /\ UNCHANGED alt_fs_list
  /\ UNCHANGED <<pool, result, phase, opened>>
SysInitDone == /\ phase = "init" /\ phase' = "stdout"
               /\ UNCHANGED <<lists, pool, result, opened>>

\* alt_find_dev wants the name, alt_find_file a mount point it begins with.
Prefix(p, s) == Len(p) <= Len(s) /\ SubSeq(s, 1, Len(p)) = p
Lowest(S) == CHOOSE i \in S : \A j \in S : i <= j
First(list, hits) == IF hits = {} THEN None ELSE list[Lowest(hits)]
FindIn(list, name) == First(list, {i \in 1 .. Len(list) : Name[list[i]] = name})
FindDev(name) == FindIn(alt_dev_list, name)
FindFile(name) == First(alt_fs_list, {i \in 1 .. Len(alt_fs_list) :
                                        Prefix(Name[alt_fs_list[i]], name)})
Find(name) == IF FindDev(name) # None THEN FindDev(name) ELSE FindFile(name)

\* alt_get_fd takes the first free descriptor.
Free == {i \in Fd : alt_fd_list[i].dev = None}
HighWaterLast(fd) == fd
HighWater(fd) == IF fd > alt_max_fd THEN fd ELSE alt_max_fd
\* alt_file_locked.
FileLockedBelow(fd, d) == \E i \in Fd : /\ i < alt_max_fd /\ i # fd
                                   /\ alt_fd_list[i].dev = d
                                   /\ alt_fd_list[i].excl
FileLocked(fd, d) == \E i \in Fd : /\ i <= HighWater(fd) /\ i # fd
                                   /\ alt_fd_list[i].dev = d
                                   /\ alt_fd_list[i].excl
\* The outcome of open: the status, with that of the driver's open if it gets
\* that far.
OpenStatus(name, driver) ==
  LET d == Find(name) IN
  IF d = None THEN "ENODEV"
  ELSE IF Free = {} THEN "EMFILE"
  ELSE IF d \notin FileSystem /\ FileLocked(Lowest(Free), d) THEN "EACCES"
  ELSE IF "open" \in Can[d] THEN driver ELSE "ok"
\* alt_get_fd raises the mark even if the descriptor is released again.
Mark(name) == alt_max_fd' = IF Find(name) = None \/ Free = {} THEN alt_max_fd
                            ELSE HighWater(Lowest(Free))
Opened(name, access, flags) ==
  Entry(Find(name), access, flags, FALSE, Find(name) \notin FileSystem)

\* alt_open_fd: the descriptor it opens is moved to one of the first three.
Redirect(fd, name, access, here, next) ==
  /\ phase = here /\ phase' = next
  /\ \E driver \in {"ok", "EIO"} :
       LET status == OpenStatus(name, driver)
       IN  IF status = "ok"
           THEN /\ alt_fd_list' = [alt_fd_list EXCEPT
                                     ![fd] = Opened(name, access, {})]
                /\ opened' = opened \cup {fd}
           ELSE UNCHANGED <<alt_fd_list, opened>>
  /\ Mark(name)
  /\ UNCHANGED <<lists, result>>
RedirectStdout == Redirect(1, Stdout, "O_WRONLY", "stdout", "stdin")
RedirectStdin == Redirect(0, Stdin, "O_RDONLY", "stdin", "stderr")
RedirectStderr == Redirect(2, Stderr, "O_WRONLY", "stderr", "main")

-----------------------------------------------------------------------------
(* System calls of the application, on descriptors it has or on -1, what a *)
(* failed open gave it.                                                    *)

InMain == phase = "main"
Valid(fd) == fd \in Fd /\ alt_fd_list[fd].dev # None
Driver(fd) == alt_fd_list[fd].dev
BadFd(call) == /\ Answer(call, -1, "EBADFD")
               /\ UNCHANGED <<lists, pool, phase, opened>>

openKeepsFd(name, access, flags, driver) ==
  /\ InMain
  /\ LET status == OpenStatus(name, driver)
     IN  /\ alt_fd_list' =
              IF status \in {"ok", "EIO"}
              THEN [alt_fd_list EXCEPT
                      ![Lowest(Free)] = Opened(name, access, flags)]
              ELSE alt_fd_list
         /\ opened' = IF status = "ok" THEN opened \cup {Lowest(Free)}
                      ELSE opened
         /\ Answer("open", IF status = "ok" THEN Lowest(Free) ELSE -1, status)
  /\ Mark(name)
  /\ UNCHANGED <<lists, phase>>
open(name, access, flags, driver) ==
  /\ InMain
  /\ LET status == OpenStatus(name, driver)
     IN  IF status = "ok"
         THEN /\ alt_fd_list' = [alt_fd_list EXCEPT
                                   ![Lowest(Free)] = Opened(name, access, flags)]
              /\ opened' = opened \cup {Lowest(Free)}
              /\ Answer("open", Lowest(Free), "ok")
         ELSE /\ Answer("open", -1, status)
              /\ UNCHANGED <<alt_fd_list, opened>>
  /\ Mark(name)
  /\ UNCHANGED <<lists, phase>>

\* The first three are never given back.
Release(fd) == alt_fd_list' = IF fd > 2
                              THEN [alt_fd_list EXCEPT ![fd] = Blank(None)]
                              ELSE alt_fd_list
close(fd, driver) ==
  /\ InMain /\ Valid(fd)
  /\ Release(fd)
  /\ opened' = opened \ {fd}
  /\ Answer("close", fd, IF "close" \in Can[Driver(fd)] THEN driver ELSE "ok")
  /\ UNCHANGED <<lists, alt_max_fd, phase>>

\* stat() opens the file for reading, asks and closes it; when it cannot be
\* opened, fstat() and close() refuse -1.
stat(name, driver, answer) ==
  /\ InMain
  /\ LET status == OpenStatus(name, driver)
     IN  IF status = "ok"
         THEN /\ alt_fd_list' = [alt_fd_list EXCEPT ![Lowest(Free)] = Blank(None)]
              /\ Answer("stat", Lowest(Free),
                        IF "fstat" \in Can[Find(name)] /\ answer # "ok"
                        THEN "-EIO" ELSE "ok")
         ELSE Answer("stat", -1, "EBADFD") /\ UNCHANGED alt_fd_list
  /\ Mark(name)
  /\ UNCHANGED <<lists, phase, opened>>

\* alt_dma_rxchan_open, alt_dma_txchan_open and alt_flash_open_dev look for a
\* name in lists of their own, which no driver of this board enters.
alt_dma_rxchan_list == <<>>
alt_dma_txchan_list == <<>>
alt_dma_open(call, list, name) ==
  /\ InMain
  /\ Answer(call, -1, IF FindIn(list, name) = None THEN "ENODEV" ELSE "ok")
  /\ UNCHANGED <<lists, pool, phase, opened>>
alt_dma_rxchan_open(name) == alt_dma_open("rxchan", alt_dma_rxchan_list, name)
alt_dma_txchan_open(name) == alt_dma_open("txchan", alt_dma_txchan_list, name)

alt_flash_dev_list == <<>>
alt_flash_open_dev(name) ==
  /\ InMain
  /\ Answer("flash", -1, IF FindIn(alt_flash_dev_list, name) = None THEN "NULL"
                         ELSE "ok")
  /\ UNCHANGED <<lists, pool, phase, opened>>

\* alt_fd_lock and alt_fd_unlock.
Shared(fd) == \E i \in Fd : /\ i < alt_max_fd /\ i # fd
                            /\ alt_fd_list[i].dev = Driver(fd)
TIOCEXCL(fd) ==
  /\ InMain /\ Valid(fd) /\ alt_fd_list[fd].fd_dev
  /\ IF Shared(fd)
     THEN Answer("TIOCEXCL", fd, "EACCES") /\ UNCHANGED alt_fd_list
     ELSE /\ alt_fd_list' = [alt_fd_list EXCEPT ![fd].excl = TRUE]
          /\ Answer("TIOCEXCL", fd, "ok")
  /\ UNCHANGED <<lists, alt_max_fd, phase, opened>>
TIOCNXCL(fd) ==
  /\ InMain /\ Valid(fd) /\ alt_fd_list[fd].fd_dev
  /\ alt_fd_list' = [alt_fd_list EXCEPT ![fd].excl = FALSE]
  /\ Answer("TIOCNXCL", fd, "ok")
  /\ UNCHANGED <<lists, alt_max_fd, phase, opened>>
\* fcntl: F_SETFL sets O_APPEND and O_NONBLOCK, F_GETFL only looks.
fcntl(fd, cmd, flags) ==
  /\ InMain /\ Valid(fd)
  /\ alt_fd_list' = [alt_fd_list EXCEPT
                       ![fd].flags = IF cmd = "F_SETFL" THEN flags ELSE @]
  /\ Answer("fcntl", fd, IF cmd = "other" THEN "EINVAL" ELSE "ok")
  /\ UNCHANGED <<lists, alt_max_fd, phase, opened>>

\* The calls that change no descriptor: what they refuse without the driver.
Refused(call, fd) ==
  CASE call = "read"  -> alt_fd_list[fd].access = "O_WRONLY" \/
                         "read" \notin Can[Driver(fd)]
    [] call = "write" -> alt_fd_list[fd].access = "O_RDONLY" \/
                         "write" \notin Can[Driver(fd)]
    [] call \in {"lseek", "ioctl"} -> call \notin Can[Driver(fd)]
Why(call) == CASE call \in {"read", "write"} -> "EACCES"
               [] call = "lseek" -> "ENOTSUP" [] call = "ioctl" -> "ENOTTY"
Transfer(call, fd, driver) ==
  /\ InMain /\ Valid(fd)
  /\ Answer(call, fd, IF Refused(call, fd) THEN Why(call)
                      ELSE IF call \in Can[Driver(fd)] /\ Driver(fd) # NullDev
                      THEN driver ELSE "ok")
  /\ UNCHANGED <<lists, pool, phase, opened>>
\* fstat passes the driver's answer on and leaves errno alone.
fstat(fd, driver) ==
  /\ InMain /\ Valid(fd)
  /\ result' = <<"fstat", fd, IF "fstat" \in Can[Driver(fd)] /\ driver # "ok"
                              THEN "-EIO" ELSE "ok">>
  /\ UNCHANGED <<lists, pool, phase, opened>>
\* isatty: an fstat that fails leaves it with a mode nobody has written.
isatty(fd) ==
  /\ InMain /\ Valid(fd)
  /\ \E terminal \in IF "fstat" \in Can[Driver(fd)] THEN {"ok", "no"} ELSE {"ok"} :
       result' = <<"isatty", fd, terminal>>
  /\ UNCHANGED <<lists, pool, phase, opened>>

Calls == {"read", "write", "lseek", "ioctl"}
FlagSets == SUBSET FcntlFlags
Startup == \/ \E d \in Device : Register(d)
           \/ SysInitDone \/ RedirectStdout \/ RedirectStdin \/ RedirectStderr
Manage(fd) ==
  \/ TIOCEXCL(fd) \/ TIOCNXCL(fd) \/ isatty(fd)
  \/ \E driver \in {"ok", "EIO"} : close(fd, driver)
  \/ \E flags \in FlagSets, cmd \in {"F_GETFL", "F_SETFL", "other"} :
       fcntl(fd, cmd, flags)
  \/ \E driver \in {"ok", "EIO"} : fstat(fd, driver)
  \/ \E call \in Calls, driver \in {"ok", "EIO"} : Transfer(call, fd, driver)
Next == \/ Startup
        \/ \E name \in OpenNames, access \in Modes, driver \in {"ok", "EIO"} :
             open(name, access, {}, driver)
        \/ \E name \in OpenNames, driver, answer \in {"ok", "EIO"} :
             stat(name, driver, answer)
        \/ \E name \in OpenNames :
             \/ alt_dma_rxchan_open(name) \/ alt_dma_txchan_open(name)
             \/ alt_flash_open_dev(name)
        \/ \E fd \in Fd : Manage(fd)
        \/ InMain /\ \E call \in Calls \cup {"close", "isatty", "fcntl"} :
             BadFd(call)
Spec == Init /\ [][Next]_vars
-----------------------------------------------------------------------------
IsOpen(fd) == alt_fd_list[fd].dev # None
Std == 0 .. 2
TypeOK ==
  /\ alt_fd_list \in
       [Fd -> [dev : Device \cup {None}, access : Access, flags : FlagSets,
               excl : BOOLEAN, fd_dev : BOOLEAN]]
  /\ alt_max_fd \in -1 .. ALT_MAX_FD - 1
  /\ alt_dev_list \in Seq(Device \ FileSystem)
  /\ alt_fs_list \in Seq(FileSystem)
  /\ phase \in {"init", "stdout", "stdin", "stderr", "main"}
  /\ opened \subseteq Fd

\* What the loops that stop at the mark rely on, and what every system call
\* relies on of the first three: no descriptor is missed, none is without a
\* device, and only a device's can be locked.
PoolConsistent ==
  /\ \A fd \in Fd : fd > 2 /\ IsOpen(fd) => fd <= alt_max_fd
  /\ \A fd \in Std : IsOpen(fd)
  /\ \A fd \in Fd : alt_fd_list[fd].excl => alt_fd_list[fd].fd_dev
  /\ \A fd \in Fd : ~ IsOpen(fd) => alt_fd_list[fd] = Blank(None)

\* A descriptor above the first three is taken exactly as long as its driver
\* has it open: an open that fails half-way and a redirection leak none.
NothingLeaks == \A fd \in Fd \ Std : IsOpen(fd) <=> fd \in opened

\* A device is locked by one descriptor at a time, whatever the loops of
\* alt_file_locked and alt_fd_lock skip.
OneLock ==
  \A i, j \in Fd : alt_fd_list[i].excl /\ alt_fd_list[j].excl /\ i # j =>
                     alt_fd_list[i].dev # alt_fd_list[j].dev

\* While a descriptor has a device to itself no open of the device succeeds.
LockedOut ==
  [][result'[1] = "open" /\ result'[3] = "ok" /\ result' # result =>
       \A i \in Fd : alt_fd_list[i].excl =>
         alt_fd_list[i].dev # alt_fd_list'[result'[2]].dev]_vars

\* A call changes no descriptor but its own, and of an open one neither its
\* device nor its access; only a lock locks.
OwnOnly ==
  [][InMain => \A fd \in Fd :
       alt_fd_list'[fd] # alt_fd_list[fd] =>
         /\ result'[2] = fd
         /\ IsOpen(fd) /\ IsOpen(fd)' =>
              /\ alt_fd_list'[fd].dev = alt_fd_list[fd].dev
              /\ alt_fd_list'[fd].access = alt_fd_list[fd].access
              /\ alt_fd_list'[fd].excl /\ ~ alt_fd_list[fd].excl =>
                   result'[1] = "TIOCEXCL"]_vars

\* No descriptor is missed or without its device, a call changes its own
\* descriptor only, and one that has its device to itself keeps every open of
\* the device out.
FilesRight == [](TypeOK /\ PoolConsistent) /\ OwnOnly /\ LockedOut

\* alt_fd_lock.c:43 says: "If there are no other open file descriptors which
\* reference the same device, then alt_fd_lock() will grant the lock."
LockedIsAlone ==
  [][\A fd \in Fd : result' = <<"TIOCEXCL", fd, "ok">> /\ result' # result =>
       \A i \in Fd \ {fd} : alt_fd_list[i].dev # alt_fd_list[fd].dev]_vars

\* alt_dev.c:83 says: "At startup stin, stdout & stderr are all directed
\* towards this device so that library calls like printf() will be safe but
\* inefectual", and its write function answers that all was transmitted.
PrintingIsSafe ==
  result[1] = "write" /\ result[2] = 1 /\ alt_fd_list[1].dev = NullDev =>
    result[3] = "ok"

\* alt_fd_lock.c:47 says that the lock is released "by calling close() for this
\* file descriptor".
CloseUnlocks == result[1] = "close" /\ result[3] = "ok" =>
                  ~ alt_fd_list[result[2]].excl
=============================================================================
